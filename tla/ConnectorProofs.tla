--------------------------- MODULE ConnectorProofs ---------------------------
(***************************************************************************)
(* Proofs about connectors, first the connections of a workspace           *)
(* (Connections), then, further down, their catalog (ConnectorReleases).   *)
(*                                                                         *)
(* The connections of a workspace: what a person has granted               *)
(* is neither lost nor given out twice, a disconnection takes down all     *)
(* that answers through the account, and what was revoked comes back only  *)
(* by a person.  They hold for any apps, families, accounts, callbacks and *)
(* links, and for any number of crashes and outages.                       *)
(*                                                                         *)
(* A request, a preflight and a callback act on rows they loaded before,   *)
(* while the others commit.  The invariant says what each still knows: the *)
(* columns that nobody else writes are as it loaded them (Current), a      *)
(* renewed grant is the newest (Newest), a link is in one hand (InOneHand),*)
(* what may enable a row was begun by a person (Begun), and what a deletion*)
(* has left on is about to be switched off (Withdrawn).                    *)
(***************************************************************************)
EXTENDS Connections, ConnectorReleases, SequenceTheorems, TLAPS

Verdicts == {"ok", "retry", "refused"}
Brokers  == {"pipedream", "nango", "zernio"}

\* What a callback holds between its load and its commit.
Calls == {Idle}
         \cup [kind : {"exchange"}, s : apps, n : 1..MaxLinks, row : Row]
         \cup [kind : {"grant"}, s : apps, n : 1..MaxLinks, a : Accounts]

\* What a preflight holds; it has loaded a connection that was offered.
Checks == [kind : {"preflight"}, s : apps, row : Row, verdict : Verdicts, cred : 0..MaxTokens]

\* Requests that hold one row, of which the last renews a grant.
Single == {"activate", "sync", "test", "native"}

\* Rows and what is held of them have their types, and each kind of request is
\* one of its plane.
Typed ==
  /\ TypeOK
  /\ open \subseteq apps \X (1..MaxLinks) /\ spent \in [apps \X (1..MaxLinks) -> Nat]
  /\ back \in [Callbacks -> Calls]
  /\ \A b \in Callbacks :
       /\ back[b].kind = "exchange" => Backend[back[b].s] \in {"mcp", "meta"}
       /\ back[b].kind = "grant" => Backend[back[b].s] = "zernio" /\ back[b].a \in Own(back[b].s)
  /\ wk = Idle \/ wk \in Checks
  /\ wk.kind = "preflight" =>
       /\ wk.row.on /\ wk.row.st = "verified" /\ Backend[wk.s] \notin {"mcp", "shopify"}
       /\ Backend[wk.s] = "native" => wk.cred <= token[wk.s]
  /\ req.kind \in Single => req.s \in apps /\ req.rows[req.s] \in Row /\ req.verdict \in Verdicts
  /\ req.kind = "native" => /\ Backend[req.s] \in {"native", "meta"} /\ req.cred \in 0..MaxTokens
                            /\ Backend[req.s] = "native" => req.cred <= token[req.s]
  /\ req.kind = "activate" => Backend[req.s] = "pipedream" /\ req.a \in Own(req.s)
  /\ req.kind = "sync" => Backend[req.s] = "nango" /\ req.a \in Own(req.s)
  /\ req.kind = "test" => Backend[req.s] \notin {"native", "meta", "mcp"}
  /\ req.kind = "disconnect" =>
       /\ req.s \in req.all /\ req.all \subseteq apps /\ \A r \in req.all : req.rows[r] \in Row
       /\ \A r \in req.all : Backend[r] = "zernio" =>
            r = req.s /\ req.verdict = "ok" /\ req.rows[r].acct # NoAccount /\ req.rows[r].ref

\* The columns of a row that only requests write.
SameAccount(row, now) == row.acct = now.acct /\ row.ref = now.ref /\ row.par = now.par

\* An account is filed under the app of its row, and with its reference unless it
\* is a family's; a plugin is behind a route of its app; a request knows the
\* account of its row, unless a callback of zernio has replaced it.
Current ==
  /\ \A s \in apps :
       /\ rows[s].acct # NoAccount => Backend[s] \in Brokers /\ rows[s].acct \in Own(s)
       /\ Backend[s] \in {"nango", "zernio"} /\ rows[s].acct # NoAccount => rows[s].ref
       /\ Backend[s] = "plugin" /\ (rows[s].on \/ rows[s].st # "none" \/ rows[s].par # NoSlug)
          => rows[s].par \in Family(s)
  /\ req.kind \in Single /\ Backend[req.s] # "zernio" => SameAccount(req.rows[req.s], rows[req.s])
  /\ req.kind = "test" =>
       /\ Backend[req.s] = "plugin" => rows[req.s].par \in Family(req.s)
       /\ Backend[req.s] = "nango" /\ req.verdict = "ok" => rows[req.s].ref
  /\ req.kind = "disconnect" =>
       \A r \in req.all : /\ Backend[r] # "zernio" => SameAccount(req.rows[r], rows[r])
                          /\ Backend[r] = "plugin" => rows[r].par \in Family(r)

\* Whether a session has renewed the grant of s and not stored it.
TestRenewed(s)  == req.kind = "native" /\ req.s = s /\ req.cred # req.rows[s].cred
CheckRenewed(s) == wk.kind = "preflight" /\ wk.s = s /\ wk.cred # wk.row.cred

\* Of a grant that was not torn, a session that renewed it holds the newest, and
\* so does the row unless such a session is about to store it.
Newest ==
  \A s \in apps \ torn : Backend[s] = "native" =>
    /\ TestRenewed(s) => req.cred = token[s]
    /\ CheckRenewed(s) => wk.cred = token[s]
    /\ rows[s].cred \in {0, token[s]} \/ TestRenewed(s) \/ CheckRenewed(s)

\* A link that is open or in a callback's hand has not been exchanged; it is in
\* one hand, and new links have new numbers.
InOneHand ==
  /\ \A s \in apps, n \in 1..MaxLinks :
       /\ spent[<<s, n>>] <= 1 /\ (spent[<<s, n>>] = 1 => n <= issued[s])
       /\ <<s, n>> \in open => spent[<<s, n>>] = 0 /\ n <= issued[s]
  /\ \A b \in Callbacks : back[b].kind # "idle" =>
       /\ spent[<<back[b].s, back[b].n>>] = 0 /\ back[b].n <= issued[back[b].s]
       /\ back[b].kind = "exchange" => <<back[b].s, back[b].n>> \notin open
  /\ \A b, d \in Callbacks :
       /\ b # d /\ back[b].kind # "idle" /\ back[d].kind # "idle"
       => back[b].s # back[d].s \/ back[b].n # back[d].n

\* An agent's connection is enabled as long as it has its grant.
Whole(s, row) == Backend[s] = "mcp" => (row.on => row.cred = 1) /\ (~row.on => row.cred = 0)

\* A link that is open or in a callback's hand was begun by a person since the
\* last disconnection, and agents' rows are whole, also those that were loaded.
Begun ==
  /\ \A s \in apps, n \in 1..MaxLinks : <<s, n>> \in open => s \in fresh
  /\ \A b \in Callbacks : back[b].kind # "idle" => back[b].s \in fresh
  /\ \A s \in apps : Whole(s, rows[s])
  /\ req.kind = "disconnect" => \A r \in req.all : Whole(r, req.rows[r])
  /\ \A b \in Callbacks : back[b].kind = "exchange" => Whole(back[b].s, back[b].row)

\* Whether the account of a row has been deleted at its broker.
Deleted(row) == row.acct # NoAccount /\ remote[row.acct] = "deleted"

\* What is on through a deleted account, or behind a route that is revoked, is
\* about to be switched off; no request enables a row through such an account.
Withdrawn ==
  /\ \A s \in apps \ torn : Deleted(rows[s]) /\ rows[s].on =>
       /\ req.kind = "disconnect" /\ s \in req.all
       /\ req.rows[s].on \/ Backend[s] = "zernio"
  /\ \A b \in Callbacks :
       /\ back[b].kind = "grant" /\ back[b].s \notin torn /\ remote[back[b].a] = "deleted"
       => req.kind = "disconnect" /\ req.s = back[b].s
  /\ req.kind \in {"activate", "sync"} => remote[req.a] # "deleted"
  /\ req.kind = "test" /\ req.verdict = "ok" /\ req.s \notin torn => ~Deleted(rows[req.s])

Behind ==
  /\ \A s \in apps : Backend[s] = "plugin" /\ rows[s].on => rows[rows[s].par].st # "revoked"
  /\ req.kind = "test" /\ req.verdict = "ok" /\ Backend[req.s] = "plugin" =>
       rows[req.s].par \in Family(req.s) /\ rows[rows[req.s].par].st # "revoked"
  /\ req.kind = "disconnect" => \A w \in apps : Backend[w] = "plugin" =>
       /\ w \in req.all /\ rows[w].on => req.rows[w].on
       /\ rows[w].par \in req.all /\ Backend[rows[w].par] = "pipedream" => w \in req.all

Inv == Typed /\ Current /\ Newest /\ InOneHand /\ Begun /\ Withdrawn /\ Behind
-------------------------------------------------------------------------------
\* What a session stores: the columns it has changed, of the row of now.
LEMMA Saved ==
  ASSUME NEW x \in Row, NEW y \in Row, NEW z \in Row
  PROVE  /\ Save(x, y, z) \in Row
         /\ Save(x, y, z).st = IF z.st # y.st THEN z.st ELSE x.st
         /\ Save(x, y, z).on = IF z.on # y.on THEN z.on ELSE x.on
         /\ Save(x, y, z).ok = IF z.ok # y.ok THEN z.ok ELSE x.ok
         /\ Save(x, y, z).acct = IF z.acct # y.acct THEN z.acct ELSE x.acct
         /\ Save(x, y, z).ref = IF z.ref # y.ref THEN z.ref ELSE x.ref
         /\ Save(x, y, z).par = IF z.par # y.par THEN z.par ELSE x.par
         /\ Save(x, y, z).cred = IF z.cred # y.cred THEN z.cred ELSE x.cred
BY DEF Save, Row

\* A session that changes no column of the account stores none.
LEMMA SavedAccount ==
  ASSUME NEW x \in Row, NEW y \in Row, NEW z \in Row, SameAccount(z, y)
  PROVE  SameAccount(Save(x, y, z), x)
BY DEF Save, Row, SameAccount

\* The parts of the invariant stand while the state they speak of does.
LEMMA CurrentStutter == Current /\ UNCHANGED <<apps, rows, remote, req>> => Current'
BY DEF Current, Own, Family

LEMMA NewestStutter ==
  Newest /\ UNCHANGED <<apps, rows, token, torn, req, wk>> => Newest'
BY DEF Newest, TestRenewed, CheckRenewed

LEMMA InOneHandStutter == InOneHand /\ UNCHANGED <<apps, open, issued, spent, back>> => InOneHand'
BY DEF InOneHand

LEMMA BegunStutter == Begun /\ UNCHANGED <<apps, open, back, fresh, rows, req>> => Begun'
BY DEF Begun, Whole

LEMMA WithdrawnStutter ==
  Withdrawn /\ UNCHANGED <<apps, rows, remote, torn, req, back>> => Withdrawn'
BY DEF Withdrawn, Deleted

LEMMA BehindStutter == Behind /\ UNCHANGED <<apps, rows, req>> => Behind'
BY DEF Behind, Family

\* The provider's side: access is granted, renewed, withdrawn or expires.
LEMMA RemoteKeeps ==
  ASSUME Inv, NEW a \in DOMAIN remote, NEW x \in {"live", "expired"},
         remote[a] \in {"free", "live", "expired"}, remote' = [remote EXCEPT ![a] = x],
         UNCHANGED <<apps, rows, token, open, issued, pin, req, wk, back, down, faults, spent,
                     fresh, torn>>
  PROVE  Inv'
<1>1. DOMAIN remote' = DOMAIN remote
  OBVIOUS
<1>2. Typed'
  BY <1>1 DEF Inv, Typed, TypeOK, Calls, Checks, Row, Own
<1>3. Current'
  BY <1>1 DEF Inv, Current, Own, Family
<1>4. Withdrawn'
  BY <1>1 DEF Inv, Withdrawn, Deleted
<1>. QED
  BY <1>2, <1>3, <1>4, NewestStutter, InOneHandStutter, BegunStutter, BehindStutter DEF Inv

\* Outages change nothing that the invariant speaks of.
LEMMA OutageKeeps ==
  ASSUME Inv, UNCHANGED <<apps, rows, remote, token, open, issued, pin, req, wk, back, spent,
                          fresh, torn>>
  PROVE  Inv'
<1>1. Typed'
  BY DEF Inv, Typed, TypeOK, Calls, Checks, Row, Own
<1>. QED
  BY <1>1, CurrentStutter, NewestStutter, InOneHandStutter, BegunStutter, WithdrawnStutter,
     BehindStutter DEF Inv
-------------------------------------------------------------------------------
\* Links and callbacks

\* A new link has a new number, and was begun by a person.
LEMMA IssueKeeps ==
  ASSUME Inv, NEW s \in apps, NEW kept, kept \subseteq open, Issue(s, kept)
  PROVE  Inv'
<1>. USE ConnectionAssumption DEF ConnectionAssumption
<1>. DEFINE n == issued[s] + 1
<1>1. n \in 1..MaxLinks /\ issued[s] \in Nat /\ s \in Slugs /\ n = issued[s] + 1
  BY DEF Issue, Inv, Typed, TypeOK
<1>2. /\ open' = kept \cup {<<s, n>>} /\ issued' = [issued EXCEPT ![s] = n]
         /\ fresh' = fresh \cup {s}
      /\ UNCHANGED <<apps, rows, remote, token, down, req, wk, back, spent, faults, torn>>
  BY <1>1 DEF Issue, world, Inv, Typed, TypeOK
<1>. HIDE DEF n
<1>3. Typed'
  BY <1>1, <1>2 DEF Inv, Typed, TypeOK, Calls, Checks, Row, Own, Links
<1>4. InOneHand'
  <2>1. ASSUME NEW r \in apps, NEW k \in 1..MaxLinks
        PROVE  /\ spent[<<r, k>>] <= 1 /\ (spent[<<r, k>>] = 1 => k <= issued'[r])
               /\ <<r, k>> \in open' => spent[<<r, k>>] = 0 /\ k <= issued'[r]
    <3>1. <<r, k>> \in apps \X (1..MaxLinks) /\ spent[<<r, k>>] \in Nat
      BY DEF Inv, Typed
    <3>2. issued[r] \in Nat /\ issued'[r] \in Nat /\ issued[r] <= issued'[r]
      BY <1>1, <1>2 DEF Inv, Typed, TypeOK
    <3>3. /\ spent[<<r, k>>] <= 1 /\ (spent[<<r, k>>] = 1 => k <= issued[r])
          /\ <<r, k>> \in open => spent[<<r, k>>] = 0 /\ k <= issued[r]
      BY DEF Inv, InOneHand
    <3>4. CASE <<r, k>> \in open
      BY <3>1, <3>2, <3>3, <3>4
    <3>5. CASE <<r, k>> \notin open /\ <<r, k>> \in open'
      <4>1. r = s /\ k = n /\ issued'[r] = n
        BY <1>1, <1>2, <3>5 DEF Inv, Typed, TypeOK
      <4>. QED
        BY <1>1, <3>1, <3>3, <4>1
    <3>6. CASE <<r, k>> \notin open'
      BY <3>1, <3>2, <3>3, <3>6
    <3>. QED
      BY <3>4, <3>5, <3>6
  <2>2. ASSUME NEW b \in Callbacks, back[b].kind # "idle"
        PROVE  /\ spent[<<back[b].s, back[b].n>>] = 0 /\ back[b].n <= issued'[back[b].s]
               /\ back[b].kind = "exchange" => <<back[b].s, back[b].n>> \notin open'
    BY <1>1, <1>2, <2>2 DEF Inv, InOneHand, Typed, TypeOK, Calls, Idle
  <2>. QED
    BY <1>2, <2>1, <2>2 DEF Inv, InOneHand
<1>5. Begun'
  BY <1>2 DEF Inv, Begun, Whole
<1>. QED
  BY <1>2, <1>3, <1>4, <1>5, CurrentStutter, NewestStutter, WithdrawnStutter, BehindStutter DEF Inv

LEMMA StartKeeps == ASSUME Inv, NEW s \in apps, Start(s) \/ Reconnect(s) PROVE Inv'
BY IssueKeeps DEF Start, Reconnect, StartAgent, StartZernio, StartGrant

\* A callback takes its link off the open ones before it exchanges the code.
LEMMA SpendLinkKeeps ==
  ASSUME Inv, NEW b \in Callbacks, NEW s \in apps, NEW n \in 1..MaxLinks,
         Backend[s] \in {"mcp", "meta"}, SpendLink(b, s, n)
  PROVE  Inv'
<1>. DEFINE call == [kind |-> "exchange", s |-> s, n |-> n, row |-> rows[s]]
<1>1. /\ back[b] = Idle /\ <<s, n>> \in open /\ open' = open \ {<<s, n>>}
      /\ back' = [back EXCEPT ![b] = call]
      /\ UNCHANGED <<apps, rows, issued, pin, spent, remote, token, down, req, wk, faults, fresh,
                     torn>>
  BY DEF SpendLink, world, ends
<1>2. call \in Calls /\ back \in [Callbacks -> Calls] /\ back' \in [Callbacks -> Calls]
  BY <1>1 DEF Inv, Typed, TypeOK, Calls
<1>3. Typed'
  BY <1>1, <1>2 DEF Inv, Typed, TypeOK, Checks, Own, Calls
<1>4. InOneHand'
  BY <1>1, <1>2 DEF Inv, InOneHand, Typed, Calls, Idle
<1>5. Begun'
  BY <1>1, <1>2 DEF Inv, Begun, Whole
<1>6. Withdrawn'
  BY <1>1, <1>2 DEF Inv, Withdrawn, Deleted
<1>. QED
  BY <1>1, <1>3, <1>4, <1>5, <1>6, CurrentStutter, NewestStutter, BehindStutter DEF Inv

\* A callback of zernio locks its grant, of an account that answers.
LEMMA LockGrantKeeps ==
  ASSUME Inv, NEW b \in Callbacks, NEW s \in apps, NEW n \in 1..MaxLinks, NEW a \in DOMAIN remote,
         LockGrant(b, s, n, a)
  PROVE  Inv'
<1>. USE ConnectionAssumption DEF ConnectionAssumption
<1>. DEFINE call == [kind |-> "grant", s |-> s, n |-> n, a |-> a]
<1>1. /\ back[b] = Idle /\ Backend[s] = "zernio" /\ <<s, n>> \in open /\ ~Locked(s, n)
         /\ a \in Own(s)
      /\ remote[a] = "live" /\ back' = [back EXCEPT ![b] = call]
      /\ UNCHANGED <<apps, rows, open, issued, pin, spent, remote, token, down, req, wk, faults,
                     fresh, torn>>
  BY DEF LockGrant, Verify, links, world, ends
<1>2. call \in Calls /\ back \in [Callbacks -> Calls] /\ back' \in [Callbacks -> Calls]
  BY <1>1 DEF Inv, Typed, TypeOK, Calls
<1>3. Typed'
  BY <1>1, <1>2 DEF Inv, Typed, TypeOK, Checks, Own, Calls
<1>4. InOneHand'
  <2>1. back'[b] = call /\ \A d \in Callbacks : d # b => back'[d] = back[d]
    BY <1>1, <1>2
  <2>2. ASSUME NEW d \in Callbacks, d # b, back[d].kind # "idle"
        PROVE  back[d].s # s \/ back[d].n # n
    <3>1. CASE back[d].kind = "exchange"
      BY <1>1, <2>2, <3>1 DEF Inv, InOneHand
    <3>2. CASE back[d].kind = "grant"
      BY <1>1, <3>2 DEF Locked
    <3>. QED
      BY <2>2, <3>1, <3>2 DEF Inv, Typed, Calls, Idle
  <2>3. \A d \in Callbacks : back'[d].kind # "idle" =>
           /\ spent[<<back'[d].s, back'[d].n>>] = 0 /\ back'[d].n <= issued[back'[d].s]
           /\ back'[d].kind = "exchange" => <<back'[d].s, back'[d].n>> \notin open
    BY <1>1, <2>1 DEF Inv, InOneHand
  <2>4. \A c, d \in Callbacks :
           /\ c # d /\ back'[c].kind # "idle" /\ back'[d].kind # "idle"
           => back'[c].s # back'[d].s \/ back'[c].n # back'[d].n
    BY <2>1, <2>2 DEF Inv, InOneHand
  <2>. QED
    BY <1>1, <2>3, <2>4 DEF Inv, InOneHand
<1>5. Begun'
  BY <1>1, <1>2 DEF Inv, Begun, Whole
<1>6. Withdrawn'
  BY <1>1, <1>2 DEF Inv, Withdrawn, Deleted
<1>. QED
  BY <1>1, <1>3, <1>4, <1>5, <1>6, CurrentStutter, NewestStutter, BehindStutter DEF Inv

\* A link is given up.
LEMMA DenyGrantKeeps ==
  ASSUME Inv, NEW s \in apps, NEW n \in 1..MaxLinks, DenyGrant(s, n)
  PROVE  Inv'
<1>1. /\ open' = open \ {<<s, n>>}
      /\ UNCHANGED <<apps, rows, issued, pin, spent, remote, token, down, req, wk, back, faults,
                     fresh, torn>>
  BY DEF DenyGrant, world, ends
<1>2. Typed'
  BY <1>1 DEF Inv, Typed, TypeOK, Calls, Checks, Row, Own
<1>3. InOneHand'
  BY <1>1 DEF Inv, InOneHand
<1>4. Begun'
  BY <1>1 DEF Inv, Begun, Whole
<1>. QED
  BY <1>1, <1>2, <1>3, <1>4, CurrentStutter, NewestStutter, WithdrawnStutter, BehindStutter DEF Inv
-------------------------------------------------------------------------------
\* Requests and preflights that load their rows

\* A request that loads one row and asks the service about an account.
LEMMA LoadKeeps ==
  ASSUME Inv, NEW kind \in {"activate", "sync", "test"}, NEW s \in apps,
         NEW a \in Accounts \cup {NoAccount}, NEW verdict \in Verdicts,
         req = Idle, Load(kind, s, a, verdict),
         kind = "activate" => Backend[s] = "pipedream" /\ a \in Own(s) /\ remote[a] # "deleted",
         kind = "sync" => Backend[s] = "nango" /\ a \in Own(s) /\ remote[a] # "deleted",
         kind = "test" => Backend[s] \notin {"native", "meta", "mcp"},
         kind = "test" /\ verdict = "ok" /\ Backend[s] = "nango" => rows[s].ref,
         kind = "test" /\ Backend[s] = "plugin" => rows[s].par \in Family(s),
         kind = "test" /\ verdict = "ok" => ~Deleted(rows[s]),
         kind = "test" /\ verdict = "ok" /\ Backend[s] = "plugin" =>
           rows[rows[s].par].st # "revoked",
         UNCHANGED <<apps, rows, world, links, wk, back, ends>>
  PROVE  Inv'
<1>1. UNCHANGED <<apps, rows, remote, token, down, open, issued, pin, spent, wk, back, faults,
                  fresh, torn>>
  BY DEF world, links, ends
<1>2. /\ req'.kind = kind /\ req'.s = s /\ req'.a = a /\ req'.verdict = verdict
      /\ req'.rows[s] = rows[s] /\ rows[s] \in Row
  BY DEF Load, Inv, Typed, TypeOK
<1>3. Typed'
  BY <1>1, <1>2 DEF Inv, Typed, TypeOK, Calls, Checks, Own, Single
<1>4. Current'
  BY <1>1, <1>2 DEF Inv, Current, Own, Family, SameAccount, Single
<1>5. Newest'
  BY <1>1, <1>2 DEF Inv, Newest, TestRenewed, CheckRenewed, Idle
<1>6. Begun'
  BY <1>1, <1>2 DEF Inv, Begun, Whole
<1>7. Withdrawn'
  BY <1>1, <1>2 DEF Inv, Withdrawn, Deleted, Idle
<1>8. Behind'
  BY <1>1, <1>2 DEF Inv, Behind, Family
<1>. QED
  BY <1>1, <1>3, <1>4, <1>5, <1>6, <1>7, <1>8, InOneHandStutter DEF Inv

LEMMA AskCompleteKeeps ==
  ASSUME Inv, NEW s \in apps, NEW a \in DOMAIN remote, AskComplete(s, a) PROVE Inv'
<1>1. a \in Accounts
  BY ConnectionAssumption DEF ConnectionAssumption, Inv, Typed, TypeOK
<1>2. remote[a] # "deleted"
  BY DEF AskComplete, Verify
<1>. QED
  BY <1>1, <1>2, LoadKeeps DEF AskComplete, Verdicts

LEMMA AskReuseKeeps == ASSUME Inv, NEW s \in apps, AskReuse(s) PROVE Inv'
<1>1. PICK r \in Reusable(s) : Load("activate", s, rows[r].acct, "ok")
  BY DEF AskReuse
<1>2. r \in apps /\ Vendor[r] = Vendor[s] /\ rows[r].acct # NoAccount
      /\ remote[rows[r].acct] = "live"
  BY <1>1 DEF Reusable, Family, Verdict, Verify
<1>3. rows[r].acct \in Own(s) /\ rows[r].acct \in Accounts \cup {NoAccount}
  BY <1>2 DEF Inv, Current, Own, Typed, TypeOK, Row
<1>. QED
  BY <1>1, <1>2, <1>3, LoadKeeps DEF AskReuse, Verdicts

LEMMA AskSyncKeeps ==
  ASSUME Inv, NEW s \in apps, NEW a \in DOMAIN remote, AskSync(s, a) PROVE Inv'
<1>1. a \in Accounts
  BY ConnectionAssumption DEF ConnectionAssumption, Inv, Typed, TypeOK
<1>2. PICK v \in {Verify(a), "retry"} : Load("sync", s, a, v)
  BY DEF AskSync
<1>3. v \in Verdicts
  BY DEF Verify, Verdicts
<1>4. remote[a] # "deleted" /\ UNCHANGED <<apps, rows, world, links, wk, back, ends>>
  BY DEF AskSync
<1>. QED
  BY <1>1, <1>2, <1>3, <1>4, LoadKeeps DEF AskSync

\* What a plugin answers with comes from a route of its app that is verified.
LEMMA PluginAnswer ==
  ASSUME Inv, NEW s \in apps, PluginVerdict(s) = "ok"
  PROVE  \E p \in Family(s) : rows[p].st = "verified" /\ rows[s].par \in {NoSlug, p}
BY DEF PluginVerdict, Parents

LEMMA AskTestKeeps == ASSUME Inv, NEW s \in apps, AskTest(s) PROVE Inv'
<1>. DEFINE v == CASE Backend[s] = "plugin"  -> PluginVerdict(s)
                  [] Backend[s] = "shopify" -> AgentVerdict(s)
                  [] OTHER -> Verdict(s)
<1>1. /\ req = Idle /\ rows[s].st # "none" /\ Backend[s] \notin {"native", "meta", "mcp"}
      /\ Load("test", s, rows[s].acct, v)
      /\ UNCHANGED <<apps, rows, world, links, wk, back, ends>>
  BY DEF AskTest
<1>2. v \in Verdicts
  BY DEF PluginVerdict, AgentVerdict, Verdict, Verify, Verdicts
<1>3. rows[s].acct \in Accounts \cup {NoAccount}
  BY DEF Inv, Typed, TypeOK, Row
<1>4. v = "ok" => ~Deleted(rows[s])
  <2>1. CASE Backend[s] \in {"plugin", "shopify"}
    BY <2>1 DEF Inv, Current, Brokers, Deleted
  <2>2. CASE Backend[s] \notin {"plugin", "shopify"}
    BY <2>2 DEF Verdict, Verify, Deleted
  <2>. QED
    BY <2>1, <2>2
<1>5. Backend[s] = "plugin" => rows[s].par \in Family(s)
  BY <1>1 DEF Inv, Current
<1>6. v = "ok" /\ Backend[s] = "nango" => rows[s].ref
  BY DEF Verdict, Inv, Current
<1>7. v = "ok" /\ Backend[s] = "plugin" => rows[rows[s].par].st # "revoked"
  <2>. SUFFICES ASSUME v = "ok", Backend[s] = "plugin"
                PROVE  rows[rows[s].par].st # "revoked"
    OBVIOUS
  <2>1. rows[s].par \in Family(s)
    BY <1>5
  <2>2. rows[s].par # NoSlug
    BY <2>1, ConnectionAssumption DEF ConnectionAssumption, Family, Inv, Typed, TypeOK
  <2>. QED
    BY <2>1, <2>2, PluginAnswer
<1>. HIDE DEF v
<1>. QED
  BY <1>1, <1>2, <1>3, <1>4, <1>5, <1>6, <1>7, LoadKeeps

\* A renewal succeeds only with the newest grant, and makes a newer one.
LEMMA RenewedGrant ==
  ASSUME Inv, NEW s \in apps, NEW expired
  PROVE  \/ Renewed(s, expired) \in {0, rows[s].cred}
         \/ /\ Renewed(s, expired) = token[s] + 1 /\ rows[s].cred = token[s]
            /\ Backend[s] # "meta" /\ rows[s].cred # 0
BY DEF Renewed

LEMMA AskNativeTestKeeps == ASSUME Inv, NEW s \in apps, AskNativeTest(s) PROVE Inv'
<1>. USE ConnectionAssumption DEF ConnectionAssumption
<1>1. PICK expired \in BOOLEAN :
        LET g == Renewed(s, expired) IN
        /\ g <= MaxTokens /\ token' = [token EXCEPT ![s] = IF g > rows[s].cred THEN g ELSE @]
        /\ torn' = torn \cup IF g > rows[s].cred /\ wk # Idle THEN {s} ELSE {}
        /\ \E v \in NativeVerdicts(s, g) :
             req' = [kind |-> "native", s |-> s, a |-> NoAccount, verdict |-> v,
                     rows |-> [r \in {s} |-> rows[r]], cred |-> IF g = 0 THEN rows[s].cred ELSE g]
  BY DEF AskNativeTest
<1>. DEFINE g == Renewed(s, expired)
<1>2. /\ g \in {0, rows[s].cred} \/ (g = token[s] + 1 /\ rows[s].cred = token[s])
      /\ g \in {0, rows[s].cred} \/ (Backend[s] # "meta" /\ rows[s].cred # 0)
  BY <1>1, RenewedGrant
<1>3. rows[s] \in Row /\ rows[s].cred \in 0..MaxTokens /\ token[s] \in 0..MaxTokens
  BY DEF Inv, Typed, TypeOK, Row
<1>4. PICK v \in NativeVerdicts(s, g) :
        req' = [kind |-> "native", s |-> s, a |-> NoAccount, verdict |-> v,
                rows |-> [r \in {s} |-> rows[r]], cred |-> IF g = 0 THEN rows[s].cred ELSE g]
  BY <1>1
<1>5. v \in Verdicts
  BY DEF NativeVerdicts, Verdicts
<1>6. /\ g <= MaxTokens /\ token' = [token EXCEPT ![s] = IF g > rows[s].cred THEN g ELSE @]
      /\ torn' = torn \cup IF g > rows[s].cred /\ wk # Idle THEN {s} ELSE {}
  BY <1>1
<1>. HIDE DEF g
<1>7. PICK c : c = IF g = 0 THEN rows[s].cred ELSE g
  OBVIOUS
<1>8. /\ req'.kind = "native" /\ req'.s = s /\ req'.verdict = v /\ req'.cred = c
      /\ req'.rows[s] = rows[s]
  BY <1>4, <1>7
<1>9. /\ req = Idle /\ Backend[s] \in {"native", "meta"}
      /\ UNCHANGED <<apps, rows, remote, open, issued, pin, spent, wk, back, down, faults, fresh>>
  BY DEF AskNativeTest, links
<1>10. \/ c = rows[s].cred /\ token' = token /\ torn' = torn
       \/ /\ c = token[s] + 1 /\ token' = [token EXCEPT ![s] = c] /\ rows[s].cred = token[s]
          /\ Backend[s] # "meta" /\ c <= MaxTokens
             /\ torn' = torn \cup IF wk # Idle THEN {s} ELSE {}
  <2>1. CASE g \in {0, rows[s].cred}
    BY <1>3, <1>6, <1>7, <2>1 DEF Inv, Typed, TypeOK
  <2>2. CASE g = token[s] + 1 /\ rows[s].cred = token[s] /\ Backend[s] # "meta" /\ rows[s].cred # 0
    <3>1. g # 0 /\ g > rows[s].cred
      BY <1>3, <2>2
    <3>. QED
      BY <1>6, <1>7, <2>2, <3>1
  <2>. QED
    BY <1>2, <2>1, <2>2
<1>11. c \in 0..MaxTokens
  BY <1>3, <1>10
<1>12. /\ token' \in [apps -> 0..MaxTokens] /\ \A r \in apps : token[r] <= token'[r]
       /\ c <= token'[s] \/ Backend[s] = "meta"
  <2>1. CASE c = rows[s].cred /\ token' = token
    BY <1>9, <2>1 DEF Inv, Typed, TypeOK
  <2>2. CASE /\ c = token[s] + 1 /\ token' = [token EXCEPT ![s] = c]
    <3>1. token \in [apps -> 0..MaxTokens]
      BY DEF Inv, Typed, TypeOK
    <3>. QED
      BY <1>3, <1>11, <2>2, <3>1
  <2>. QED
    BY <1>10, <2>1, <2>2
<1>13. Typed'
  <2>1. TypeOK'
    BY <1>3, <1>9, <1>12 DEF Inv, Typed, TypeOK, Row
  <2>2. wk.kind = "preflight" /\ Backend[wk.s] = "native" => wk.cred <= token'[wk.s]
    <3>. SUFFICES ASSUME wk.kind = "preflight", Backend[wk.s] = "native"
                  PROVE  wk.cred <= token'[wk.s]
      OBVIOUS
    <3>1. wk \in Checks /\ wk.cred <= token[wk.s]
      BY DEF Inv, Typed, Idle
    <3>2. wk.s \in apps /\ wk.cred \in Nat /\ token[wk.s] \in Nat /\ token'[wk.s] \in Nat
      BY <1>12, <3>1 DEF Checks, Inv, Typed, TypeOK
    <3>. QED
      BY <1>12, <3>1, <3>2
  <2>. QED
    BY <1>3, <1>5, <1>8, <1>9, <1>11, <1>12, <2>1, <2>2 DEF Inv, Typed, Calls, Checks, Own, Single
<1>14. Current'
  BY <1>8, <1>9 DEF Inv, Current, Own, Family, SameAccount, Single
<1>15. Newest'
  <2>. SUFFICES ASSUME NEW r \in apps, r \notin torn', Backend[r] = "native"
                PROVE  /\ TestRenewed(r)' => req'.cred = token'[r]
                       /\ CheckRenewed(r)' => wk'.cred = token'[r]
                       /\ rows'[r].cred \in {0, token'[r]} \/ TestRenewed(r)' \/ CheckRenewed(r)'
    BY <1>9 DEF Newest
  <2>1. /\ CheckRenewed(r) => wk.cred = token[r]
        /\ rows[r].cred \in {0, token[r]} \/ CheckRenewed(r)
    BY <1>9, <1>10 DEF Inv, Newest, TestRenewed, Idle
  <2>2. CheckRenewed(r)' <=> CheckRenewed(r)
    BY <1>9 DEF CheckRenewed
  <2>3. TestRenewed(r)' <=> r = s /\ c # rows[s].cred
    BY <1>8 DEF TestRenewed
  <2>4. CASE r # s
    BY <1>9, <1>10, <2>1, <2>2, <2>3, <2>4 DEF Inv, Typed, TypeOK
  <2>5. CASE r = s /\ c = rows[s].cred /\ token' = token
    BY <1>9, <2>1, <2>2, <2>3, <2>5
  <2>6. CASE /\ r = s /\ c = token[s] + 1 /\ token' = [token EXCEPT ![s] = c]
                /\ rows[s].cred = token[s]
             /\ torn' = torn \cup IF wk # Idle THEN {s} ELSE {}
    <3>1. wk = Idle /\ ~CheckRenewed(r) /\ token'[r] = c
      BY <2>6 DEF Inv, Typed, TypeOK, CheckRenewed, Idle
    <3>. QED
      BY <1>3, <1>8, <2>2, <2>3, <2>6, <3>1
  <2>. QED
    BY <1>10, <2>4, <2>5, <2>6
<1>16. Begun'
  BY <1>8, <1>9 DEF Inv, Begun, Whole
<1>17. Withdrawn'
  BY <1>8, <1>9, <1>10 DEF Inv, Withdrawn, Deleted, Idle
<1>18. Behind'
  BY <1>8, <1>9 DEF Inv, Behind, Family
<1>. QED
  BY <1>9, <1>13, <1>14, <1>15, <1>16, <1>17, <1>18, InOneHandStutter DEF Inv

\* Rows that share an account are routes of one app.
LEMMA SharedAccount ==
  ASSUME Inv, NEW s \in apps, NEW r \in apps, rows[s].acct # NoAccount,
         rows[r].acct = rows[s].acct
  PROVE  r \in Shared(s)
<1>. USE ConnectionAssumption DEF ConnectionAssumption
<1>1. s \in Slugs /\ r \in Slugs
  BY DEF Inv, Typed, TypeOK
<1>2. Vendor[s] = Vendor[r] /\ Backend[s] \in Brokers /\ Backend[r] \in Brokers
  BY DEF Inv, Current, Own
<1>3. CASE r = s
  BY <1>3 DEF Shared, Family
<1>4. CASE r # s
  <2>1. Backend[s] = "pipedream" /\ Backend[r] = "pipedream"
    BY <1>1, <1>2, <1>4 DEF Brokers
  <2>. QED
    BY <1>2, <2>1 DEF Shared, Family
<1>. QED
  BY <1>3, <1>4

\* What a disconnection takes down: its row, the routes of its account, and the
\* plugins behind these.
LEMMA SharedRows ==
  ASSUME Inv, NEW s \in apps
  PROVE  /\ s \in Shared(s) /\ Shared(s) \subseteq apps
         /\ \A r \in Shared(s) : Backend[r] = "zernio" => r = s
         /\ \A w \in apps : Backend[w] = "plugin" /\ rows[w].par \in Shared(s)
                            /\ Backend[rows[w].par] = "pipedream" => w \in Shared(s)
         /\ rows[s].st # "none" => \A w \in Shared(s) : Backend[w] = "plugin" =>
              rows[w].par \in Family(w)
<1>. USE ConnectionAssumption DEF ConnectionAssumption
<1>1. \A w \in apps : w # NoSlug /\ (Backend[w] = "plugin" /\ rows[w].par # NoSlug
                                   => rows[w].par \in Family(w))
  BY DEF Inv, Typed, TypeOK, Current
<1>2. rows[s].st # "none" /\ Backend[s] = "plugin" => rows[s].par \in Family(s)
  BY DEF Inv, Current
<1>. QED
  BY <1>1, <1>2 DEF Shared, Family

LEMMA AskDisconnectKeeps == ASSUME Inv, NEW s \in apps, AskDisconnect(s) PROVE Inv'
<1>. DEFINE a == rows[s].acct
            done == /\ Backend[s] \in {"pipedream", "nango", "zernio"} /\ ~down /\ a # NoAccount
                    /\ remote[a] \in {"live", "expired"}
            all == Shared(s)
            held == [r \in all |-> rows[r]]
<1>1. /\ req = Idle /\ rows[s].st # "none" /\ (Backend[s] = "zernio" => done)
      /\ remote' = IF done THEN [remote EXCEPT ![a] = "deleted"] ELSE remote
      /\ req' = [kind |-> "disconnect", s |-> s, a |-> a, all |-> all, rows |-> held,
                 verdict |-> IF done THEN "ok" ELSE "refused"]
      /\ UNCHANGED <<apps, rows, token, open, issued, pin, spent, wk, back, down, faults, fresh,
                     torn>>
  BY DEF AskDisconnect, links, ends
<1>2. /\ s \in all /\ all \subseteq apps /\ (\A r \in all : Backend[r] = "zernio" => r = s)
      /\ \A w \in apps : Backend[w] = "plugin" /\ rows[w].par \in all
                         /\ Backend[rows[w].par] = "pipedream" => w \in all
      /\ \A r \in all : held[r] = rows[r] /\ (Backend[r] = "plugin" => rows[r].par \in Family(r))
  BY <1>1, SharedRows
<1>3. /\ req'.kind = "disconnect" /\ req'.s = s /\ req'.all = all /\ req'.rows = held
      /\ Backend[s] = "zernio" => req'.verdict = "ok" /\ a # NoAccount
  BY <1>1
<1>4. DOMAIN remote' = DOMAIN remote
  BY <1>1
<1>5. \A r \in apps : ~Deleted(rows[r]) /\ Deleted(rows[r])' => r \in all
  <2>. SUFFICES ASSUME NEW r \in apps, ~Deleted(rows[r]), Deleted(rows[r])'
                PROVE  r \in all
    OBVIOUS
  <2>1. done /\ rows[r].acct = a
    BY <1>1 DEF Deleted, Inv, Current
  <2>. QED
    BY <2>1, SharedAccount
<1>6. \A b \in Callbacks : back[b].kind = "grant" /\ remote[back[b].a] # "deleted"
                           /\ remote'[back[b].a] = "deleted" => back[b].s = s
  <2>. SUFFICES ASSUME NEW b \in Callbacks, back[b].kind = "grant", remote[back[b].a] # "deleted",
                       remote'[back[b].a] = "deleted"
                PROVE  back[b].s = s
    OBVIOUS
  <2>1. /\ back[b].s \in apps /\ Backend[back[b].s] = "zernio" /\ back[b].a \in DOMAIN remote
        /\ At[back[b].a] = Vendor[back[b].s]
    BY DEF Inv, Typed, Calls, Idle, Own
  <2>2. a = back[b].a /\ a # NoAccount
    BY <1>1, <2>1
  <2>3. At[a] = Vendor[s]
    BY <2>2 DEF Inv, Current, Own
  <2>4. s \in Slugs /\ back[b].s \in Slugs
    BY <2>1, ConnectionAssumption DEF ConnectionAssumption, Inv, Typed, TypeOK
  <2>5. Vendor[back[b].s] = Vendor[s]
    BY <2>1, <2>2, <2>3
  <2>6. {Backend[s], Backend[back[b].s]} \subseteq {"pipedream", "plugin"} \/ back[b].s = s
    BY <2>4, <2>5, ConnectionAssumption DEF ConnectionAssumption
  <2>. QED
    BY <2>1, <2>6
<1>. HIDE DEF done, all, held
<1>7. Typed'
  <2>1. TypeOK'
    BY <1>1, <1>4 DEF Inv, Typed, TypeOK, Row
  <2>2. \A r \in all : /\ held[r] \in Row
                       /\ Backend[r] = "zernio" => held[r].acct # NoAccount /\ held[r].ref
    BY <1>2, <1>3 DEF Inv, Typed, TypeOK, Current
  <2>. QED
    BY <1>1, <1>2, <1>3, <1>4, <2>1, <2>2 DEF Inv, Typed, Calls, Checks, Own, Single
<1>8. Current'
  BY <1>1, <1>2, <1>3, <1>4 DEF Inv, Current, Own, Family, SameAccount, Single
<1>9. Newest'
  BY <1>1, <1>3 DEF Inv, Newest, TestRenewed, CheckRenewed, Idle
<1>10. Begun'
  BY <1>1, <1>2, <1>3 DEF Inv, Begun, Whole
<1>11. Withdrawn'
  <2>1. \A r \in apps \ torn : Deleted(rows[r])' /\ rows[r].on => r \in all /\ held[r].on
    <3>. SUFFICES ASSUME NEW r \in apps \ torn, Deleted(rows[r])', rows[r].on
                  PROVE  r \in all /\ held[r].on
      OBVIOUS
    <3>1. ~Deleted(rows[r])
      BY <1>1 DEF Inv, Withdrawn, Idle
    <3>. QED
      BY <1>2, <1>5, <3>1
  <2>2. \A b \in Callbacks : back[b].kind = "grant" /\ back[b].s \notin torn
                             /\ remote'[back[b].a] = "deleted" => back[b].s = s
    BY <1>1, <1>6 DEF Inv, Withdrawn, Idle
  <2>. QED
    BY <1>1, <1>3, <2>1, <2>2 DEF Withdrawn
<1>12. Behind'
  BY <1>1, <1>2, <1>3 DEF Inv, Behind, Family
<1>. QED
  BY <1>1, <1>7, <1>8, <1>9, <1>10, <1>11, <1>12, InOneHandStutter DEF Inv

\* A preflight that loads its row and asks the service.
LEMMA PreflightKeeps == ASSUME Inv, NEW s \in apps, Preflight(s) PROVE Inv'
<1>1. PICK v : wk' = [kind |-> "preflight", s |-> s, row |-> rows[s], verdict |-> v,
                      cred |-> rows[s].cred] /\ v \in Verdicts
  BY DEF Preflight, PluginVerdict, Verdict, Verify, Verdicts
<1>2. /\ rows[s].on /\ rows[s].st = "verified" /\ Backend[s] \notin {"native", "mcp", "shopify"}
      /\ UNCHANGED <<apps, rows, remote, token, down, open, issued, pin, spent, req, back, faults,
                     fresh, torn>>
  BY DEF Preflight, world, links, ends
<1>3. wk' \in Checks
  BY <1>1 DEF Checks, Inv, Typed, TypeOK, Row
<1>4. Typed'
  BY <1>1, <1>2, <1>3 DEF Inv, Typed, TypeOK, Calls, Checks, Own
<1>5. Newest'
  BY <1>1, <1>2 DEF Inv, Newest, TestRenewed, CheckRenewed, Preflight, Idle
<1>. QED
  BY <1>2, <1>4, <1>5, CurrentStutter, InOneHandStutter, BegunStutter, WithdrawnStutter,
     BehindStutter DEF Inv

LEMMA PreflightNativeKeeps == ASSUME Inv, NEW s \in apps, PreflightNative(s) PROVE Inv'
<1>. USE ConnectionAssumption DEF ConnectionAssumption
<1>1. PICK expired \in BOOLEAN :
        LET g == Renewed(s, expired) IN
        /\ g <= MaxTokens /\ g # 0
        /\ token' = [token EXCEPT ![s] = IF g > rows[s].cred THEN g ELSE @]
        /\ torn' = torn \cup IF g > rows[s].cred /\ req # Idle THEN {s} ELSE {}
        /\ \E v \in NativeVerdicts(s, g) :
             wk' = [kind |-> "preflight", s |-> s, row |-> rows[s], verdict |-> v, cred |-> g]
  BY DEF PreflightNative
<1>. DEFINE g == Renewed(s, expired)
<1>2. PICK v \in NativeVerdicts(s, g) :
        wk' = [kind |-> "preflight", s |-> s, row |-> rows[s], verdict |-> v, cred |-> g]
  BY <1>1
<1>3. v \in Verdicts
  BY DEF NativeVerdicts, Verdicts
<1>4. rows[s] \in Row /\ rows[s].cred \in 0..MaxTokens /\ token[s] \in 0..MaxTokens
  BY DEF Inv, Typed, TypeOK, Row
<1>5. \/ g = rows[s].cred
      \/ g = token[s] + 1 /\ rows[s].cred = token[s] /\ Backend[s] # "meta"
  BY <1>1, RenewedGrant
<1>6. /\ g <= MaxTokens /\ token' = [token EXCEPT ![s] = IF g > rows[s].cred THEN g ELSE @]
      /\ torn' = torn \cup IF g > rows[s].cred /\ req # Idle THEN {s} ELSE {}
  BY <1>1
<1>. HIDE DEF g
<1>7. /\ wk = Idle /\ rows[s].on /\ rows[s].st = "verified" /\ Backend[s] \in {"native", "meta"}
      /\ UNCHANGED <<apps, rows, remote, open, issued, pin, spent, req, back, down, faults, fresh>>
  BY DEF PreflightNative, links
<1>8. \/ g = rows[s].cred /\ token' = token /\ torn' = torn
      \/ /\ g = token[s] + 1 /\ token' = [token EXCEPT ![s] = g] /\ rows[s].cred = token[s]
         /\ torn' = torn \cup IF req # Idle THEN {s} ELSE {}
  <2>1. CASE g = rows[s].cred
    <3>0. ~(g > rows[s].cred)
      BY <1>4, <2>1
    <3>1. token' = [token EXCEPT ![s] = token[s]] /\ torn' = torn
      BY <1>6, <3>0
    <3>. QED
      BY <2>1, <3>1 DEF Inv, Typed, TypeOK
  <2>2. CASE g = token[s] + 1 /\ rows[s].cred = token[s]
    <3>1. g > rows[s].cred
      BY <1>4, <2>2
    <3>. QED
      BY <1>6, <2>2, <3>1
  <2>. QED
    BY <1>5, <2>1, <2>2
<1>9. g \in 0..MaxTokens
  BY <1>4, <1>6, <1>8
<1>10. /\ token' \in [apps -> 0..MaxTokens] /\ \A r \in apps : token[r] <= token'[r]
       /\ g <= token'[s] \/ Backend[s] = "meta"
  <2>1. CASE g = rows[s].cred /\ token' = token
    BY <1>7, <2>1 DEF Inv, Typed, TypeOK
  <2>2. CASE /\ g = token[s] + 1 /\ token' = [token EXCEPT ![s] = g]
    <3>1. token \in [apps -> 0..MaxTokens]
      BY DEF Inv, Typed, TypeOK
    <3>. QED
      BY <1>4, <1>9, <2>2, <3>1
  <2>. QED
    BY <1>8, <2>1, <2>2
<1>11. /\ wk'.kind = "preflight" /\ wk'.s = s /\ wk'.row = rows[s] /\ wk'.cred = g
       /\ wk' \in Checks /\ wk' \in Checks'
  BY <1>2, <1>3, <1>4, <1>7, <1>9 DEF Checks, Row
<1>12. Typed'
  <2>1. TypeOK'
    BY <1>4, <1>7, <1>10 DEF Inv, Typed, TypeOK, Row
  <2>2. req.kind = "native" /\ Backend[req.s] = "native" => req.cred <= token'[req.s]
    <3>. SUFFICES ASSUME req.kind = "native", Backend[req.s] = "native"
                  PROVE  req.cred <= token'[req.s]
      OBVIOUS
    <3>1. req.s \in apps /\ req.cred \in Nat /\ req.cred <= token[req.s]
      BY DEF Inv, Typed, Single
    <3>2. token[req.s] \in Nat /\ token'[req.s] \in Nat
      BY <1>10, <3>1 DEF Inv, Typed, TypeOK
    <3>. QED
      BY <1>10, <3>1, <3>2
  <2>. QED
    BY <1>7, <1>10, <1>11, <2>1, <2>2 DEF Inv, Typed, Calls, Own, Single
<1>13. Newest'
  <2>. SUFFICES ASSUME NEW r \in apps, r \notin torn', Backend[r] = "native"
                PROVE  /\ TestRenewed(r)' => req'.cred = token'[r]
                       /\ CheckRenewed(r)' => wk'.cred = token'[r]
                       /\ rows'[r].cred \in {0, token'[r]} \/ TestRenewed(r)' \/ CheckRenewed(r)'
    BY <1>7 DEF Newest
  <2>1. /\ TestRenewed(r) => req.cred = token[r]
        /\ rows[r].cred \in {0, token[r]} \/ TestRenewed(r)
    BY <1>7, <1>8 DEF Inv, Newest, CheckRenewed, Idle
  <2>2. TestRenewed(r)' <=> TestRenewed(r)
    BY <1>7 DEF TestRenewed
  <2>3. CheckRenewed(r)' <=> r = s /\ g # rows[s].cred
    BY <1>11 DEF CheckRenewed
  <2>4. CASE r # s
    BY <1>7, <1>8, <2>1, <2>2, <2>3, <2>4 DEF Inv, Typed, TypeOK
  <2>5. CASE r = s /\ g = rows[s].cred /\ token' = token
    BY <1>7, <2>1, <2>2, <2>3, <2>5
  <2>6. CASE /\ r = s /\ g = token[s] + 1 /\ token' = [token EXCEPT ![s] = g]
                /\ rows[s].cred = token[s]
             /\ torn' = torn \cup IF req # Idle THEN {s} ELSE {}
    <3>1. req = Idle /\ ~TestRenewed(r) /\ token'[r] = g
      BY <2>6 DEF Inv, Typed, TypeOK, TestRenewed, Idle
    <3>. QED
      BY <1>4, <1>11, <2>2, <2>3, <2>6, <3>1
  <2>. QED
    BY <1>8, <2>4, <2>5, <2>6
<1>14. Withdrawn'
  BY <1>7, <1>8 DEF Inv, Withdrawn, Deleted
<1>. QED
  BY <1>7, <1>12, <1>13, <1>14, CurrentStutter, InOneHandStutter, BegunStutter, BehindStutter
  DEF Inv
-------------------------------------------------------------------------------
\* Steps that store one row

\* Row s is stored, and what its request, preflight or callback held is given up.
Stored(s) ==
  /\ rows' \in [apps -> Row] /\ \A r \in apps : r # s => rows'[r] = rows[r]
  /\ UNCHANGED <<apps, remote, token, issued, torn>> /\ fresh \subseteq fresh'
  /\ open' \subseteq open /\ spent' \in [apps \X (1..MaxLinks) -> Nat]
  /\ back' \in [Callbacks -> Calls] /\ \A b \in Callbacks : back'[b] \in {back[b], Idle}
  /\ wk' = wk \/ (wk' = Idle /\ wk.s = s)
  /\ req' = req \/ (req' = Idle /\ req.s = s /\ req.kind \in Single)

\* The account stays, and a plugin is behind a route.
AccountKept(s) ==
  /\ SameAccount(rows'[s], rows[s])
  /\ Backend[s] = "plugin" /\ (rows'[s].on \/ rows'[s].st # "none")
     => rows[s].on \/ rows[s].st # "none" \/ rows[s].par \in Family(s)

\* The grant stays, or a session that has renewed it stores it.
GrantStored(s) ==
  \/ /\ rows'[s].cred = rows[s].cred
     /\ wk' = wk \/ ~CheckRenewed(s)
     /\ req' = req \/ ~TestRenewed(s)
  \/ CheckRenewed(s) /\ rows'[s].cred = wk.cred /\ req' = req
  \/ TestRenewed(s) /\ rows'[s].cred = req.cred /\ wk' = wk

LEMMA StoredTypes ==
  ASSUME Inv, NEW s \in apps, Stored(s), rows'[s].ref => rows'[s].acct # NoAccount,
         Backend[s] = "native" => rows'[s].cred <= token[s]
  PROVE  Typed'
<1>1. TypeOK'
  BY DEF Stored, Inv, Typed, TypeOK, Links
<1>2. Calls' = Calls /\ Checks' = Checks
  BY DEF Stored, Calls, Checks
<1>3. \A b \in Callbacks :
        /\ back'[b].kind = "exchange" => Backend[back'[b].s] \in {"mcp", "meta"}
        /\ back'[b].kind = "grant" => Backend[back'[b].s] = "zernio"
           /\ back'[b].a \in Own(back'[b].s)
  BY DEF Stored, Inv, Typed, Idle, Own
<1>4. wk' = wk \/ wk' = Idle
  BY DEF Stored
<1>5. CASE req' = req
  BY <1>1, <1>2, <1>3, <1>4, <1>5 DEF Stored, Inv, Typed, Idle, Own
<1>6. CASE req' = Idle
  BY <1>1, <1>2, <1>3, <1>4, <1>6 DEF Stored, Inv, Typed, Idle, Single, Own
<1>. QED
  BY <1>5, <1>6 DEF Stored

LEMMA StoredAccount == ASSUME Inv, NEW s \in apps, Stored(s), AccountKept(s) PROVE Current'
<1>1. \A r \in apps : SameAccount(rows'[r], rows[r])
  BY DEF Stored, AccountKept, SameAccount
<1>2. \A r \in apps :
        /\ rows'[r].acct # NoAccount => Backend[r] \in Brokers /\ rows'[r].acct \in Own(r)
        /\ Backend[r] \in {"nango", "zernio"} /\ rows'[r].acct # NoAccount => rows'[r].ref
        /\ Backend[r] = "plugin" /\ (rows'[r].on \/ rows'[r].st # "none" \/ rows'[r].par # NoSlug)
           => rows'[r].par \in Family(r)
  BY <1>1 DEF Stored, AccountKept, SameAccount, Inv, Current
<1>3. \A r \in apps : Own(r)' = Own(r) /\ Family(r)' = Family(r)
  BY DEF Stored, Own, Family
<1>4. CASE req' = req
  BY <1>1, <1>2, <1>3, <1>4 DEF Stored, SameAccount, Inv, Current, Typed, Single
<1>5. CASE req' = Idle
  BY <1>2, <1>3, <1>5 DEF Stored, Current, Idle, Single
<1>. QED
  BY <1>4, <1>5 DEF Stored

LEMMA StoredGrant ==
  ASSUME Inv, NEW s \in apps, Stored(s), Backend[s] = "native" => GrantStored(s)
  PROVE  Newest'
<1>. SUFFICES ASSUME NEW r \in apps, r \notin torn, Backend[r] = "native"
              PROVE  /\ TestRenewed(r)' => req'.cred = token[r]
                     /\ CheckRenewed(r)' => wk'.cred = token[r]
                     /\ rows'[r].cred \in {0, token[r]} \/ TestRenewed(r)' \/ CheckRenewed(r)'
  BY DEF Newest, Stored
<1>1. /\ TestRenewed(r) => req.cred = token[r]
      /\ CheckRenewed(r) => wk.cred = token[r]
      /\ rows[r].cred \in {0, token[r]} \/ TestRenewed(r) \/ CheckRenewed(r)
  BY DEF Inv, Newest
<1>2. /\ TestRenewed(r)' <=> req' = req /\ TestRenewed(r)
      /\ CheckRenewed(r)' <=> wk' = wk /\ CheckRenewed(r)
  BY DEF Stored, TestRenewed, CheckRenewed, Idle
<1>3. CASE r = s
  BY <1>1, <1>2, <1>3 DEF Stored, GrantStored
<1>4. CASE r # s
  BY <1>1, <1>2, <1>4 DEF Stored, TestRenewed, CheckRenewed
<1>. QED
  BY <1>3, <1>4

LEMMA StoredBegun == ASSUME Inv, NEW s \in apps, Stored(s), Whole(s, rows'[s]) PROVE Begun'
BY DEF Stored, Inv, Begun, Whole, Idle

\* No row is enabled through an account that has been deleted.
Allowed(s) ==
  /\ Deleted(rows[s])' => Deleted(rows[s])
  /\ s \notin torn /\ Deleted(rows[s])' /\ rows'[s].on => rows[s].on

LEMMA StoredAllowed == ASSUME Inv, NEW s \in apps, Stored(s), Allowed(s) PROVE Withdrawn'
<1>1. \A r \in apps : /\ Deleted(rows[r])' => Deleted(rows[r])
                      /\ r \notin torn /\ Deleted(rows[r])' /\ rows'[r].on => rows[r].on
  BY DEF Stored, Allowed, Deleted
<1>2. \A b \in Callbacks : back'[b].kind = "grant" => back'[b] = back[b]
  BY DEF Stored, Idle
<1>3. CASE req' = req
  <2>1. \A r \in apps \ torn : Deleted(rows[r])' /\ rows'[r].on =>
          req.kind = "disconnect" /\ r \in req.all /\ (req.rows[r].on \/ Backend[r] = "zernio")
    BY <1>1 DEF Inv, Withdrawn
  <2>2. \A b \in Callbacks :
          /\ back'[b].kind = "grant" /\ back'[b].s \notin torn /\ remote'[back'[b].a] = "deleted"
          => req.kind = "disconnect" /\ req.s = back'[b].s
    BY <1>2 DEF Inv, Withdrawn, Stored
  <2>3. req.kind = "test" => req.s \in apps
    BY DEF Inv, Typed, Single
  <2>. QED
    BY <1>1, <1>3, <2>1, <2>2, <2>3 DEF Stored, Inv, Withdrawn
<1>4. CASE req' = Idle /\ req.kind \in Single
  <2>1. \A r \in apps \ torn : ~(Deleted(rows[r])' /\ rows'[r].on)
    BY <1>1, <1>4 DEF Inv, Withdrawn, Single
  <2>2. \A b \in Callbacks : ~(/\ back'[b].kind = "grant" /\ back'[b].s \notin torn
                               /\ remote'[back'[b].a] = "deleted")
    BY <1>2, <1>4 DEF Inv, Withdrawn, Stored, Single
  <2>. QED
    BY <1>4, <2>1, <2>2 DEF Stored, Withdrawn, Idle
<1>. QED
  BY <1>3, <1>4 DEF Stored

\* No route is revoked, and a plugin is enabled by a request that ends, and behind
\* a route that is not.
BehindKept(s) ==
  /\ Backend[s] = "plugin" =>
       /\ rows'[s].par = rows[s].par
       /\ rows'[s].on /\ ~rows[s].on =>
            req' = Idle /\ rows[s].par \in Family(s) /\ rows[rows[s].par].st # "revoked"
  /\ Backend[s] = "pipedream" /\ rows'[s].st = "revoked" => rows[s].st = "revoked"

LEMMA StoredBehind == ASSUME Inv, NEW s \in apps, Stored(s), BehindKept(s) PROVE Behind'
<1>1. \A w \in apps : Backend[w] = "plugin" => /\ rows'[w].par = rows[w].par
                                               /\ rows'[w].on => rows[w].on \/ req' = Idle
  BY DEF Stored, BehindKept
<1>2. \A p \in apps : Backend[p] = "pipedream" /\ rows'[p].st = "revoked" => rows[p].st = "revoked"
  BY DEF Stored, BehindKept
<1>3. \A w \in apps : Backend[w] = "plugin" /\ rows'[w].on =>
        /\ rows[w].par \in apps /\ Backend[rows[w].par] = "pipedream"
        /\ rows[rows[w].par].st # "revoked"
  BY DEF Inv, Current, Behind, Family, Stored, BehindKept
<1>4. \A w \in apps : Backend[w] = "plugin" /\ rows'[w].on => rows'[rows'[w].par].st # "revoked"
  BY <1>1, <1>2, <1>3
<1>5. req'.kind = "test" /\ req'.verdict = "ok" /\ Backend[req'.s] = "plugin" =>
        rows'[req'.s].par \in Family(req'.s) /\ rows'[rows'[req'.s].par].st # "revoked"
  <2>. SUFFICES ASSUME req'.kind = "test", req'.verdict = "ok", Backend[req'.s] = "plugin"
                PROVE  rows'[req'.s].par \in Family(req'.s)
                       /\ rows'[rows'[req'.s].par].st # "revoked"
    OBVIOUS
  <2>1. req' = req /\ req.s \in apps
    BY DEF Stored, Idle, Inv, Typed, Single
  <2>2. rows[req.s].par \in Family(req.s) /\ rows[rows[req.s].par].st # "revoked"
    BY <2>1 DEF Inv, Behind
  <2>. QED
    BY <1>1, <1>2, <2>1, <2>2 DEF Family, Stored
<1>6. req'.kind = "disconnect" => \A w \in apps : Backend[w] = "plugin" =>
        /\ w \in req'.all /\ rows'[w].on => req'.rows[w].on
        /\ rows'[w].par \in req'.all /\ Backend[rows'[w].par] = "pipedream" => w \in req'.all
  BY <1>1 DEF Stored, Idle, Inv, Behind
<1>. QED
  BY <1>4, <1>5, <1>6 DEF Behind, Family, Stored

\* A verified connection with a grant of its own is whole.
LEMMA PersistedRow ==
  ASSUME NEW row \in Row
  PROVE  /\ Persisted(row) \in Row /\ SameAccount(Persisted(row), row)
         /\ Persisted(row).st = "verified" /\ Persisted(row).on /\ Persisted(row).cred = 1
<1>1. 1 \in 0..MaxTokens
  BY ConnectionAssumption DEF ConnectionAssumption
<1>2. Persisted(row) \in Row
  BY <1>1 DEF Persisted, Row
<1>. QED
  BY <1>2 DEF Persisted, Row, SameAccount

\* A row of a plane without accounts and grants of its own kind is stored.
LEMMA PersistedKeeps ==
  ASSUME Inv, NEW s \in apps, Backend[s] \in {"mcp", "meta", "shopify"},
         rows' = [rows EXCEPT ![s] = Persisted(@)],
         open' \subseteq open, fresh \subseteq fresh', spent' \in [apps \X (1..MaxLinks) -> Nat],
         back' \in [Callbacks -> Calls], \A b \in Callbacks : back'[b] \in {back[b], Idle},
         InOneHand', UNCHANGED <<apps, remote, token, issued, torn, wk, req>>
  PROVE  Inv'
<1>1. rows[s] \in Row /\ rows \in [apps -> Row] /\ (rows[s].ref => rows[s].acct # NoAccount)
  BY DEF Inv, Typed, TypeOK
<1>2. rows'[s] = Persisted(rows[s]) /\ Stored(s)
  <2>1. Persisted(rows[s]) \in Row
    BY <1>1, PersistedRow
  <2>2. /\ rows' \in [apps -> Row] /\ rows'[s] = Persisted(rows[s])
        /\ \A r \in apps : r # s => rows'[r] = rows[r]
    BY <1>1, <2>1
  <2>. QED
    BY <2>2 DEF Stored
<1>3. ~Deleted(rows[s])
  BY DEF Inv, Current, Brokers, Deleted
<1>4. AccountKept(s) /\ Whole(s, rows'[s]) /\ Allowed(s) /\ BehindKept(s)
  BY <1>1, <1>2, <1>3, PersistedRow DEF Stored, AccountKept, SameAccount, Whole, Allowed, Deleted,
  BehindKept
<1>5. Typed'
  BY <1>1, <1>2, PersistedRow, StoredTypes DEF SameAccount
<1>. QED
  BY <1>2, <1>4, <1>5, StoredAccount, StoredGrant, StoredBegun, StoredAllowed, StoredBehind DEF Inv

\* Fewer links are open.
LEMMA FewerLinks ==
  ASSUME Inv, open' \subseteq open, UNCHANGED <<apps, issued, spent, back>>
  PROVE  InOneHand'
BY DEF Inv, InOneHand

LEMMA ConnectAgentKeeps == ASSUME Inv, NEW s \in apps, ConnectAgent(s) PROVE Inv'
<1>1. InOneHand'
  BY FewerLinks DEF ConnectAgent
<1>. QED
  BY <1>1, PersistedKeeps DEF ConnectAgent, world, Inv, Typed

LEMMA ConnectShopifyKeeps == ASSUME Inv, NEW s \in apps, ConnectShopify(s) PROVE Inv'
<1>1. InOneHand'
  BY FewerLinks DEF ConnectShopify, links
<1>. QED
  BY <1>1, PersistedKeeps DEF ConnectShopify, world, links, Inv, Typed

\* A callback that has exchanged its link has had it alone.
LEMMA Exchanged ==
  ASSUME Inv, NEW b \in Callbacks, back[b].kind # "idle", back' = [back EXCEPT ![b] = Idle],
         LET l == <<back[b].s, back[b].n>>
         IN \/ spent' = [spent EXCEPT ![l] = @ + 1] /\ open' \subseteq open \ {l}
            \/ spent' = spent /\ open' \subseteq open,
         UNCHANGED <<apps, issued>>
  PROVE  /\ InOneHand' /\ spent' \in [apps \X (1..MaxLinks) -> Nat]
         /\ back' \in [Callbacks -> Calls] /\ \A d \in Callbacks : back'[d] \in {back[d], Idle}
<1>. DEFINE s == back[b].s
            n == back[b].n
<1>1. s \in apps /\ n \in 1..MaxLinks /\ <<s, n>> \in apps \X (1..MaxLinks)
  BY DEF Inv, Typed, Calls, Idle
<1>2. spent \in [apps \X (1..MaxLinks) -> Nat] /\ back \in [Callbacks -> Calls] /\ Idle \in Calls
  BY DEF Inv, Typed, Calls
<1>3. /\ back' \in [Callbacks -> Calls] /\ back'[b] = Idle
      /\ \A d \in Callbacks : d # b => back'[d] = back[d]
  BY <1>2
<1>4. /\ spent[<<s, n>>] = 0 /\ n <= issued[s]
      /\ \A d \in Callbacks : d # b /\ back[d].kind # "idle" => back[d].s # s \/ back[d].n # n
  BY DEF Inv, InOneHand
<1>5. /\ spent' \in [apps \X (1..MaxLinks) -> Nat]
      /\ \A l \in apps \X (1..MaxLinks) : l # <<s, n>> => spent'[l] = spent[l]
      /\ spent'[<<s, n>>] \in {0, 1} /\ (spent'[<<s, n>>] = 1 => <<s, n>> \notin open')
  BY <1>1, <1>2, <1>4
<1>6. \A r \in apps, k \in 1..MaxLinks :
        /\ spent'[<<r, k>>] <= 1 /\ (spent'[<<r, k>>] = 1 => k <= issued[r])
        /\ <<r, k>> \in open' => spent'[<<r, k>>] = 0 /\ k <= issued[r]
  <2>. SUFFICES ASSUME NEW r \in apps, NEW k \in 1..MaxLinks
                PROVE  /\ spent'[<<r, k>>] <= 1 /\ (spent'[<<r, k>>] = 1 => k <= issued[r])
                       /\ <<r, k>> \in open' => spent'[<<r, k>>] = 0 /\ k <= issued[r]
    OBVIOUS
  <2>1. CASE <<r, k>> = <<s, n>>
    BY <1>4, <1>5, <2>1
  <2>2. CASE <<r, k>> # <<s, n>>
    <3>1. spent'[<<r, k>>] = spent[<<r, k>>] /\ (<<r, k>> \in open' => <<r, k>> \in open)
      BY <1>5, <2>2
    <3>. QED
      BY <3>1 DEF Inv, InOneHand
  <2>. QED
    BY <2>1, <2>2
<1>7. \A d \in Callbacks : back'[d].kind # "idle" =>
        /\ spent'[<<back'[d].s, back'[d].n>>] = 0 /\ back'[d].n <= issued[back'[d].s]
        /\ back'[d].kind = "exchange" => <<back'[d].s, back'[d].n>> \notin open'
  <2>. SUFFICES ASSUME NEW d \in Callbacks, back'[d].kind # "idle"
                PROVE  /\ spent'[<<back[d].s, back[d].n>>] = 0 /\ back[d].n <= issued[back[d].s]
                       /\ back[d].kind = "exchange" => <<back[d].s, back[d].n>> \notin open'
                       /\ back'[d] = back[d]
    OBVIOUS
  <2>1. d # b /\ back'[d] = back[d] /\ back[d].kind # "idle"
    BY <1>3 DEF Idle
  <2>2. <<back[d].s, back[d].n>> # <<s, n>> /\ <<back[d].s, back[d].n>> \in apps \X (1..MaxLinks)
    BY <1>4, <2>1 DEF Inv, Typed, Calls, Idle
  <2>. QED
    BY <1>5, <2>1, <2>2 DEF Inv, InOneHand
<1>8. \A c, d \in Callbacks : c # d /\ back'[c].kind # "idle" /\ back'[d].kind # "idle"
                              => back'[c].s # back'[d].s \/ back'[c].n # back'[d].n
  BY <1>3 DEF Inv, InOneHand, Idle
<1>. QED
  BY <1>3, <1>5, <1>6, <1>7, <1>8 DEF InOneHand

LEMMA FinishMetaKeeps == ASSUME Inv, NEW b \in Callbacks, FinishMeta(b) PROVE Inv'
<1>0. PICK s : s = back[b].s
  OBVIOUS
<1>. DEFINE l == <<s, back[b].n>>
<1>1. /\ back[b].kind = "exchange" /\ back' = [back EXCEPT ![b] = Idle] /\ Backend[s] = "meta"
      /\ UNCHANGED <<apps, remote, token, open, issued, torn, fresh, wk, req>>
      /\ \/ rows' = [rows EXCEPT ![s] = Persisted(@)] /\ spent' = [spent EXCEPT ![l] = @ + 1]
         \/ UNCHANGED <<rows, spent>>
  BY <1>0 DEF FinishMeta, EndExchange, world, ends
<1>2. s \in apps /\ (rows' = rows => rows' = [rows EXCEPT ![s] = rows[s]])
  BY <1>0, <1>1 DEF Inv, Typed, TypeOK, Calls, Idle
<1>3. l \notin open /\ back[b].kind # "idle"
  BY <1>0, <1>1 DEF Inv, InOneHand
<1>4. /\ InOneHand' /\ spent' \in [apps \X (1..MaxLinks) -> Nat]
      /\ back' \in [Callbacks -> Calls] /\ \A d \in Callbacks : back'[d] \in {back[d], Idle}
  <2>1. \/ spent' = [spent EXCEPT ![l] = @ + 1] /\ open' \subseteq open \ {l}
        \/ spent' = spent /\ open' \subseteq open
    BY <1>1, <1>3
  <2>. QED
    BY <1>0, <1>1, <1>3, <2>1, Exchanged
<1>5. CASE rows' = [rows EXCEPT ![s] = Persisted(@)]
  BY <1>1, <1>2, <1>4, <1>5, PersistedKeeps
<1>6. CASE rows' = rows
  <2>1. Stored(s)
    BY <1>1, <1>2, <1>4, <1>6 DEF Stored, Inv, Typed, TypeOK
  <2>2. Typed'
    BY <1>2, <1>6, <2>1, StoredTypes DEF Inv, Typed, TypeOK
  <2>3. Begun' /\ Withdrawn'
    BY <1>2, <1>6, <2>1, StoredBegun, StoredAllowed DEF Inv, Begun, Allowed, Deleted, Stored
  <2>. QED
    BY <1>1, <1>4, <1>6, <2>2, <2>3, CurrentStutter, NewestStutter, BehindStutter DEF Inv
<1>. QED
  BY <1>1, <1>5, <1>6

\* The agent's row: its enabling and its grant were both loaded, or both kept.
LEMMA FinishAgentKeeps == ASSUME Inv, NEW b \in Callbacks, FinishAgent(b) PROVE Inv'
<1>0. PICK s : s = back[b].s
  OBVIOUS
<1>. DEFINE l == <<s, back[b].n>>
<1>a. PICK was : was = [back[b].row EXCEPT !.st = rows[s].st, !.ok = rows[s].ok]
  OBVIOUS
<1>1. /\ back[b].kind = "exchange" /\ back' = [back EXCEPT ![b] = Idle] /\ Backend[s] = "mcp"
      /\ UNCHANGED <<apps, remote, token, issued, torn, fresh, wk, req>>
      /\ \/ /\ rows' = [rows EXCEPT ![s] = Save(rows[s], was, Persisted(was))]
            /\ spent' = [spent EXCEPT ![l] = @ + 1] /\ open' = {k \in open : k[1] # s}
         \/ UNCHANGED <<rows, spent, open>>
  BY <1>0, <1>a DEF FinishAgent, EndExchange, world, ends
<1>2. s \in apps /\ rows \in [apps -> Row] /\ rows[s] \in Row /\ back[b].row \in Row
  BY <1>0, <1>1 DEF Inv, Typed, TypeOK, Calls, Idle
<1>3. /\ was \in Row /\ was.st = rows[s].st /\ was.ok = rows[s].ok
      /\ SameAccount(was, back[b].row) /\ was.on = back[b].row.on /\ was.cred = back[b].row.cred
  BY <1>2, <1>a DEF Row, SameAccount
<1>4. (was.on => was.cred = 1) /\ (~was.on => was.cred = 0)
  BY <1>0, <1>1, <1>3 DEF Inv, Begun, Whole
<1>5. back[b].kind # "idle" /\ (rows[s].on => rows[s].cred = 1) /\ (~rows[s].on => rows[s].cred = 0)
  BY <1>1, <1>2 DEF Inv, Begun, Whole
<1>6. /\ InOneHand' /\ spent' \in [apps \X (1..MaxLinks) -> Nat]
      /\ back' \in [Callbacks -> Calls] /\ \A d \in Callbacks : back'[d] \in {back[d], Idle}
  <2>1. \/ spent' = [spent EXCEPT ![l] = @ + 1] /\ open' \subseteq open \ {l}
        \/ spent' = spent /\ open' \subseteq open
    BY <1>1
  <2>. QED
    BY <1>0, <1>1, <1>5, <2>1, Exchanged
<1>b. PICK new : new = Save(rows[s], was, Persisted(was))
  OBVIOUS
<1>7. /\ Persisted(was) \in Row /\ SameAccount(Persisted(was), was)
      /\ Persisted(was).on /\ Persisted(was).cred = 1
  BY <1>3, PersistedRow
<1>8. /\ new \in Row /\ SameAccount(new, rows[s])
      /\ (new.on => new.cred = 1) /\ (~new.on => new.cred = 0)
  <2>0. new \in Row
    BY <1>2, <1>3, <1>7, <1>b, Saved
  <2>1. SameAccount(new, rows[s])
    BY <1>2, <1>3, <1>7, <1>b, SavedAccount
  <2>2. /\ new.on = IF Persisted(was).on # was.on THEN Persisted(was).on ELSE rows[s].on
        /\ new.cred = IF Persisted(was).cred # was.cred THEN Persisted(was).cred ELSE rows[s].cred
    BY <1>2, <1>3, <1>7, <1>b DEF Save, Row
  <2>3. was.on \in BOOLEAN /\ Persisted(was).on = TRUE
    BY <1>3, <1>7 DEF Row
  <2>4. CASE was.on
    <3>1. new.on = rows[s].on
      BY <2>2, <2>3, <2>4
    <3>2. new.cred = rows[s].cred
      BY <1>4, <1>7, <2>2, <2>4
    <3>. QED
      BY <1>5, <2>0, <2>1, <3>1, <3>2
  <2>5. CASE ~was.on
    <3>1. new.on
      BY <2>2, <2>3, <2>5
    <3>2. new.cred = 1
      BY <1>4, <1>7, <2>2, <2>5
    <3>. QED
      BY <2>0, <2>1, <3>1, <3>2
  <2>. QED
    BY <2>4, <2>5
<1>9. PICK row \in Row : /\ rows' = [rows EXCEPT ![s] = row] /\ open' \subseteq open
                         /\ SameAccount(row, rows[s])
                         /\ (row.on => row.cred = 1) /\ (~row.on => row.cred = 0)
  <2>1. CASE rows' = [rows EXCEPT ![s] = new] /\ open' \subseteq open
    BY <1>8, <2>1
  <2>2. CASE UNCHANGED <<rows, open>>
    BY <1>2, <1>5, <2>2 DEF SameAccount
  <2>. QED
    BY <1>1, <1>b, <2>1, <2>2
<1>10. Stored(s) /\ rows'[s] = row
  BY <1>1, <1>2, <1>6, <1>9 DEF Stored
<1>11. ~Deleted(rows[s]) /\ (row.ref => row.acct # NoAccount)
  BY <1>1, <1>2, <1>9 DEF Inv, Typed, TypeOK, Current, Brokers, Deleted, SameAccount
<1>12. Allowed(s)
  <2>1. rows'[s].acct = rows[s].acct /\ remote' = remote
    BY <1>1, <1>9, <1>10 DEF SameAccount
  <2>. QED
    BY <1>11, <2>1 DEF Allowed, Deleted
<1>13. AccountKept(s) /\ Whole(s, rows'[s]) /\ BehindKept(s)
  BY <1>1, <1>9, <1>10 DEF AccountKept, Whole, BehindKept
<1>. QED
  BY <1>1, <1>2, <1>6, <1>10, <1>11, <1>12, <1>13, StoredTypes, StoredAccount, StoredGrant,
     StoredBegun, StoredAllowed, StoredBehind DEF Inv

\* A step that stores one row and holds nothing else.
LEMMA OneRowKeeps ==
  ASSUME Inv, NEW s \in apps, Stored(s), UNCHANGED <<open, issued, spent, back>>,
         AccountKept(s), Whole(s, rows'[s]), Allowed(s), BehindKept(s),
         Backend[s] = "native" => GrantStored(s) /\ rows'[s].cred <= token[s]
  PROVE  Inv'
<1>1. rows'[s].ref => rows'[s].acct # NoAccount
  BY DEF AccountKept, SameAccount, Inv, Typed, TypeOK
<1>. QED
  BY <1>1, StoredTypes, StoredAccount, StoredGrant, StoredBegun, StoredAllowed, StoredBehind,
     InOneHandStutter DEF Inv, Stored

LEMMA TestAgentKeeps == ASSUME Inv, NEW s \in apps, TestAgent(s) PROVE Inv'
<1>. DEFINE v == AgentVerdict(s)
<1>1. /\ Backend[s] = "mcp" /\ rows[s] \in Row /\ rows \in [apps -> Row]
      /\ rows' = [rows EXCEPT ![s].st = Answer(v), ![s].ok = (v = "ok"), ![s].on = @ \/ v = "ok"]
      /\ UNCHANGED <<apps, remote, token, down, open, issued, pin, spent, req, wk, back, faults,
                     fresh, torn>>
  BY DEF TestAgent, world, links, ends, Inv, Typed, TypeOK
<1>2. v = "ok" => rows[s].on
  BY <1>1 DEF AgentVerdict, Inv, Begun, Whole, Row
<1>. HIDE DEF v
<1>3. Answer(v) \in {"verified", "degraded"}
  BY DEF Answer
<1>4. /\ rows' \in [apps -> Row] /\ \A r \in apps : r # s => rows'[r] = rows[r]
  BY <1>1, <1>3 DEF Row
<1>5. SameAccount(rows'[s], rows[s]) /\ rows'[s].cred = rows[s].cred /\ (rows'[s].on <=> rows[s].on)
  BY <1>1, <1>2 DEF SameAccount, Row
<1>6. Stored(s)
  BY <1>1, <1>4 DEF Stored, Inv, Typed
<1>7. AccountKept(s) /\ Whole(s, rows'[s]) /\ BehindKept(s)
  BY <1>1, <1>5 DEF AccountKept, Whole, BehindKept, Inv, Begun
<1>8. Allowed(s)
  BY <1>1, <1>5 DEF Allowed, Deleted, SameAccount
<1>. QED
  BY <1>1, <1>6, <1>7, <1>8, OneRowKeeps

LEMMA RevalidateKeeps == ASSUME Inv, NEW s \in apps, Revalidate(s) PROVE Inv'
<1>1. /\ Backend[s] = "nango" /\ rows[s] \in Row /\ rows \in [apps -> Row]
      /\ rows[s].acct # NoAccount /\ remote[rows[s].acct] = "live"
      /\ rows' = [rows EXCEPT ![s].on = TRUE, ![s].ref = TRUE, ![s].st = "verified", ![s].ok = TRUE]
      /\ UNCHANGED <<apps, remote, token, down, open, issued, pin, spent, req, wk, back, faults,
                     fresh, torn>>
  BY DEF Revalidate, Verify, world, links, ends, Inv, Typed, TypeOK
<1>2. rows[s].ref
  BY <1>1 DEF Inv, Current
<1>3. /\ rows' \in [apps -> Row] /\ \A r \in apps : r # s => rows'[r] = rows[r]
  BY <1>1 DEF Row
<1>4. rows'[s].acct = rows[s].acct /\ rows'[s].ref = TRUE /\ rows'[s].par = rows[s].par
  BY <1>1 DEF Row
<1>5. SameAccount(rows'[s], rows[s])
  BY <1>1, <1>2, <1>4 DEF SameAccount, Row
<1>6. Stored(s)
  BY <1>1, <1>3 DEF Stored, Inv, Typed
<1>7. ~Deleted(rows[s])'
  BY <1>1, <1>4 DEF Deleted
<1>8. AccountKept(s) /\ Whole(s, rows'[s]) /\ BehindKept(s) /\ Allowed(s)
  BY <1>1, <1>5, <1>7 DEF AccountKept, Whole, BehindKept, Allowed
<1>. QED
  BY <1>1, <1>6, <1>8, OneRowKeeps

\* What a preflight makes of its row: at most it is withdrawn.
LEMMA FindingRow ==
  ASSUME NEW s, NEW row \in Row, row.on, row.st = "verified", NEW v \in Verdicts,
         NEW cred \in 0..MaxTokens
  PROVE  /\ Finding(s, row, v, cred) \in Row
         /\ SameAccount(Finding(s, row, v, cred), row)
         /\ Finding(s, row, v, cred).st \in {"verified", "degraded"}
         /\ Backend[s] = "plugin" => Finding(s, row, v, cred).st = "verified"
         /\ Backend[s] = "native" => Finding(s, row, v, cred).cred = cred
<1>1. CASE v = "ok"
  BY <1>1 DEF Finding, Row, SameAccount
<1>2. CASE v = "retry"
  BY <1>2 DEF Finding, Row, SameAccount
<1>3. CASE v = "refused" /\ Backend[s] \in {"zernio", "plugin"}
  BY <1>3 DEF Finding, Row, SameAccount
<1>4. CASE v = "refused" /\ Backend[s] \notin {"zernio", "plugin"}
  BY <1>4 DEF Finding, Row, SameAccount
<1>. QED
  BY <1>1, <1>2, <1>3, <1>4 DEF Verdicts

LEMMA RecordPreflightKeeps == ASSUME Inv, RecordPreflight PROVE Inv'
<1>1. PICK s, row, new : /\ s = wk.s /\ row = wk.row
                            /\ new = Finding(wk.s, wk.row, wk.verdict, wk.cred)
  OBVIOUS
<1>2. /\ wk.kind = "preflight" /\ wk' = Idle /\ rows' = [rows EXCEPT ![s] = Save(@, row, new)]
      /\ UNCHANGED <<apps, remote, token, open, issued, pin, spent, req, back, fresh, torn>>
  BY <1>1 DEF RecordPreflight, world, links, ends
<1>3. /\ s \in apps /\ row \in Row /\ wk.cred \in 0..MaxTokens /\ row.on /\ row.st = "verified"
      /\ wk.verdict \in Verdicts /\ Backend[s] # "mcp"
      /\ Backend[s] = "native" => wk.cred <= token[s]
  BY <1>1, <1>2 DEF Inv, Typed, Checks, Idle
<1>4. /\ new \in Row /\ SameAccount(new, row) /\ new.st \in {"verified", "degraded"}
      /\ Backend[s] = "plugin" => new.st = "verified"
      /\ Backend[s] = "native" => new.cred = wk.cred
  BY <1>1, <1>3, FindingRow
<1>5. rows[s] \in Row /\ rows \in [apps -> Row]
  BY <1>3 DEF Inv, Typed, TypeOK
<1>6. Save(rows[s], row, new) \in Row
  BY <1>3, <1>4, <1>5, Saved
<1>7. /\ rows' \in [apps -> Row] /\ rows'[s] = Save(rows[s], row, new)
      /\ \A r \in apps : r # s => rows'[r] = rows[r]
  BY <1>2, <1>3, <1>5, <1>6
<1>8. SameAccount(rows'[s], rows[s])
  BY <1>3, <1>4, <1>5, <1>7, SavedAccount
<1>9. /\ rows'[s].st = rows[s].st \/ (rows'[s].st = "degraded" /\ Backend[s] # "plugin")
      /\ rows'[s].on => rows[s].on
  BY <1>3, <1>4, <1>5, <1>7 DEF Save, Row
<1>10. rows'[s].cred = IF new.cred # row.cred THEN new.cred ELSE rows[s].cred
  BY <1>3, <1>4, <1>5, <1>7 DEF Save, Row
<1>11. Stored(s)
  BY <1>1, <1>2, <1>7 DEF Stored, Inv, Typed
<1>12. AccountKept(s) /\ Whole(s, rows'[s]) /\ BehindKept(s)
  BY <1>3, <1>8, <1>9 DEF AccountKept, Whole, BehindKept, SameAccount
<1>13. Allowed(s)
  BY <1>2, <1>8, <1>9 DEF Allowed, Deleted, SameAccount
<1>14. Backend[s] = "native" => GrantStored(s) /\ rows'[s].cred <= token[s]
  BY <1>1, <1>2, <1>3, <1>4, <1>10 DEF GrantStored, CheckRenewed, Inv, Typed, TypeOK
<1>. QED
  BY <1>2, <1>3, <1>11, <1>12, <1>13, <1>14, OneRowKeeps

\* A code that is exchanged renews the grant for the row, and tears it for
\* whoever holds an older one.
LEMMA OAuthCallbackKeeps == ASSUME Inv, NEW s \in apps, OAuthCallback(s) PROVE Inv'
<1>1. /\ Backend[s] = "native" /\ rows[s] \in Row /\ rows \in [apps -> Row]
      /\ token[s] < MaxTokens /\ token[s] \in 0..MaxTokens /\ token \in [apps -> 0..MaxTokens]
      /\ token' = [token EXCEPT ![s] = @ + 1]
      /\ rows' = [rows EXCEPT ![s].st = "verified", ![s].on = TRUE, ![s].cred = token[s] + 1]
      /\ torn' = torn \cup IF wk # Idle \/ req # Idle THEN {s} ELSE {}
      /\ UNCHANGED <<apps, remote, down, open, issued, pin, spent, req, wk, back, faults, fresh>>
  BY DEF OAuthCallback, links, Inv, Typed, TypeOK
<1>2. PICK c : c = token[s] + 1
  OBVIOUS
<1>3. c \in 0..MaxTokens
  BY <1>1, <1>2, ConnectionAssumption DEF ConnectionAssumption
<1>4. /\ rows' \in [apps -> Row] /\ \A r \in apps : r # s => rows'[r] = rows[r]
  BY <1>1, <1>2, <1>3 DEF Row
<1>5. SameAccount(rows'[s], rows[s]) /\ rows'[s].cred = c /\ token'[s] = c
  BY <1>1, <1>2 DEF SameAccount, Row
<1>6. token' \in [apps -> 0..MaxTokens] /\ \A r \in apps : token[r] <= token'[r]
  BY <1>1, <1>2, <1>3
<1>7. \A r \in apps : SameAccount(rows'[r], rows[r])
  BY <1>4, <1>5 DEF SameAccount
<1>8. Typed'
  <2>1. TypeOK'
    BY <1>1, <1>4, <1>5, <1>6, <1>7 DEF Inv, Typed, TypeOK, SameAccount
  <2>2. req.kind = "native" /\ Backend[req.s] = "native" => req.cred <= token'[req.s]
    <3>. SUFFICES ASSUME req.kind = "native", Backend[req.s] = "native"
                  PROVE  req.cred <= token'[req.s]
      OBVIOUS
    <3>1. req.s \in apps /\ req.cred \in Nat /\ req.cred <= token[req.s]
      BY DEF Inv, Typed, Single
    <3>2. token[req.s] \in Nat /\ token'[req.s] \in Nat
      BY <1>1, <1>6, <3>1
    <3>. QED
      BY <1>6, <3>1, <3>2
  <2>3. wk.kind = "preflight" /\ Backend[wk.s] = "native" => wk.cred <= token'[wk.s]
    <3>. SUFFICES ASSUME wk.kind = "preflight", Backend[wk.s] = "native"
                  PROVE  wk.cred <= token'[wk.s]
      OBVIOUS
    <3>1. wk \in Checks /\ wk.cred <= token[wk.s]
      BY DEF Inv, Typed, Idle
    <3>2. wk.s \in apps /\ wk.cred \in Nat /\ token[wk.s] \in Nat /\ token'[wk.s] \in Nat
      BY <1>1, <1>6, <3>1 DEF Checks
    <3>. QED
      BY <1>6, <3>1, <3>2
  <2>. QED
    BY <1>1, <2>1, <2>2, <2>3 DEF Inv, Typed, Calls, Checks, Own, Single
<1>9. Current'
  <2>1. \A r \in apps :
          /\ rows'[r].acct # NoAccount => Backend[r] \in Brokers /\ rows'[r].acct \in Own(r)'
          /\ Backend[r] \in {"nango", "zernio"} /\ rows'[r].acct # NoAccount => rows'[r].ref
          /\ Backend[r] = "plugin" /\ (rows'[r].on \/ rows'[r].st # "none" \/ rows'[r].par # NoSlug)
             => rows'[r].par \in Family(r)'
    BY <1>1, <1>4, <1>7 DEF SameAccount, Inv, Current, Own, Family
  <2>2. req.kind \in Single => req.s \in apps
    BY DEF Inv, Typed
  <2>3. req.kind = "test" =>
          /\ Backend[req.s] = "plugin" => rows'[req.s].par \in Family(req.s)'
          /\ Backend[req.s] = "nango" /\ req.verdict = "ok" => rows'[req.s].ref
    BY <1>1, <1>7, <2>2 DEF SameAccount, Inv, Current, Family, Single
  <2>4. req.kind \in Single /\ Backend[req.s] # "zernio"
        => SameAccount(req.rows[req.s], rows'[req.s])
    BY <1>7, <2>2 DEF SameAccount, Inv, Current
  <2>5. req.kind = "disconnect" =>
          \A r \in req.all : /\ Backend[r] # "zernio" => SameAccount(req.rows[r], rows'[r])
                             /\ Backend[r] = "plugin" => rows'[r].par \in Family(r)'
    BY <1>1, <1>7 DEF SameAccount, Inv, Current, Typed, Family
  <2>. QED
    BY <1>1, <2>1, <2>3, <2>4, <2>5 DEF Current
<1>10. Newest'
  <2>. SUFFICES ASSUME NEW r \in apps, r \notin torn', Backend[r] = "native"
                PROVE  /\ TestRenewed(r)' => req'.cred = token'[r]
                       /\ CheckRenewed(r)' => wk'.cred = token'[r]
                       /\ rows'[r].cred \in {0, token'[r]} \/ TestRenewed(r)' \/ CheckRenewed(r)'
    BY <1>1 DEF Newest
  <2>1. (TestRenewed(r)' <=> TestRenewed(r)) /\ (CheckRenewed(r)' <=> CheckRenewed(r))
    BY <1>1 DEF TestRenewed, CheckRenewed
  <2>2. CASE r = s
    BY <1>1, <1>5, <2>1, <2>2 DEF TestRenewed, CheckRenewed, Idle
  <2>3. CASE r # s
    BY <1>1, <1>4, <2>1, <2>3 DEF Inv, Newest
  <2>. QED
    BY <2>2, <2>3
<1>11. Begun'
  BY <1>1, <1>4 DEF Inv, Begun, Whole
<1>12. Withdrawn'
  <2>1. \A r \in apps : Deleted(rows[r])' <=> Deleted(rows[r])
    BY <1>1, <1>7 DEF Deleted, SameAccount
  <2>2. ~Deleted(rows[s])
    BY <1>1 DEF Inv, Current, Brokers, Deleted
  <2>. QED
    BY <1>1, <1>4, <2>1, <2>2 DEF Inv, Withdrawn, Typed, Single
<1>13. Behind'
  BY <1>1, <1>4, <1>7 DEF Inv, Behind, Current, Family, SameAccount, Typed, Single
<1>. QED
  BY <1>1, <1>8, <1>9, <1>10, <1>11, <1>12, <1>13, InOneHandStutter DEF Inv

\* A plugin is connected behind a verified route of its app.
LEMMA ConnectPluginKeeps == ASSUME Inv, NEW s \in apps, ConnectPlugin(s) PROVE Inv'
<1>1. PICK p \in Parents(s) :
        rows' = [rows EXCEPT ![s] = [@ EXCEPT !.st = "verified", !.on = TRUE, !.ok = TRUE,
                                            !.par = p]]
  BY DEF ConnectPlugin
<1>2. /\ req = Idle /\ Backend[s] = "plugin" /\ rows[s] \in Row /\ rows \in [apps -> Row]
      /\ UNCHANGED <<apps, remote, token, down, open, issued, pin, spent, req, wk, back, faults,
                     fresh, torn>>
  BY DEF ConnectPlugin, world, links, ends, Inv, Typed, TypeOK
<1>3. p \in Family(s) /\ p \in apps /\ p \in Slugs /\ Backend[p] = "pipedream"
      /\ rows[p].st = "verified"
  BY ConnectionAssumption DEF ConnectionAssumption, Parents, Family, Inv, Typed, TypeOK
<1>4. [rows[s] EXCEPT !.st = "verified", !.on = TRUE, !.ok = TRUE, !.par = p] \in Row
  BY <1>2, <1>3 DEF Row
<1>5. /\ rows' \in [apps -> Row] /\ \A r \in apps : r # s => rows'[r] = rows[r]
      /\ rows'[s] = [rows[s] EXCEPT !.st = "verified", !.on = TRUE, !.ok = TRUE, !.par = p]
  BY <1>1, <1>2, <1>4
<1>6. /\ rows'[s].acct = rows[s].acct /\ rows'[s].ref = rows[s].ref /\ rows'[s].par = p
      /\ rows'[s].cred = rows[s].cred
  BY <1>2, <1>5 DEF Row
<1>7. Stored(s)
  BY <1>2, <1>5 DEF Stored, Inv, Typed
<1>8. Typed'
  BY <1>2, <1>6, <1>7, StoredTypes DEF Inv, Typed, TypeOK
<1>9. Current'
  <2>1. \A r \in apps : rows'[r].acct = rows[r].acct /\ rows'[r].ref = rows[r].ref
    BY <1>5, <1>6
  <2>2. \A r \in apps : Backend[r] = "plugin"
                        /\ (rows'[r].on \/ rows'[r].st # "none" \/ rows'[r].par # NoSlug)
                        => rows'[r].par \in Family(r)
    BY <1>3, <1>5, <1>6 DEF Inv, Current
  <2>3. \A r \in apps : Own(r)' = Own(r) /\ Family(r)' = Family(r)
    BY <1>2 DEF Own, Family
  <2>. QED
    BY <1>2, <2>1, <2>2, <2>3 DEF Inv, Current, Idle, Single
<1>10. Newest' /\ Begun'
  BY <1>2, <1>7, StoredGrant, StoredBegun DEF Whole
<1>11. Withdrawn'
  <2>1. ~Deleted(rows[s])
    BY <1>2 DEF Inv, Current, Brokers, Deleted
  <2>2. Allowed(s)
    BY <1>2, <1>6, <2>1 DEF Allowed, Deleted
  <2>. QED
    BY <1>7, <2>2, StoredAllowed
<1>12. Behind'
  <2>1. \A w \in apps : Backend[w] = "plugin" /\ rows'[w].on => rows'[rows'[w].par].st # "revoked"
    <3>. SUFFICES ASSUME NEW w \in apps, Backend[w] = "plugin", rows'[w].on
                  PROVE  rows'[rows'[w].par].st # "revoked"
      OBVIOUS
    <3>1. CASE w = s
      BY <1>2, <1>3, <1>5, <1>6, <3>1
    <3>2. CASE w # s
      BY <1>2, <1>5, <3>2 DEF Inv, Behind, Current, Family
    <3>. QED
      BY <3>1, <3>2
  <2>. QED
    BY <1>2, <2>1 DEF Behind, Idle
<1>. QED
  BY <1>2, <1>8, <1>9, <1>10, <1>11, <1>12, InOneHandStutter DEF Inv

\* A grant that is finished enables the row with the account it was given, or
\* nothing is stored.
LEMMA FinishGrantKeeps == ASSUME Inv, NEW b \in Callbacks, FinishGrant(b) PROVE Inv'
<1>. USE ConnectionAssumption DEF ConnectionAssumption
<1>1. PICK s, l, a : s = back[b].s /\ l = <<back[b].s, back[b].n>> /\ a = back[b].a
  OBVIOUS
<1>2. PICK new : new = [Absent EXCEPT !.st = "verified", !.on = TRUE, !.acct = a, !.ref = TRUE,
                                      !.cred = 1]
  OBVIOUS
<1>3. /\ back[b].kind = "grant" /\ back' = [back EXCEPT ![b] = Idle]
      /\ UNCHANGED <<apps, remote, token, issued, torn, fresh, wk, req>>
      /\ \/ /\ rows' = [rows EXCEPT ![s] = new] /\ open' = open \ {l}
            /\ spent' = [spent EXCEPT ![l] = @ + 1]
         \/ UNCHANGED <<rows, open, spent>>
  BY <1>1, <1>2 DEF FinishGrant, world, ends
<1>4. /\ s \in apps /\ Backend[s] = "zernio" /\ a \in Accounts /\ a \in Own(s) /\ a # NoAccount
      /\ rows[s] \in Row /\ rows \in [apps -> Row]
  BY <1>1, <1>3 DEF Inv, Typed, TypeOK, Calls, Idle
<1>5. /\ InOneHand' /\ spent' \in [apps \X (1..MaxLinks) -> Nat]
      /\ back' \in [Callbacks -> Calls] /\ \A d \in Callbacks : back'[d] \in {back[d], Idle}
  <2>1. \/ spent' = [spent EXCEPT ![l] = @ + 1] /\ open' \subseteq open \ {l}
        \/ spent' = spent /\ open' \subseteq open
    BY <1>3
  <2>. QED
    BY <1>1, <1>3, <2>1, Exchanged
<1>6. /\ new \in Row /\ new.acct = a /\ new.ref /\ new.on
  <2>1. 1 \in 0..MaxTokens /\ a \in Accounts \cup {NoAccount}
    BY <1>4
  <2>2. new = [st |-> "verified", on |-> TRUE, ok |-> TRUE, acct |-> a, ref |-> TRUE,
               par |-> NoSlug, cred |-> 1]
    BY <1>2 DEF Absent
  <2>. QED
    BY <2>1, <2>2 DEF Row
<1>7. PICK row \in Row : /\ rows' = [rows EXCEPT ![s] = row] /\ row \in {new, rows[s]}
                         /\ open' \subseteq open
  <2>1. CASE rows' = [rows EXCEPT ![s] = new] /\ open' = open \ {l}
    BY <1>6, <2>1
  <2>2. CASE UNCHANGED <<rows, open>>
    BY <1>4, <2>2
  <2>. QED
    BY <1>3, <2>1, <2>2
<1>8. /\ rows' \in [apps -> Row] /\ rows'[s] = row
      /\ \A r \in apps : r # s => rows'[r] = rows[r]
  BY <1>4, <1>7
<1>9. Stored(s)
  BY <1>3, <1>5, <1>7, <1>8 DEF Stored
<1>10. Typed'
  <2>1. row.ref => row.acct # NoAccount
    BY <1>4, <1>6, <1>7 DEF Inv, Typed, TypeOK
  <2>. QED
    BY <1>4, <1>8, <1>9, <2>1, StoredTypes
<1>11. Current'
  <2>1. \A r \in apps :
          /\ rows'[r].acct # NoAccount => Backend[r] \in Brokers /\ rows'[r].acct \in Own(r)
          /\ Backend[r] \in {"nango", "zernio"} /\ rows'[r].acct # NoAccount => rows'[r].ref
          /\ Backend[r] = "plugin" /\ (rows'[r].on \/ rows'[r].st # "none" \/ rows'[r].par # NoSlug)
             => rows'[r].par \in Family(r)
    BY <1>4, <1>6, <1>7, <1>8 DEF Inv, Current, Brokers
  <2>2. \A r \in apps : Own(r)' = Own(r) /\ Family(r)' = Family(r)
    BY <1>3 DEF Own, Family
  <2>. QED
    BY <1>3, <1>4, <1>8, <2>1, <2>2 DEF Inv, Current, Typed, Single
<1>12. Newest' /\ Begun' /\ Behind'
  BY <1>4, <1>9, StoredGrant, StoredBegun, StoredBehind DEF Whole, BehindKept
<1>13. Withdrawn'
  <2>1. CASE row = rows[s]
    <3>1. Allowed(s)
      BY <1>3, <1>8, <2>1 DEF Allowed, Deleted
    <3>. QED
      BY <1>4, <1>9, <3>1, StoredAllowed
  <2>2. CASE row = new
    <3>1. Deleted(rows[s])' <=> remote[a] = "deleted"
      BY <1>3, <1>4, <1>6, <1>8, <2>2 DEF Deleted
    <3>2. remote[a] = "deleted" /\ s \notin torn => req.kind = "disconnect" /\ req.s = s
      BY <1>1, <1>3 DEF Inv, Withdrawn
    <3>3. req.kind = "disconnect" /\ req.s = s => s \in req.all
      BY DEF Inv, Typed
    <3>4. \A r \in apps : r # s => (Deleted(rows[r])' <=> Deleted(rows[r]))
      BY <1>3, <1>8 DEF Deleted
    <3>5. \A r \in apps \ torn : Deleted(rows[r])' /\ rows'[r].on =>
            /\ req.kind = "disconnect" /\ r \in req.all
            /\ req.rows[r].on \/ Backend[r] = "zernio"
      BY <1>4, <1>8, <3>1, <3>2, <3>3, <3>4 DEF Inv, Withdrawn
    <3>6. \A d \in Callbacks : back'[d].kind = "grant" => back'[d] = back[d]
      BY <1>5 DEF Idle
    <3>7. req.kind = "test" /\ req.verdict = "ok" /\ req.s \notin torn => ~Deleted(rows[req.s])'
      BY <1>3, <1>8, <3>1, <3>2, <3>4 DEF Inv, Withdrawn, Typed, Single
    <3>. QED
      BY <1>3, <3>5, <3>6, <3>7 DEF Inv, Withdrawn
  <2>. QED
    BY <1>7, <2>1, <2>2
<1>. QED
  BY <1>5, <1>10, <1>11, <1>12, <1>13 DEF Inv
-------------------------------------------------------------------------------
\* Requests that commit

LEMMA SyncKeeps == ASSUME Inv, Sync PROVE Inv'
<1>. USE ConnectionAssumption DEF ConnectionAssumption
<1>1. PICK s, was, new :
        /\ s = req.s /\ was = req.rows[req.s]
        /\ new = IF req.verdict = "ok"
                 THEN [was EXCEPT !.st = "verified", !.on = TRUE, !.ok = TRUE, !.acct = req.a,
                                  !.ref = TRUE]
                 ELSE IF was.st = "none" THEN was
                 ELSE [was EXCEPT !.on = FALSE, !.ok = FALSE,
                                  !.st = IF req.verdict = "retry" THEN "pending" ELSE "degraded"]
  OBVIOUS
<1>2. /\ req.kind = "sync" /\ req' = Idle /\ rows' = [rows EXCEPT ![s] = Save(rows[s], was, new)]
      /\ UNCHANGED <<apps, remote, token, open, issued, spent, wk, back, fresh, torn>>
  BY <1>1 DEF Sync, world, links, ends
<1>3. /\ s \in apps /\ was \in Row /\ Backend[s] = "nango" /\ req.a \in Own(s)
      /\ SameAccount(was, rows[s]) /\ remote[req.a] # "deleted"
  BY <1>1, <1>2 DEF Inv, Typed, Current, Withdrawn, Single
<1>4. rows[s] \in Row /\ rows \in [apps -> Row] /\ req.a \in Accounts /\ req.a # NoAccount
  BY <1>3 DEF Inv, Typed, TypeOK, Own
<1>5. new \in Row
  <2>1. req.a \in Accounts \cup {NoAccount}
    BY <1>4
  <2>2. CASE req.verdict = "ok"
    BY <1>1, <1>3, <2>1, <2>2 DEF Row
  <2>3. CASE req.verdict # "ok" /\ was.st = "none"
    BY <1>1, <1>3, <2>3
  <2>4. CASE req.verdict # "ok" /\ was.st # "none"
    <3>1. (IF req.verdict = "retry" THEN "pending" ELSE "degraded")
          \in {"none", "pending", "verified", "degraded", "revoked"}
      OBVIOUS
    <3>. QED
      BY <1>1, <1>3, <2>4, <3>1 DEF Row
  <2>. QED
    BY <2>2, <2>3, <2>4
<1>6. \/ req.verdict = "ok" /\ new.acct = req.a /\ new.ref = TRUE /\ new.par = was.par
      \/ SameAccount(new, was) /\ (new.on = FALSE \/ new.on = was.on)
  BY <1>1, <1>3 DEF Row, SameAccount
<1>7. PICK x : x = Save(rows[s], was, new)
  OBVIOUS
<1>8. x \in Row
  BY <1>3, <1>4, <1>5, <1>7, Saved
<1>9. \/ x.acct = req.a /\ x.ref = TRUE
      \/ SameAccount(x, rows[s]) /\ (x.on => rows[s].on)
  <2>1. CASE new.acct = req.a /\ new.ref = TRUE
    BY <1>3, <1>4, <1>5, <1>7, <2>1 DEF Save, Row, SameAccount
  <2>2. CASE SameAccount(new, was) /\ (new.on = FALSE \/ new.on = was.on)
    <3>1. SameAccount(x, rows[s])
      BY <1>3, <1>4, <1>5, <1>7, <2>2, SavedAccount
    <3>2. x.on => rows[s].on
      BY <1>3, <1>4, <1>5, <1>7, <2>2 DEF Save, Row
    <3>. QED
      BY <3>1, <3>2
  <2>. QED
    BY <1>6, <2>1, <2>2
<1>10. /\ rows' \in [apps -> Row] /\ rows'[s] = x /\ \A r \in apps : r # s => rows'[r] = rows[r]
  BY <1>2, <1>3, <1>4, <1>7, <1>8
<1>11. Stored(s)
  BY <1>1, <1>2, <1>10 DEF Stored, Single, Inv, Typed
<1>12. Typed'
  <2>1. x.ref => x.acct # NoAccount
    BY <1>3, <1>4, <1>9 DEF SameAccount, Inv, Typed, TypeOK
  <2>. QED
    BY <1>3, <1>10, <1>11, <2>1, StoredTypes
<1>13. Current'
  <2>1. \A r \in apps :
          /\ rows'[r].acct # NoAccount => Backend[r] \in Brokers /\ rows'[r].acct \in Own(r)
          /\ Backend[r] \in {"nango", "zernio"} /\ rows'[r].acct # NoAccount => rows'[r].ref
          /\ Backend[r] = "plugin" /\ (rows'[r].on \/ rows'[r].st # "none" \/ rows'[r].par # NoSlug)
             => rows'[r].par \in Family(r)
    BY <1>3, <1>9, <1>10 DEF Inv, Current, Brokers, SameAccount
  <2>2. \A r \in apps : Own(r)' = Own(r) /\ Family(r)' = Family(r)
    BY <1>2 DEF Own, Family
  <2>. QED
    BY <1>2, <2>1, <2>2 DEF Current, Idle, Single
<1>14. Newest' /\ Begun' /\ Behind'
  BY <1>3, <1>11, StoredGrant, StoredBegun, StoredBehind DEF Whole, BehindKept
<1>15. Withdrawn'
  <2>1. Allowed(s)
    BY <1>2, <1>3, <1>9, <1>10 DEF Allowed, Deleted, SameAccount
  <2>. QED
    BY <1>3, <1>11, <2>1, StoredAllowed
<1>. QED
  BY <1>2, <1>12, <1>13, <1>14, <1>15, InOneHandStutter DEF Inv

LEMMA TestKeeps == ASSUME Inv, Test PROVE Inv'
<1>1. PICK s, was, new :
        /\ s = req.s /\ was = req.rows[req.s]
        /\ new = [was EXCEPT !.st = Answer(req.verdict), !.ok = (req.verdict = "ok"),
                             !.on = (req.verdict = "ok"),
                             !.ref = @ \/ (Backend[req.s] = "nango" /\ req.verdict = "ok")]
  OBVIOUS
<1>2. /\ req.kind = "test" /\ req' = Idle /\ rows' = [rows EXCEPT ![s] = Save(rows[s], was, new)]
      /\ UNCHANGED <<apps, remote, token, open, issued, spent, wk, back, fresh, torn>>
  BY <1>1 DEF Test, world, links, ends
<1>3. /\ s \in apps /\ was \in Row /\ Backend[s] \notin {"native", "meta", "mcp"}
      /\ Backend[s] # "zernio" => SameAccount(was, rows[s])
      /\ Backend[s] = "plugin" => rows[s].par \in Family(s)
      /\ Backend[s] = "nango" /\ req.verdict = "ok" => rows[s].ref
  BY <1>1, <1>2 DEF Inv, Typed, Current, Single
<1>4. rows[s] \in Row /\ rows \in [apps -> Row]
  BY <1>3 DEF Inv, Typed, TypeOK
<1>5. Answer(req.verdict) \in {"verified", "degraded"}
  BY DEF Answer
<1>6. /\ new \in Row /\ new.acct = was.acct /\ new.par = was.par
      /\ new.st \in {"verified", "degraded"} /\ (new.on <=> req.verdict = "ok")
  BY <1>1, <1>3, <1>5 DEF Row
<1>7. new.ref = was.ref
  <2>1. CASE Backend[s] = "nango" /\ req.verdict = "ok"
    BY <1>1, <1>3, <2>1 DEF Row, SameAccount
  <2>2. CASE ~(Backend[s] = "nango" /\ req.verdict = "ok")
    BY <1>1, <1>3, <2>2 DEF Row
  <2>. QED
    BY <2>1, <2>2
<1>8. PICK x : x = Save(rows[s], was, new)
  OBVIOUS
<1>9. x \in Row /\ SameAccount(x, rows[s])
  BY <1>3, <1>4, <1>6, <1>7, <1>8, Saved, SavedAccount DEF SameAccount
<1>10. /\ x.on => rows[s].on \/ req.verdict = "ok"
       /\ x.st = rows[s].st \/ x.st \in {"verified", "degraded"}
  BY <1>3, <1>4, <1>6, <1>8 DEF Save, Row
<1>11. /\ rows' \in [apps -> Row] /\ rows'[s] = x /\ \A r \in apps : r # s => rows'[r] = rows[r]
  BY <1>2, <1>3, <1>4, <1>8, <1>9
<1>12. Stored(s)
  BY <1>1, <1>2, <1>11 DEF Stored, Single, Inv, Typed
<1>13. Typed'
  BY <1>3, <1>9, <1>11, <1>12, StoredTypes DEF SameAccount, Inv, Typed, TypeOK
<1>14. AccountKept(s)
  BY <1>3, <1>9, <1>11 DEF AccountKept
<1>15. Allowed(s)
  <2>1. req.verdict = "ok" /\ s \notin torn => ~Deleted(rows[s])
    BY <1>1, <1>2 DEF Inv, Withdrawn
  <2>2. Deleted(rows[s])' <=> Deleted(rows[s])
    BY <1>2, <1>9, <1>11 DEF Deleted, SameAccount
  <2>. QED
    BY <1>10, <1>11, <2>1, <2>2 DEF Allowed
<1>16. BehindKept(s)
  <2>1. req.verdict = "ok" /\ Backend[s] = "plugin" => rows[rows[s].par].st # "revoked"
    BY <1>1, <1>2 DEF Inv, Behind
  <2>. QED
    BY <1>2, <1>3, <1>9, <1>10, <1>11, <2>1 DEF BehindKept, SameAccount
<1>17. Current' /\ Newest' /\ Begun' /\ Withdrawn' /\ Behind'
  BY <1>3, <1>12, <1>14, <1>15, <1>16, StoredAccount, StoredGrant, StoredBegun, StoredAllowed,
     StoredBehind DEF Whole
<1>. QED
  BY <1>2, <1>13, <1>17, InOneHandStutter DEF Inv

LEMMA NativeTestKeeps == ASSUME Inv, NativeTest PROVE Inv'
<1>1. PICK s, was, new :
        /\ s = req.s /\ was = req.rows[req.s]
        /\ new = [was EXCEPT !.st = Answer(req.verdict), !.ok = (req.verdict = "ok"),
                             !.cred = req.cred]
  OBVIOUS
<1>2. /\ req.kind = "native" /\ req' = Idle /\ rows' = [rows EXCEPT ![s] = Save(rows[s], was, new)]
      /\ UNCHANGED <<apps, remote, token, open, issued, spent, wk, back, fresh, torn>>
  BY <1>1 DEF NativeTest, world, links, ends
<1>3. /\ s \in apps /\ was \in Row /\ Backend[s] \in {"native", "meta"}
      /\ SameAccount(was, rows[s]) /\ req.cred \in 0..MaxTokens
      /\ Backend[s] = "native" => req.cred <= token[s]
  BY <1>1, <1>2 DEF Inv, Typed, Current, Single
<1>4. /\ rows[s] \in Row /\ rows \in [apps -> Row]
      /\ Backend[s] = "native" => rows[s].cred <= token[s]
  BY <1>3 DEF Inv, Typed, TypeOK
<1>5. Answer(req.verdict) \in {"verified", "degraded"}
  BY DEF Answer
<1>6. new \in Row /\ SameAccount(new, was) /\ new.on = was.on /\ new.cred = req.cred
  BY <1>1, <1>3, <1>5 DEF Row, SameAccount
<1>7. PICK x : x = Save(rows[s], was, new)
  OBVIOUS
<1>8. x \in Row /\ SameAccount(x, rows[s])
  BY <1>3, <1>4, <1>6, <1>7, Saved, SavedAccount
<1>9. x.on = rows[s].on /\ x.cred = IF req.cred # was.cred THEN req.cred ELSE rows[s].cred
  BY <1>3, <1>4, <1>6, <1>7 DEF Save, Row
<1>10. /\ rows' \in [apps -> Row] /\ rows'[s] = x /\ \A r \in apps : r # s => rows'[r] = rows[r]
  BY <1>2, <1>3, <1>4, <1>7, <1>8
<1>11. Stored(s)
  BY <1>1, <1>2, <1>10 DEF Stored, Single, Inv, Typed
<1>12. AccountKept(s) /\ Whole(s, rows'[s]) /\ BehindKept(s)
  BY <1>3, <1>8, <1>9, <1>10 DEF AccountKept, Whole, BehindKept
<1>13. Allowed(s)
  BY <1>2, <1>8, <1>9, <1>10 DEF Allowed, Deleted, SameAccount
<1>14. Backend[s] = "native" => GrantStored(s) /\ rows'[s].cred <= token[s]
  BY <1>1, <1>2, <1>3, <1>4, <1>9, <1>10 DEF GrantStored, TestRenewed
<1>. QED
  BY <1>2, <1>3, <1>11, <1>12, <1>13, <1>14, OneRowKeeps

\* What an activation makes of the rows: every route of the family answers for the
\* account, and one of them holds the reference.
LEMMA Activated ==
  ASSUME Inv, ActivateFamily
  PROVE  /\ req.kind = "activate" /\ req' = Idle /\ req.s \in apps /\ req.a \in Own(req.s)
         /\ UNCHANGED <<apps, remote, token, open, issued, spent, wk, back, fresh, torn>>
         /\ rows' \in [apps -> Row]
         /\ \A r \in apps \ Family(req.s) : rows'[r] = rows[r]
         /\ \A r \in Family(req.s) :
              /\ rows'[r].acct = req.a /\ (rows'[r].ref <=> Holds(r, req.s, req.a))
              /\ rows'[r].par = rows[r].par /\ rows'[r].st \in {"verified", rows[r].st}
<1>1. PICK s, a : s = req.s /\ a = req.a
  OBVIOUS
<1>. DEFINE new(r) == [rows[r] EXCEPT !.st = "verified", !.on = TRUE, !.ok = TRUE, !.cred = 0,
                                      !.acct = a, !.ref = Holds(r, s, a)]
            was(r) == IF r = s THEN req.rows[r] ELSE rows[r]
<1>2. /\ req.kind = "activate" /\ req' = Idle
      /\ UNCHANGED <<apps, remote, token, open, issued, spent, wk, back, fresh, torn>>
      /\ rows' = [r \in DOMAIN rows |-> IF r \in Family(s) THEN Save(rows[r], was(r), new(r))
                                                           ELSE rows[r]]
  BY <1>1 DEF ActivateFamily, world, links, ends
<1>3. /\ s \in apps /\ a \in Own(s) /\ req.rows[s] \in Row /\ SameAccount(req.rows[s], rows[s])
      /\ Backend[s] = "pipedream"
  BY <1>1, <1>2 DEF Inv, Typed, Current, Single
<1>4. a \in Accounts /\ rows \in [apps -> Row] /\ Family(s) \subseteq apps
  BY <1>3, ConnectionAssumption DEF ConnectionAssumption, Own, Inv, Typed, TypeOK, Family
<1>5. ASSUME NEW r \in Family(s)
      PROVE  /\ rows'[r] \in Row /\ rows'[r].acct = a /\ (rows'[r].ref <=> Holds(r, s, a))
             /\ rows'[r].par = rows[r].par /\ rows'[r].st \in {"verified", rows[r].st}
  <2>1. /\ rows[r] \in Row /\ was(r) \in Row
        /\ was(r).acct = rows[r].acct /\ was(r).ref = rows[r].ref /\ was(r).par = rows[r].par
    BY <1>3, <1>4 DEF SameAccount
  <2>2. new(r) \in Row
    <3>1. Holds(r, s, a) \in BOOLEAN /\ 0 \in 0..MaxTokens
      BY ConnectionAssumption DEF ConnectionAssumption, Holds
    <3>. QED
      BY <1>4, <2>1, <3>1 DEF Row
  <2>3. /\ new(r).acct = a /\ new(r).ref = Holds(r, s, a) /\ new(r).par = rows[r].par
        /\ new(r).st = "verified"
    BY <2>1 DEF Row
  <2>4. PICK w, x, y : w = was(r) /\ x = new(r) /\ y = Save(rows[r], w, x)
    OBVIOUS
  <2>5. rows'[r] = y /\ y \in Row
    BY <1>2, <1>4, <2>1, <2>2, <2>4, Saved
  <2>6. /\ y.acct = IF x.acct # w.acct THEN x.acct ELSE rows[r].acct
        /\ y.ref = IF x.ref # w.ref THEN x.ref ELSE rows[r].ref
        /\ y.par = IF x.par # w.par THEN x.par ELSE rows[r].par
        /\ y.st = IF x.st # w.st THEN x.st ELSE rows[r].st
    BY <2>1, <2>4 DEF Save, Row
  <2>7. w.acct = rows[r].acct /\ w.ref = rows[r].ref /\ w.par = rows[r].par
    BY <2>1, <2>4
  <2>8. x.acct = a /\ x.ref = Holds(r, s, a) /\ x.par = rows[r].par /\ x.st = "verified"
    BY <2>3, <2>4
  <2>. QED
    BY <2>5, <2>6, <2>7, <2>8
<1>6. \A r \in apps : r \notin Family(s) => rows'[r] = rows[r]
  BY <1>2, <1>4
<1>7. rows' \in [apps -> Row]
  <2>1. DOMAIN rows' = apps /\ \A r \in apps : rows'[r] \in Row
    BY <1>2, <1>4, <1>5, <1>6
  <2>2. rows' = [r \in DOMAIN rows' |-> rows'[r]]
    BY <1>2
  <2>. QED
    BY <2>1, <2>2
<1>. QED
  BY <1>1, <1>2, <1>3, <1>5, <1>6, <1>7

LEMMA ActivateFamilyKeeps == ASSUME Inv, ActivateFamily PROVE Inv'
<1>1. PICK s, a, family : s = req.s /\ a = req.a /\ family = Family(s)
  OBVIOUS
<1>2. /\ req.kind = "activate" /\ req' = Idle /\ s \in apps /\ a \in Own(s)
      /\ UNCHANGED <<apps, remote, token, open, issued, spent, wk, back, fresh, torn>>
      /\ rows' \in [apps -> Row]
      /\ \A r \in apps : r \notin family => rows'[r] = rows[r]
      /\ \A r \in family : /\ rows'[r].acct = a /\ rows'[r].par = rows[r].par
                           /\ rows'[r].st \in {"verified", rows[r].st}
  BY <1>1, Activated
<1>3. /\ a \in Accounts /\ a # NoAccount /\ a \in DOMAIN remote /\ remote[a] # "deleted"
      /\ \A r \in family : r \in apps /\ Backend[r] = "pipedream" /\ Own(r) = Own(s)
  BY <1>1, <1>2, ConnectionAssumption
  DEF ConnectionAssumption, Own, Inv, Typed, TypeOK, Family, Withdrawn
<1>4. Typed'
  <2>1. TypeOK'
    BY <1>2, <1>3 DEF Inv, Typed, TypeOK
  <2>2. Calls' = Calls /\ Checks' = Checks
    BY <1>2 DEF Calls, Checks
  <2>. QED
    BY <1>2, <2>1, <2>2 DEF Inv, Typed, Idle, Single, Own
<1>5. Current'
  <2>1. \A r \in apps : Own(r)' = Own(r) /\ Family(r)' = Family(r)
    BY <1>2 DEF Own, Family
  <2>2. \A r \in apps :
          /\ rows'[r].acct # NoAccount => Backend[r] \in Brokers /\ rows'[r].acct \in Own(r)
          /\ Backend[r] \in {"nango", "zernio"} /\ rows'[r].acct # NoAccount => rows'[r].ref
          /\ Backend[r] = "plugin" /\ (rows'[r].on \/ rows'[r].st # "none" \/ rows'[r].par # NoSlug)
             => rows'[r].par \in Family(r)
    BY <1>2, <1>3 DEF Inv, Current, Brokers
  <2>. QED
    BY <1>2, <2>1, <2>2 DEF Current, Idle, Single
<1>6. Newest'
  BY <1>2, <1>3 DEF Inv, Newest, TestRenewed, CheckRenewed, Idle
<1>7. Begun'
  BY <1>2, <1>3 DEF Inv, Begun, Whole, Idle
<1>8. Withdrawn'
  <2>1. \A r \in apps \ torn : ~(Deleted(rows[r])' /\ rows'[r].on)
    BY <1>2, <1>3 DEF Inv, Withdrawn, Deleted
  <2>2. \A b \in Callbacks : ~(/\ back[b].kind = "grant" /\ back[b].s \notin torn
                               /\ remote[back[b].a] = "deleted")
    BY <1>2 DEF Inv, Withdrawn
  <2>. QED
    BY <1>2, <2>1, <2>2 DEF Withdrawn, Idle
<1>9. Behind'
  <2>1. \A w \in apps : Backend[w] = "plugin" /\ rows[w].on =>
          rows[w].par \in apps /\ rows[rows[w].par].st # "revoked" /\ rows'[w] = rows[w]
    BY <1>2, <1>3 DEF Inv, Behind, Current, Family
  <2>2. \A p \in apps : rows'[p].st = "revoked" => rows[p].st = "revoked"
    BY <1>2, <1>3
  <2>3. \A w \in apps : Backend[w] = "plugin" /\ rows'[w].on => rows'[rows'[w].par].st # "revoked"
    BY <1>2, <1>3, <2>1, <2>2
  <2>. QED
    BY <1>2, <2>3 DEF Behind, Idle
<1>. QED
  BY <1>2, <1>4, <1>5, <1>6, <1>7, <1>8, <1>9, InOneHandStutter DEF Inv

\* What a disconnection makes of the rows it takes down: an account is kept with its
\* reference or forgotten with it, and no row is enabled.
LEMMA Disconnected ==
  ASSUME Inv, Disconnect
  PROVE  /\ req.kind = "disconnect" /\ req' = Idle /\ req.s \in req.all /\ req.all \subseteq apps
         /\ UNCHANGED <<apps, remote, token, issued, spent, wk, back, torn>>
         /\ \A b \in Callbacks : back[b].kind = "grant" => back[b].s # req.s
         /\ open' \subseteq open
         /\ fresh' = {s \in fresh : \/ s \notin req.all
                                    \/ \E b \in Callbacks : back[b] # Idle /\ back[b].s = s
                                    \/ \E l \in open' : l[1] = s}
         /\ rows' \in [apps -> Row]
         /\ \A r \in apps \ req.all : rows'[r] = rows[r]
         /\ \A r \in req.all :
              /\ \/ rows'[r].acct = NoAccount /\ ~rows'[r].ref
                 \/ rows'[r].acct = rows[r].acct /\ rows'[r].ref = rows[r].ref
                    /\ Backend[r] # "zernio"
              /\ rows'[r].par = rows[r].par /\ (rows'[r].on => rows[r].on /\ ~req.rows[r].on)
              /\ rows'[r].cred \in {0, rows[r].cred}
              /\ Whole(r, rows'[r])
<1>1. PICK all, loaded : all = req.all /\ loaded = req.rows
  OBVIOUS
<1>. DEFINE clear(r) == req.verdict = "ok" /\ Backend[r] \in {"pipedream", "zernio"}
            new(r) == Revoked(loaded[r], clear(r))
<1>2. /\ req.kind = "disconnect" /\ req' = Idle
      /\ UNCHANGED <<apps, remote, token, issued, spent, wk, back, torn>>
      /\ \A b \in Callbacks : back[b].kind = "grant" => back[b].s # req.s
      /\ open' \subseteq open
      /\ fresh' = {s \in fresh : \/ s \notin req.all
                                 \/ \E b \in Callbacks : back[b] # Idle /\ back[b].s = s
                                 \/ \E l \in open' : l[1] = s}
  BY DEF Disconnect, world
<1>3. rows' = [r \in DOMAIN rows |-> IF r \in all THEN Save(rows[r], loaded[r], new(r))
                                                  ELSE rows[r]]
  BY <1>1 DEF Disconnect
<1>4. /\ req.s \in all /\ all \subseteq apps /\ rows \in [apps -> Row]
      /\ \A r \in all : /\ loaded[r] \in Row
                        /\ Backend[r] # "zernio" => SameAccount(loaded[r], rows[r])
                        /\ Backend[r] = "zernio" =>
                             clear(r) /\ loaded[r].acct # NoAccount /\ loaded[r].ref
                        /\ Whole(r, loaded[r]) /\ Whole(r, rows[r])
  BY <1>1, <1>2 DEF Inv, Typed, TypeOK, Current, Begun
<1>5. ASSUME NEW r \in all
      PROVE  /\ rows'[r] \in Row
             /\ \/ rows'[r].acct = NoAccount /\ ~rows'[r].ref
                \/ rows'[r].acct = rows[r].acct /\ rows'[r].ref = rows[r].ref
                   /\ Backend[r] # "zernio"
             /\ rows'[r].par = rows[r].par /\ (rows'[r].on => rows[r].on /\ ~loaded[r].on)
             /\ rows'[r].cred \in {0, rows[r].cred}
             /\ Whole(r, rows'[r])
  <2>1. PICK c \in BOOLEAN : c = clear(r)
    OBVIOUS
  <2>2. PICK w, x, y, z : w = loaded[r] /\ x = new(r) /\ z = rows[r] /\ y = Save(z, w, x)
    OBVIOUS
  <2>3. w \in Row /\ z \in Row /\ rows'[r] = y
    BY <1>3, <1>4, <2>2
  <2>4. /\ x.on = FALSE /\ x.cred = 0 /\ x.par = w.par
        /\ (c => x.acct = NoAccount /\ x.ref = FALSE) /\ (~c => x.acct = w.acct /\ x.ref = w.ref)
    BY <2>1, <2>2, <2>3 DEF Revoked, Row
  <2>5. x \in Row
    <3>1. 0 \in 0..MaxTokens
      BY ConnectionAssumption DEF ConnectionAssumption
    <3>2. x = [w EXCEPT !.st = "revoked", !.on = FALSE, !.cred = 0, !.acct = x.acct, !.ref = x.ref]
      BY <2>1, <2>2, <2>3, <2>4 DEF Revoked, Row
    <3>3. x.acct \in Accounts \cup {NoAccount} /\ x.ref \in BOOLEAN
      BY <2>1, <2>3, <2>4 DEF Row
    <3>. QED
      BY <2>3, <3>1, <3>2, <3>3 DEF Row
  <2>6. y \in Row
    BY <2>2, <2>3, <2>5, Saved
  <2>7. /\ y.acct = IF x.acct # w.acct THEN x.acct ELSE z.acct
        /\ y.ref = IF x.ref # w.ref THEN x.ref ELSE z.ref
        /\ y.par = IF x.par # w.par THEN x.par ELSE z.par
        /\ y.on = IF x.on # w.on THEN x.on ELSE z.on
        /\ y.cred = IF x.cred # w.cred THEN x.cred ELSE z.cred
    BY <2>2, <2>3, <2>5 DEF Save, Row
  <2>8. /\ w.on \in BOOLEAN /\ z.on \in BOOLEAN /\ w.ref \in BOOLEAN /\ z.ref \in BOOLEAN
    BY <2>3 DEF Row
  <2>9. \/ y.acct = NoAccount /\ ~y.ref
        \/ y.acct = z.acct /\ y.ref = z.ref /\ Backend[r] # "zernio"
    <3>1. CASE Backend[r] = "zernio"
      <4>1. c /\ w.acct # NoAccount /\ w.ref = TRUE
        BY <1>4, <2>1, <2>2, <2>8, <3>1
      <4>. QED
        BY <2>4, <2>7, <4>1
    <3>2. CASE Backend[r] # "zernio"
      <4>1. w.acct = z.acct /\ w.ref = z.ref
        BY <1>4, <2>2, <3>2 DEF SameAccount
      <4>. QED
        BY <2>1, <2>4, <2>7, <3>2, <4>1
    <3>. QED
      BY <3>1, <3>2
  <2>10. y.par = z.par /\ (y.on => z.on /\ ~w.on) /\ y.cred \in {0, z.cred}
    BY <2>4, <2>7, <2>8
  <2>11. Whole(r, y)
    <3>. SUFFICES ASSUME Backend[r] = "mcp"
                  PROVE  (y.on => y.cred = 1) /\ (~y.on => y.cred = 0)
      BY DEF Whole
    <3>1. /\ (w.on => w.cred = 1) /\ (~w.on => w.cred = 0)
          /\ (z.on => z.cred = 1) /\ (~z.on => z.cred = 0)
      BY <1>4, <2>2 DEF Whole
    <3>2. CASE w.on
      <4>1. y.on = FALSE /\ y.cred = 0
        BY <2>4, <2>7, <2>8, <3>1, <3>2
      <4>. QED
        BY <4>1
    <3>3. CASE ~w.on
      <4>1. y.on = z.on /\ y.cred = z.cred
        BY <2>4, <2>7, <2>8, <3>1, <3>3
      <4>. QED
        BY <3>1, <4>1
    <3>. QED
      BY <3>2, <3>3
  <2>. QED
    BY <2>2, <2>3, <2>6, <2>9, <2>10, <2>11
<1>6. \A r \in apps : r \notin all => rows'[r] = rows[r]
  BY <1>3, <1>4
<1>7. rows' \in [apps -> Row]
  <2>1. DOMAIN rows' = apps /\ \A r \in apps : rows'[r] \in Row
    BY <1>3, <1>4, <1>5, <1>6
  <2>2. rows' = [r \in DOMAIN rows' |-> rows'[r]]
    BY <1>3
  <2>. QED
    BY <2>1, <2>2
<1>. QED
  BY <1>1, <1>2, <1>4, <1>5, <1>6, <1>7

LEMMA DisconnectKeeps == ASSUME Inv, Disconnect PROVE Inv'
<1>1. PICK all : all = req.all
  OBVIOUS
<1>2. /\ req.kind = "disconnect" /\ req' = Idle /\ req.s \in all /\ all \subseteq apps
      /\ UNCHANGED <<apps, remote, token, issued, spent, wk, back, torn>>
      /\ \A b \in Callbacks : back[b].kind = "grant" => back[b].s # req.s
      /\ open' \subseteq open
      /\ fresh' = {s \in fresh : \/ s \notin req.all
                                 \/ \E b \in Callbacks : back[b] # Idle /\ back[b].s = s
                                 \/ \E l \in open' : l[1] = s}
      /\ rows' \in [apps -> Row]
  BY <1>1, Disconnected
<1>3. /\ \A r \in apps : r \notin all => rows'[r] = rows[r]
      /\ \A r \in all :
           /\ \/ rows'[r].acct = NoAccount /\ ~rows'[r].ref
              \/ rows'[r].acct = rows[r].acct /\ rows'[r].ref = rows[r].ref /\ Backend[r] # "zernio"
           /\ rows'[r].par = rows[r].par /\ (rows'[r].on => rows[r].on /\ ~req.rows[r].on)
           /\ rows'[r].cred \in {0, rows[r].cred}
           /\ Whole(r, rows'[r])
  BY <1>1, Disconnected
<1>4. Typed'
  <2>1. TypeOK'
    <3>1. \A r \in apps : /\ rows'[r].ref => rows'[r].acct # NoAccount
                          /\ Backend[r] = "native" => rows'[r].cred <= token[r]
      <4>. SUFFICES ASSUME NEW r \in apps
                    PROVE  /\ rows'[r].ref => rows'[r].acct # NoAccount
                           /\ Backend[r] = "native" => rows'[r].cred <= token[r]
        OBVIOUS
      <4>1. /\ rows[r].ref => rows[r].acct # NoAccount
            /\ Backend[r] = "native" => rows[r].cred <= token[r]
            /\ token[r] \in 0..MaxTokens
        BY DEF Inv, Typed, TypeOK
      <4>2. rows'[r].cred \in {0, rows[r].cred}
        BY <1>3
      <4>3. rows'[r].cred = 0 \/ rows'[r].cred = rows[r].cred
        BY <4>2
      <4>. QED
        BY <1>3, <4>1, <4>3
    <3>. QED
      BY <1>2, <3>1 DEF Inv, Typed, TypeOK
  <2>2. Calls' = Calls /\ Checks' = Checks
    BY <1>2 DEF Calls, Checks
  <2>. QED
    BY <1>2, <2>1, <2>2 DEF Inv, Typed, Idle, Single, Own
<1>5. Current'
  <2>1. \A r \in apps : Own(r)' = Own(r) /\ Family(r)' = Family(r)
    BY <1>2 DEF Own, Family
  <2>2. \A r \in apps :
          /\ rows'[r].acct # NoAccount => Backend[r] \in Brokers /\ rows'[r].acct \in Own(r)
          /\ Backend[r] \in {"nango", "zernio"} /\ rows'[r].acct # NoAccount => rows'[r].ref
          /\ Backend[r] = "plugin" /\ (rows'[r].on \/ rows'[r].st # "none" \/ rows'[r].par # NoSlug)
             => rows'[r].par \in Family(r)
    BY <1>1, <1>2, <1>3 DEF Inv, Current
  <2>. QED
    BY <1>2, <2>1, <2>2 DEF Current, Idle, Single
<1>6. Newest'
  BY <1>2, <1>3 DEF Inv, Newest, TestRenewed, CheckRenewed, Idle
<1>7. InOneHand'
  BY <1>2, FewerLinks
<1>8. Begun'
  <2>1. \A s \in apps, n \in 1..MaxLinks : <<s, n>> \in open' => s \in fresh'
    BY <1>2 DEF Inv, Begun
  <2>2. \A b \in Callbacks : back[b].kind # "idle" => back[b].s \in fresh'
    BY <1>2 DEF Inv, Begun, Idle
  <2>3. \A s \in apps : Whole(s, rows'[s])
    BY <1>3 DEF Inv, Begun
  <2>. QED
    BY <1>2, <2>1, <2>2, <2>3 DEF Inv, Begun, Whole, Idle
<1>9. Withdrawn'
  <2>1. \A r \in apps \ torn : ~(Deleted(rows[r])' /\ rows'[r].on)
    BY <1>1, <1>2, <1>3 DEF Inv, Withdrawn, Deleted
  <2>2. \A b \in Callbacks : ~(/\ back[b].kind = "grant" /\ back[b].s \notin torn
                               /\ remote[back[b].a] = "deleted")
    BY <1>2 DEF Inv, Withdrawn
  <2>. QED
    BY <1>2, <2>1, <2>2 DEF Withdrawn, Idle
<1>10. Behind'
  <2>1. ASSUME NEW w \in apps, Backend[w] = "plugin", rows'[w].on
        PROVE  rows'[rows'[w].par].st # "revoked"
    <3>1. rows[w].on /\ w \notin all
      BY <1>1, <1>2, <1>3, <2>1 DEF Inv, Behind
    <3>2. rows[w].par \in apps /\ Backend[rows[w].par] = "pipedream"
          /\ rows[rows[w].par].st # "revoked"
      BY <2>1, <3>1 DEF Inv, Behind, Current, Family
    <3>3. rows[w].par \notin all
      BY <1>1, <1>2, <2>1, <3>1, <3>2 DEF Inv, Behind
    <3>. QED
      BY <1>3, <3>1, <3>2, <3>3
  <2>. QED
    BY <1>2, <2>1 DEF Behind, Idle
<1>. QED
  BY <1>4, <1>5, <1>6, <1>7, <1>8, <1>9, <1>10 DEF Inv
-------------------------------------------------------------------------------
\* A process dies: a renewed grant that it held is torn, and so is a disconnection.
LEMMA CrashKeeps == ASSUME Inv, Crash PROVE Inv'
<1>1. UNCHANGED <<apps, rows, remote, token, down, open, issued, pin, spent, fresh>>
  BY DEF Crash, world, links
<1>2. /\ wk' \in {wk, Idle} /\ req' \in {req, Idle} /\ torn \subseteq torn'
      /\ (back' = back \/ \E b \in Callbacks : back' = [back EXCEPT ![b] = Idle])
  BY DEF Crash
<1>3. \A b \in Callbacks : back'[b] \in {back[b], Idle}
  BY <1>2 DEF Inv, Typed
<1>4. Typed'
  <2>1. TypeOK'
    BY <1>1 DEF Inv, Typed, TypeOK, Crash
  <2>2. Calls' = Calls /\ Checks' = Checks /\ back' \in [Callbacks -> Calls]
    BY <1>1, <1>2 DEF Calls, Checks, Inv, Typed
  <2>3. \A b \in Callbacks :
          /\ back'[b].kind = "exchange" => Backend[back'[b].s] \in {"mcp", "meta"}
          /\ back'[b].kind = "grant" => Backend[back'[b].s] = "zernio"
             /\ back'[b].a \in Own(back'[b].s)
    BY <1>3 DEF Inv, Typed, Idle
  <2>4. \A s \in apps : Own(s)' = Own(s)
    BY <1>1 DEF Own
  <2>5. CASE req' = req
    BY <1>1, <1>2, <2>1, <2>2, <2>3, <2>4, <2>5 DEF Inv, Typed, Idle, Own
  <2>6. CASE req' = Idle
    BY <1>1, <1>2, <2>1, <2>2, <2>3, <2>4, <2>6 DEF Inv, Typed, Idle, Own, Single
  <2>. QED
    BY <1>2, <2>5, <2>6
<1>5. Current'
  <2>1. CASE req' = req
    BY <1>1, <2>1, CurrentStutter DEF Inv
  <2>2. CASE req' = Idle
    BY <1>1, <2>2 DEF Inv, Current, Own, Family, Idle, Single
  <2>. QED
    BY <1>2, <2>1, <2>2
<1>6. Newest'
  <2>1. \A s \in apps : Backend[s] = "native" /\ s \notin torn' =>
          (TestRenewed(s)' <=> TestRenewed(s)) /\ (CheckRenewed(s)' <=> CheckRenewed(s))
          /\ (TestRenewed(s) => req' = req) /\ (CheckRenewed(s) => wk' = wk)
    BY <1>1 DEF Crash, TestRenewed, CheckRenewed, Grants, Idle
  <2>. QED
    BY <1>1, <1>2, <2>1 DEF Inv, Newest
<1>7. InOneHand'
  BY <1>1, <1>3 DEF Inv, InOneHand, Idle
<1>8. Begun'
  BY <1>1, <1>2, <1>3 DEF Inv, Begun, Whole, Idle
<1>9. Withdrawn'
  <2>1. CASE req' = req
    BY <1>1, <1>2, <1>3, <2>1 DEF Inv, Withdrawn, Deleted, Idle
  <2>2. CASE req' = Idle
    <3>1. req.kind = "disconnect" => req.all \subseteq torn' /\ req.s \in torn'
      <4>1. req.kind = "disconnect" /\ req' = Idle => req' # req
        BY DEF Idle
      <4>. QED
        BY <2>2, <4>1 DEF Crash, Inv, Typed
    <3>. QED
      BY <1>1, <1>2, <1>3, <2>2, <3>1 DEF Inv, Withdrawn, Deleted, Idle
  <2>. QED
    BY <1>2, <2>1, <2>2
<1>10. Behind'
  BY <1>1, <1>2 DEF Inv, Behind, Family, Idle
<1>. QED
  BY <1>4, <1>5, <1>6, <1>7, <1>8, <1>9, <1>10 DEF Inv

LEMMA InitHolds == Init => Inv
<1>. SUFFICES ASSUME Init PROVE Inv
  OBVIOUS
<1>. USE ConnectionAssumption DEF ConnectionAssumption
<1>1. PICK sc \in Scenarios : apps = sc[1] /\ remote = [a \in sc[2] |-> "free"]
  BY DEF Init
<1>2. /\ rows = [s \in apps |-> Absent] /\ token = [s \in apps |-> 0]
      /\ open = {} /\ issued = [s \in apps |-> 0] /\ req = Idle /\ wk = Idle
      /\ back = [b \in Callbacks |-> Idle] /\ fresh = {} /\ torn = {}
      /\ spent = [l \in apps \X (1..MaxLinks) |-> 0]
  BY DEF Init
<1>3. sc = <<apps, DOMAIN remote>> /\ apps \subseteq Slugs
  BY <1>1
<1>4. Absent \in Row /\ Absent.acct = NoAccount /\ ~Absent.ref /\ ~Absent.on /\ Absent.cred = 0
      /\ Absent.st = "none" /\ Absent.par = NoSlug
  BY DEF Absent, Row
<1>5. TypeOK
  BY <1>1, <1>2, <1>3, <1>4 DEF TypeOK, Links
<1>6. Typed
  BY <1>2, <1>5 DEF Typed, Calls, Idle, Single
<1>7. Current /\ Newest /\ Begun /\ Withdrawn /\ Behind
  BY <1>2, <1>4
  DEF Current, Newest, Begun, Whole, Withdrawn, Deleted, Behind, TestRenewed, CheckRenewed, Idle,
  Single
<1>8. InOneHand
  BY <1>2 DEF InOneHand, Idle
<1>. QED
  BY <1>6, <1>7, <1>8 DEF Inv

LEMMA NextKeeps == ASSUME Inv, [Next]_vars PROVE Inv'
<1>1. ASSUME NEW s \in apps, Authorize(s)
      PROVE  Inv'
  BY <1>1, StartKeeps, OAuthCallbackKeeps, AskReuseKeeps, ConnectPluginKeeps, ConnectAgentKeeps,
     ConnectShopifyKeeps DEF Authorize
<1>2. ASSUME NEW s \in apps, Ask(s)
      PROVE  Inv'
  BY <1>2, AskTestKeeps, AskNativeTestKeeps, TestAgentKeeps, AskDisconnectKeeps DEF Ask
<1>3. ASSUME NEW s \in apps, Preflight(s) \/ PreflightNative(s) \/ Revalidate(s)
      PROVE  Inv'
  BY <1>3, PreflightKeeps, PreflightNativeKeeps, RevalidateKeeps
<1>4. ASSUME NEW s \in apps, NEW a \in DOMAIN remote, AskComplete(s, a) \/ AskSync(s, a)
      PROVE  Inv'
  BY <1>4, AskCompleteKeeps, AskSyncKeeps
<1>5. ASSUME NEW b \in Callbacks, NEW s \in apps, NEW n \in 1..MaxLinks,
             Backend[s] \in {"mcp", "meta"} /\ SpendLink(b, s, n)
      PROVE  Inv'
  BY <1>5, SpendLinkKeeps
<1>6. ASSUME NEW s \in apps, NEW n \in 1..MaxLinks, DenyGrant(s, n)
      PROVE  Inv'
  BY <1>6, DenyGrantKeeps
<1>7. ASSUME NEW b \in Callbacks, NEW s \in apps, NEW n \in 1..MaxLinks, NEW a \in DOMAIN remote,
             LockGrant(b, s, n, a)
      PROVE  Inv'
  BY <1>7, LockGrantKeeps
<1>8. ASSUME NEW b \in Callbacks, FinishAgent(b) \/ FinishMeta(b) \/ FinishGrant(b)
      PROVE  Inv'
  BY <1>8, FinishAgentKeeps, FinishMetaKeeps, FinishGrantKeeps
<1>9. ASSUME NEW a \in DOMAIN remote, Consent(a) \/ Expire(a)
      PROVE  Inv'
  <2>1. PICK x \in {"live", "expired"} :
          remote[a] \in {"free", "live", "expired"} /\ remote' = [remote EXCEPT ![a] = x]
    BY <1>9 DEF Consent, Expire
  <2>. QED
    BY <1>9, <2>1, RemoteKeeps DEF Consent, Expire, links, ends
<1>10. CASE Commit
  BY <1>10, ActivateFamilyKeeps, SyncKeeps, TestKeeps, NativeTestKeeps, DisconnectKeeps DEF Commit
<1>11. CASE RecordPreflight \/ Crash
  BY <1>11, RecordPreflightKeeps, CrashKeeps
<1>12. CASE Fail \/ Heal
  BY <1>12, OutageKeeps DEF Fail, Heal, links, ends
<1>13. CASE UNCHANGED vars
  BY <1>13, OutageKeeps DEF vars
<1>. QED
  BY <1>1, <1>2, <1>3, <1>4, <1>5, <1>6, <1>7, <1>8, <1>9, <1>10, <1>11, <1>12, <1>13 DEF Next
-------------------------------------------------------------------------------
\* A reference to an account of its own is held by one row; so what steps do to the
\* routes of the account broker decides.
RoutesKept ==
  \A s \in apps : Backend[s] = "pipedream" /\ rows'[s].ref =>
    rows[s].ref /\ rows'[s].acct = rows[s].acct

LEMMA OneHolderKept == ASSUME Inv', OneHolder, RoutesKept, apps' = apps PROVE OneHolder'
<1>. USE ConnectionAssumption DEF ConnectionAssumption
<1>. SUFFICES ASSUME NEW r \in apps, NEW s \in apps, rows'[r].ref, rows'[s].ref,
                     rows'[r].acct = rows'[s].acct
              PROVE  r = s
  BY DEF OneHolder
<1>1. rows'[r].acct # NoAccount
  BY DEF Inv, Typed, TypeOK
<1>2. /\ Backend[r] \in Brokers /\ Backend[s] \in Brokers
      /\ At[rows'[r].acct] = Vendor[r] /\ At[rows'[s].acct] = Vendor[s]
  BY <1>1 DEF Inv, Current, Own
<1>3. r \in Slugs /\ s \in Slugs
  BY DEF Inv, Typed, TypeOK
<1>4. CASE Backend[r] = "pipedream" /\ Backend[s] = "pipedream"
  BY <1>4 DEF RoutesKept, OneHolder
<1>5. CASE r # s
  <2>1. Vendor[r] = Vendor[s]
    BY <1>2
  <2>2. {Backend[r], Backend[s]} \subseteq {"pipedream", "plugin"}
    BY <1>3, <1>5, <2>1
  <2>. QED
    BY <1>2, <1>4, <2>2 DEF Brokers
<1>. QED
  BY <1>5

\* Steps that change one row leave the routes of the account broker alone, or
\* their columns of the account.
LEMMA OneRowRoutes ==
  ASSUME Inv, NEW s \in apps, NEW row, rows' = [rows EXCEPT ![s] = row],
         Backend[s] = "pipedream" => row.ref = rows[s].ref /\ row.acct = rows[s].acct
  PROVE  RoutesKept
BY DEF RoutesKept, Inv, Typed, TypeOK

LEMMA OneHolderNext == ASSUME Inv, Inv', OneHolder, [Next]_vars PROVE OneHolder'
<1>1. apps' = apps
  BY DEF Next, Authorize, Ask, Commit, vars, Start, Reconnect, StartAgent, StartZernio, StartGrant,
     Issue, OAuthCallback, AskReuse, ConnectPlugin, ConnectAgent, ConnectShopify, AskTest,
     AskNativeTest, TestAgent, AskDisconnect, Preflight, PreflightNative, Revalidate, AskComplete,
     AskSync, SpendLink, DenyGrant, LockGrant, FinishAgent, FinishMeta, FinishGrant, EndExchange,
     Consent, Expire, ActivateFamily, Sync, Test, NativeTest, Disconnect, RecordPreflight, Crash,
     Fail, Heal
<1>2. CASE rows' = rows
  BY <1>1, <1>2, OneHolderKept DEF RoutesKept
<1>3. ASSUME NEW s \in apps, OAuthCallback(s)
      PROVE  RoutesKept
  BY <1>3 DEF OAuthCallback, RoutesKept, Inv, Typed, TypeOK, Row
<1>4. ASSUME NEW s \in apps, ConnectPlugin(s) \/ ConnectAgent(s) \/ ConnectShopify(s)
      PROVE  RoutesKept
  BY <1>4 DEF ConnectPlugin, ConnectAgent, ConnectShopify, RoutesKept, Inv, Typed, TypeOK
<1>5. ASSUME NEW s \in apps, TestAgent(s) \/ Revalidate(s)
      PROVE  RoutesKept
  BY <1>5 DEF TestAgent, Revalidate, RoutesKept, Inv, Typed, TypeOK
<1>6. ASSUME NEW b \in Callbacks, FinishAgent(b) \/ FinishMeta(b) \/ FinishGrant(b)
      PROVE  RoutesKept
  <2>1. back[b].kind # "idle" /\ back[b].s \in apps
    BY <1>6 DEF FinishAgent, FinishMeta, FinishGrant, EndExchange, Inv, Typed, Calls, Idle
  <2>2. Backend[back[b].s] # "pipedream"
    BY <1>6, <2>1 DEF FinishAgent, FinishMeta, FinishGrant, EndExchange, Inv, Typed
  <2>. QED
    BY <1>6, <2>1, <2>2 DEF FinishAgent, FinishMeta, FinishGrant, RoutesKept, Inv, Typed, TypeOK
<1>7. CASE Sync \/ NativeTest
  <2>1. req.s \in apps /\ Backend[req.s] # "pipedream"
    BY <1>7 DEF Sync, NativeTest, Inv, Typed, Single
  <2>. QED
    BY <1>1, <1>7, <2>1, OneHolderKept DEF Sync, NativeTest, RoutesKept, Inv, Typed, TypeOK
<1>8. CASE Test
  <2>1. PICK s, was, new :
          /\ s = req.s /\ was = req.rows[req.s]
          /\ new = [was EXCEPT !.st = Answer(req.verdict), !.ok = (req.verdict = "ok"),
                               !.on = (req.verdict = "ok"),
                               !.ref = @ \/ (Backend[s] = "nango" /\ req.verdict = "ok")]
    OBVIOUS
  <2>2. s \in apps /\ was \in Row /\ rows[s] \in Row
        /\ rows' = [rows EXCEPT ![s] = Save(rows[s], was, new)]
    BY <1>8, <2>1 DEF Test, Inv, Typed, TypeOK, Single
  <2>3. CASE Backend[s] = "pipedream"
    <3>1. new.acct = was.acct /\ (new.ref <=> was.ref)
      BY <2>1, <2>2, <2>3 DEF Row
    <3>2. new.ref \in BOOLEAN /\ was.ref \in BOOLEAN
      BY <2>1, <2>2 DEF Row
    <3>3. Save(rows[s], was, new).acct = rows[s].acct /\ Save(rows[s], was, new).ref = rows[s].ref
      BY <2>2, <3>1, <3>2 DEF Save, Row
    <3>. QED
      BY <1>1, <2>2, <3>3, OneRowRoutes, OneHolderKept
  <2>4. CASE Backend[s] # "pipedream"
    BY <1>1, <2>2, <2>4, OneRowRoutes, OneHolderKept
  <2>. QED
    BY <2>3, <2>4
<1>9. CASE RecordPreflight
  <2>1. PICK s, new : s = wk.s /\ new = Finding(wk.s, wk.row, wk.verdict, wk.cred)
    OBVIOUS
  <2>2. /\ s \in apps /\ wk.row \in Row /\ rows[s] \in Row
        /\ rows' = [rows EXCEPT ![s] = Save(rows[s], wk.row, new)]
    BY <1>9, <2>1 DEF RecordPreflight, Inv, Typed, TypeOK, Checks, Idle
  <2>3. new.acct = wk.row.acct /\ new.ref = wk.row.ref
    BY <2>1, <2>2 DEF Finding, Row
  <2>4. Save(rows[s], wk.row, new).acct = rows[s].acct
        /\ Save(rows[s], wk.row, new).ref = rows[s].ref
    BY <2>2, <2>3 DEF Save, Row
  <2>. QED
    BY <1>1, <2>2, <2>4, OneRowRoutes, OneHolderKept
<1>10. CASE Disconnect
  <2>1. RoutesKept
    BY <1>10, Disconnected DEF RoutesKept
  <2>. QED
    BY <1>1, <2>1, OneHolderKept
<1>11. CASE ActivateFamily
  <2>1. PICK s, a, family : s = req.s /\ a = req.a /\ family = Family(s)
    OBVIOUS
  <2>2. /\ s \in apps /\ s \in family /\ a \in Own(s) /\ a # NoAccount
        /\ \A r \in apps : r \notin family => rows'[r] = rows[r]
        /\ \A r \in family : rows'[r].acct = a /\ (rows'[r].ref <=> Holds(r, s, a))
    BY <1>11, <2>1, Activated, ConnectionAssumption
    DEF ConnectionAssumption, Own, Inv, Typed, TypeOK, Family
  <2>3. \A r \in apps : r \notin family => rows[r].acct # a
    <3>. SUFFICES ASSUME NEW r \in apps, rows[r].acct = a
                  PROVE  r \in family
      OBVIOUS
    <3>1. Vendor[r] = Vendor[s] /\ Backend[r] \in Brokers /\ r \in Slugs /\ s \in Slugs
      BY <2>2, ConnectionAssumption DEF ConnectionAssumption, Inv, Typed, TypeOK, Current, Own
    <3>2. r = s \/ Backend[r] \in {"pipedream", "plugin"}
      BY <3>1, ConnectionAssumption DEF ConnectionAssumption
    <3>. QED
      BY <2>1, <2>2, <3>1, <3>2 DEF Family, Brokers
  <2>. SUFFICES ASSUME NEW r \in apps, NEW q \in apps, rows'[r].ref, rows'[q].ref,
                       rows'[r].acct = rows'[q].acct
                PROVE  r = q
    BY <1>1 DEF OneHolder
  <2>4. CASE r \in family /\ q \in family
    BY <2>2, <2>4 DEF Holds
  <2>5. CASE r \notin family /\ q \notin family
    BY <2>2, <2>5 DEF OneHolder
  <2>6. CASE (r \in family) # (q \in family)
    BY <2>2, <2>3, <2>6
  <2>. QED
    BY <2>4, <2>5, <2>6
<1>. QED
  BY <1>1, <1>2, <1>3, <1>4, <1>5, <1>6, <1>7, <1>8, <1>9, <1>10, <1>11, OneHolderKept
  DEF Next, Authorize, Ask, Commit, vars, Start, Reconnect, StartAgent, StartZernio, StartGrant,
     Issue, AskReuse, AskTest, AskNativeTest, AskDisconnect, Preflight, PreflightNative,
     AskComplete, AskSync, SpendLink, DenyGrant, LockGrant, Consent, Expire, Crash, Fail, Heal
-------------------------------------------------------------------------------
\* The invariant, and that one route holds the broker's reference.
LEMMA Holding == Spec => [](Inv /\ OneHolder)
<1>1. Init => Inv /\ OneHolder
  BY InitHolds DEF Init, OneHolder, Absent
<1>2. Inv /\ OneHolder /\ [Next]_vars => (Inv /\ OneHolder)'
  BY NextKeeps, OneHolderNext
<1>. QED
  BY <1>1, <1>2, PTL DEF Spec

\* What a person has granted is neither lost nor given out twice, whatever routes,
\* plugins, accounts and callbacks a workspace has: one route holds the broker's
\* reference to an account (_activate_pipedream_account_family), a rotating grant
\* that was renewed is stored as the newest (test_connection, the preflight), and a
\* link is exchanged once (the callbacks of agents, Meta and zernio).
THEOREM GrantsAreKept == Spec => []GrantsKept
<1>1. Inv /\ OneHolder => GrantsKept
  <2>. SUFFICES ASSUME Inv, OneHolder PROVE GrantsKept
    OBVIOUS
  <2>1. TypeOK
    BY DEF Inv, Typed
  <2>2. RotatedGrantKept
    BY DEF RotatedGrantKept, Inv, Newest, TestRenewed, CheckRenewed, Idle
  <2>3. LinkSpentOnce
    BY DEF LinkSpentOnce, Inv, Typed, InOneHand
  <2>. QED
    BY <2>1, <2>2, <2>3 DEF GrantsKept
<1>. QED
  BY <1>1, Holding, PTL

\* A disconnection takes down everything that answers through the account: the
\* routes that share it and the plugins behind them (disconnect_connection), also
\* when tests, preflights, recoveries and callbacks have loaded those rows before
\* and commit after.
THEOREM DisconnectionTakesDown == Spec => []DisconnectedIsOff
<1>1. Inv => DisconnectedIsOff
  BY DEF DisconnectedIsOff, Inv, Withdrawn, Behind, Deleted, Idle
<1>. QED
  BY <1>1, Holding, PTL

\* A step that enables a connection that was revoked ends an authorization that a
\* person began, or is a request of a person.
LEMMA EnabledByPerson ==
  ASSUME Inv, [Next]_vars, NEW s \in apps, rows[s].st = "revoked", ~rows[s].on, rows'[s].on
  PROVE  s \in fresh' \/ Commit \/ ConnectPlugin(s)
<1>1. CASE rows' = rows
  BY <1>1
<1>2. ASSUME NEW r \in apps, OAuthCallback(r)
      PROVE  s \in fresh'
  <2>1. r = s
    BY <1>2 DEF OAuthCallback, Inv, Typed, TypeOK
  <2>2. s \in fresh
    BY <1>2, <2>1 DEF OAuthCallback, Inv, Typed, Begun
  <2>. QED
    BY <1>2, <2>2 DEF OAuthCallback
<1>3. ASSUME NEW r \in apps, ConnectAgent(r) \/ ConnectShopify(r)
      PROVE  s \in fresh'
  BY <1>3 DEF ConnectAgent, ConnectShopify, Inv, Typed, TypeOK
<1>4. ASSUME NEW r \in apps, ConnectPlugin(r)
      PROVE  ConnectPlugin(s)
  <2>1. r = s
    BY <1>4 DEF ConnectPlugin, Inv, Typed, TypeOK
  <2>. QED
    BY <1>4, <2>1
\* A test of an agent reads with its grant, which only an enabled row has.
<1>5. ASSUME NEW r \in apps
      PROVE  ~TestAgent(r)
  <2>. SUFFICES ASSUME TestAgent(r) PROVE FALSE
    OBVIOUS
  <2>1. r = s
    BY DEF TestAgent, Inv, Typed, TypeOK
  <2>2. rows[s].cred = 0 /\ rows[s] \in Row
    BY <2>1 DEF TestAgent, Inv, Typed, TypeOK, Begun, Whole
  <2>3. AgentVerdict(s) # "ok"
    BY <2>2 DEF AgentVerdict
  <2>. QED
    BY <2>1, <2>2, <2>3 DEF TestAgent, Inv, Typed, TypeOK, Row
<1>6. ASSUME NEW r \in apps
      PROVE  ~Revalidate(r)
  BY DEF Revalidate, Inv, Typed, TypeOK
<1>7. ASSUME NEW b \in Callbacks, FinishAgent(b) \/ FinishMeta(b) \/ FinishGrant(b)
      PROVE  s \in fresh'
  <2>1. back[b].kind # "idle" /\ back[b].s \in apps
    BY <1>7 DEF FinishAgent, FinishMeta, FinishGrant, EndExchange, Inv, Typed, Calls, Idle
  <2>2. back[b].s = s
    BY <1>7, <2>1 DEF FinishAgent, FinishMeta, FinishGrant, Inv, Typed, TypeOK
  <2>. QED
    BY <1>7, <2>1, <2>2 DEF FinishAgent, FinishMeta, FinishGrant, EndExchange, ends, Inv, Begun
\* A preflight has loaded an enabled row: what it stores is that it is off.
<1>8. ~RecordPreflight
  <2>. SUFFICES ASSUME RecordPreflight PROVE FALSE
    OBVIOUS
  <2>1. PICK new : new = Finding(wk.s, wk.row, wk.verdict, wk.cred)
    OBVIOUS
  <2>2. /\ wk.s \in apps /\ wk.row \in Row /\ wk.row.on
        /\ rows' = [rows EXCEPT ![wk.s] = Save(rows[wk.s], wk.row, new)]
    BY <2>1 DEF RecordPreflight, Inv, Typed, Checks, Idle
  <2>3. wk.s = s /\ rows[s] \in Row
    BY <2>2 DEF Inv, Typed, TypeOK
  <2>4. new.on = wk.row.on \/ new.on = FALSE
    BY <2>1, <2>2 DEF Finding, Row
  <2>5. Save(rows[s], wk.row, new).on = IF new.on # wk.row.on THEN new.on ELSE rows[s].on
    BY <2>2, <2>3 DEF Save, Row
  <2>6. ~Save(rows[s], wk.row, new).on
    BY <2>4, <2>5
  <2>. QED
    BY <2>2, <2>3, <2>6 DEF Inv, Typed, TypeOK
<1>. QED
  BY <1>1, <1>2, <1>3, <1>4, <1>5, <1>6, <1>7, <1>8
  DEF Next, Authorize, Ask, vars, Start, Reconnect, StartAgent, StartZernio, StartGrant,
     Issue, AskReuse, AskTest, AskNativeTest, AskDisconnect, Preflight, PreflightNative,
     AskComplete, AskSync, SpendLink, DenyGrant, LockGrant, Consent, Expire, Crash, Fail, Heal

\* What a person has revoked comes back by a person: an authorization that was begun
\* or under way since, a request, or connect of wordpress_plugins.  No preflight, no
\* recovery and no test of an agent enables it, whatever they had loaded.
THEOREM RevokedComesBackByPerson == Spec => RevokedStaysOff
<1>1. Inv /\ [Next]_vars =>
        [\A s \in apps : rows[s].st = "revoked" /\ ~rows[s].on /\ rows'[s].on =>
           s \in fresh' \/ Commit \/ ConnectPlugin(s)]_vars
  BY EnabledByPerson
<1>2. Spec => []Inv
  BY Holding, PTL
<1>. QED
  BY <1>1, <1>2, PTL DEF Spec, RevokedStaysOff
-------------------------------------------------------------------------------
(***************************************************************************)
(* The catalog of the connector engineer stays in order, and a released    *)
(* version keeps its place until a proved one takes it, for any number of  *)
(* definitions, apps and processes and any outages, crashes, rotations.    *)
(*                                                                         *)
(* The argument.  A rollback brings a superseded version back unread, so   *)
(* what has passed a canary must be known of those too, not only of what   *)
(* is offered.  A scan that has no leader, or has left the pipedream       *)
(* plane, holds no request, so nothing is lost when the next one begins.   *)
(* The stored count of failures never runs ahead of the failures.          *)
(***************************************************************************)

\* Every version that was ever released, and is signed, has passed a canary.
EverReleased(d) == rel[d].st \in {"released", "superseded"} /\ rel[d].signed
WasProved == \A d \in Defs : EverReleased(d) => d \in proved

\* What a scan holds, and when.
ScanHolds ==
  /\ scan.plane = "pipedream" => scan.by \in Replicas
  /\ scan.plane # "pipedream" => scan.asked = {}
  /\ scan.by = NoReplica => scan.plane = "none"
  /\ "pipedream" \notin configured => wanted = {}

\* The stage of a canary is left before the transaction ends.
NoneInCanary == \A d \in Defs : rel[d].st # "canary"

\* The stored count of failures is a lower bound of the failures.
CountNotAhead == \A d \in Defs : rel[d].bad <= failed[d]

\* One version of the connector, and of an app the newest, is released.
OneVersion == \A d, e \in Defs : rel[d].st = "released" /\ rel[e].st = "released" => d = e
NewestPack == \A p \in Apps : \A i \in 1..Len(packs[p]) :
                packs[p][i].st = "released" <=> i = Len(packs[p])

RowsOK == rel \in [Defs -> Release] /\ proved \subseteq Defs /\ failed \in [Defs -> 0..Threshold]

ReleaseInv ==
  /\ ReleaseTypeOK /\ packs \in [Apps -> Seq(Pack)]
  /\ OneVersion /\ NewestPack /\ WasProved /\ RequestNotLost /\ ScanHolds
  /\ NoneInCanary /\ CountNotAhead

\* What LastGoodStays says of a step.
GivesWay ==
  \A d \in Defs : rel[d].st = "released" /\ rel'[d].st # "released" =>
    \/ failed'[d] >= Threshold
    \/ \E e \in Defs \ {d} : rel'[e].st = "released" /\ failed'[e] = 0 /\ e \in proved'

LEMMA InvImplies == ReleaseInv => CatalogInOrder
BY DEF ReleaseInv, CatalogInOrder, OneRelease, OneVersion, NewestPack, OfferedWasProved, WasProved,
       EverReleased, Released
-------------------------------------------------------------------------------
\* The rows of a connector

LEMMA StampedIsRelease == Stamped \in Release /\ Stamped.st = "isolated" /\ Stamped.bad = 0
<1>1. 0 \in 0..Threshold
  BY ReleaseAssumption DEF ReleaseAssumption
<1>2. NotCompiled \in Release /\ NotCompiled.bad = 0
  BY <1>1 DEF NotCompiled, Release, Stages
<1>. QED
  BY <1>2 DEF Stamped, Release, Stages

\* Looking at a definition stores it, when it was not seen before.
LEMMA IsolatedRows ==
  ASSUME ReleaseTypeOK, NEW d \in Defs
  PROVE  /\ Isolated(d) \in [Defs -> Release]
         /\ \A e \in Defs \ {d} : Isolated(d)[e] = rel[e]
         /\ rel[d].st # "none" => Isolated(d) = rel
         /\ rel[d].st = "none" => Isolated(d)[d] = Stamped
BY StampedIsRelease DEF ReleaseTypeOK, Isolated

\* A promotion leaves one released version; those that give way were released.
LEMMA PromotedRows ==
  ASSUME NEW tab \in [Defs -> Release], NEW d \in Defs
  PROVE  /\ Promoted(tab, d) \in [Defs -> Release]
         /\ Promoted(tab, d)[d].st = "released" /\ Promoted(tab, d)[d].bad = 0
         /\ Promoted(tab, d)[d].signed = tab[d].signed
         /\ \A e \in Defs \ {d} :
              /\ Promoted(tab, d)[e].bad = tab[e].bad
              /\ Promoted(tab, d)[e].signed = tab[e].signed
              /\ Promoted(tab, d)[e].st = IF tab[e].st = "released" THEN "superseded"
                                           ELSE tab[e].st
<1> DEFINE current == {e \in Defs \ {d} : tab[e].st = "released"}
<1>1. current # {} => (CHOOSE c \in current : TRUE) \in Defs
  OBVIOUS
<1>2. (IF current = {} THEN tab[d].prev ELSE CHOOSE c \in current : TRUE) \in Defs \cup {NoDef}
  BY <1>1 DEF Release
<1>3. Promoted(tab, d) =
        [e \in Defs |->
           IF e = d THEN [tab[d] EXCEPT !.st = "released", !.bad = 0, !.due = FALSE,
                            !.prev = IF current = {} THEN @ ELSE CHOOSE c \in current : TRUE]
           ELSE IF e \in current THEN [tab[e] EXCEPT !.st = "superseded"] ELSE tab[e]]
  BY DEF Promoted
<1>4. 0 \in 0..Threshold
  BY ReleaseAssumption DEF ReleaseAssumption
<1>. HIDE DEF current
<1>5. [tab[d] EXCEPT !.st = "released", !.bad = 0, !.due = FALSE,
         !.prev = IF current = {} THEN @ ELSE CHOOSE c \in current : TRUE] \in Release
  BY <1>2, <1>4 DEF Release, Stages
<1>6. \A e \in Defs : [tab[e] EXCEPT !.st = "superseded"] \in Release
  BY DEF Release, Stages
<1>7. Promoted(tab, d) \in [Defs -> Release]
  BY <1>3, <1>5, <1>6
<1>8. /\ Promoted(tab, d)[d].st = "released" /\ Promoted(tab, d)[d].bad = 0
      /\ Promoted(tab, d)[d].signed = tab[d].signed
  BY <1>3 DEF Release
<1>9. ASSUME NEW e \in Defs \ {d}
      PROVE  /\ Promoted(tab, d)[e].bad = tab[e].bad
             /\ Promoted(tab, d)[e].signed = tab[e].signed
             /\ Promoted(tab, d)[e].st = IF tab[e].st = "released" THEN "superseded"
                                          ELSE tab[e].st
  <2>1. e \in current <=> tab[e].st = "released"
    BY DEF current
  <2>2. Promoted(tab, d)[e] = IF e \in current THEN [tab[e] EXCEPT !.st = "superseded"]
                               ELSE tab[e]
    BY <1>3
  <2>. QED
    BY <2>1, <2>2 DEF Release
<1>. QED
  BY <1>7, <1>8, <1>9

\* A rollback takes the released version down, and may bring back one that is
\* signed and superseded; otherwise nothing is stored.
LEMMA RolledBackRows ==
  ASSUME NEW tab \in [Defs -> Release], NEW d \in Defs
  PROVE  \/ RolledBack(tab, d) = rel
         \/ /\ RolledBack(tab, d) \in [Defs -> Release]
            /\ \A e \in Defs : /\ RolledBack(tab, d)[e].bad = tab[e].bad
                               /\ RolledBack(tab, d)[e].signed = tab[e].signed
            /\ \/ /\ RolledBack(tab, d)[d].st \in {"quarantined", "rolled_back"}
                  /\ \A e \in Defs \ {d} : RolledBack(tab, d)[e].st = tab[e].st
               \/ \E prev \in Defs :
                    /\ tab[prev].signed /\ tab[prev].st \in {"canary", "superseded", "released"}
                    /\ RolledBack(tab, d)[prev].st = "released"
                    /\ prev # d => RolledBack(tab, d)[d].st = "rolled_back"
                    /\ \A e \in Defs \ {d, prev} : RolledBack(tab, d)[e].st = tab[e].st
<1> DEFINE prev == tab[d].prev
           gone == IF prev = NoDef THEN "quarantined" ELSE "rolled_back"
           left == [tab EXCEPT ![d].st = gone]
           kept == [left EXCEPT ![prev].st = "released"]
<1>1. RolledBack(tab, d) = IF prev = NoDef \/ ~tab[prev].signed THEN left
                            ELSE IF MayBecome(tab[prev], "released") THEN kept ELSE rel
  BY DEF RolledBack
<1>2. prev \in Defs \cup {NoDef} /\ gone \in {"quarantined", "rolled_back"}
  BY DEF Release
<1>3. /\ left \in [Defs -> Release] /\ left[d].st = gone
      /\ \A e \in Defs : left[e].bad = tab[e].bad /\ left[e].signed = tab[e].signed
      /\ \A e \in Defs \ {d} : left[e].st = tab[e].st
  <2>. HIDE DEF gone, prev
  <2>1. [tab[d] EXCEPT !.st = gone] \in Release
    BY <1>2 DEF Release, Stages
  <2>. QED
    BY <2>1 DEF Release
<1>4. CASE prev = NoDef \/ ~tab[prev].signed
  BY <1>1, <1>2, <1>3, <1>4
<1>5. CASE prev # NoDef /\ tab[prev].signed /\ MayBecome(tab[prev], "released")
  <2>. HIDE DEF gone, prev, left
  <2>1. prev \in Defs
    BY <1>2, <1>5
  <2>2. tab[prev].st \in {"canary", "superseded", "released"}
    <3>1. tab[prev].st \in Stages
      BY <2>1 DEF Release
    <3>. QED
      BY <1>5, <3>1 DEF MayBecome, AllowedTransitions, Stages
  <2>3. /\ kept \in [Defs -> Release] /\ kept[prev].st = "released"
        /\ \A e \in Defs : kept[e].bad = tab[e].bad /\ kept[e].signed = tab[e].signed
        /\ \A e \in Defs \ {prev} : kept[e].st = left[e].st
    <3>1. [left[prev] EXCEPT !.st = "released"] \in Release
      BY <1>3, <2>1 DEF Release, Stages
    <3>. QED
      BY <1>3, <2>1, <3>1 DEF Release
  <2>4. RolledBack(tab, d) = kept /\ gone = "rolled_back"
    BY <1>1, <1>5 DEF gone
  <2>. QED
    BY <1>3, <1>5, <2>1, <2>2, <2>3, <2>4
<1>6. CASE ~(prev = NoDef \/ ~tab[prev].signed) /\ ~MayBecome(tab[prev], "released")
  BY <1>1, <1>6
<1>. QED
  BY <1>4, <1>5, <1>6

\* The rows once the definition that is deployed has been looked at.
LEMMA Looked ==
  ASSUME ReleaseInv, NEW d \in Defs
  PROVE  LET tab == Isolated(d)
         IN /\ tab \in [Defs -> Release]
            /\ \A e \in Defs :
                 /\ tab[e].st # "isolated" => tab[e] = rel[e]
                 /\ rel[e].st # "none" => tab[e] = rel[e]
                 /\ tab[e].bad <= failed[e]
<1>1. ReleaseTypeOK /\ rel \in [Defs -> Release] /\ failed \in [Defs -> 0..Threshold]
  BY DEF ReleaseInv, ReleaseTypeOK
<1>2. \A e \in Defs : rel[e].bad <= failed[e] /\ 0 <= failed[e]
  BY <1>1 DEF ReleaseInv, CountNotAhead
<1>3. CASE rel[d].st = "none"
  BY <1>1, <1>2, <1>3, IsolatedRows, StampedIsRelease
<1>4. CASE rel[d].st # "none"
  BY <1>1, <1>2, <1>4, IsolatedRows
<1>. QED
  BY <1>3, <1>4

\* A step that makes nothing released, and takes a release down only after the
\* last failure it is allowed.
LEMMA Settled ==
  ASSUME ReleaseInv, NEW d \in Defs, RowsOK', proved \subseteq proved',
         \A e \in Defs \ {d} :
           /\ rel'[e].st = Isolated(d)[e].st /\ rel'[e].signed = Isolated(d)[e].signed
           /\ rel'[e].bad = Isolated(d)[e].bad /\ failed'[e] = failed[e],
         rel'[d].st = "released" => rel[d].st = "released",
         rel[d].st = "released" /\ rel'[d].st # "released" => failed'[d] >= Threshold,
         EverReleased(d)' => d \in proved',
         rel'[d].bad <= failed'[d], rel'[d].st # "canary"
  PROVE  OneVersion' /\ WasProved' /\ NoneInCanary' /\ CountNotAhead' /\ GivesWay
<1>1. \A e \in Defs \ {d} : Isolated(d)[e] = rel[e]
  BY IsolatedRows DEF ReleaseInv
<1>2. OneVersion' /\ NoneInCanary'
  BY <1>1 DEF ReleaseInv, OneVersion, NoneInCanary
<1>3. WasProved'
  BY <1>1 DEF ReleaseInv, WasProved, EverReleased
<1>4. CountNotAhead' /\ GivesWay
  BY <1>1 DEF ReleaseInv, CountNotAhead, GivesWay
<1>. QED
  BY <1>2, <1>3, <1>4

\* A definition that is not released is promoted.
LEMMA GaveWay ==
  ASSUME ReleaseInv, NEW d \in Defs, rel[d].st # "released", Isolated(d)[d].signed,
         rel' = Promoted(Isolated(d), d), RowsOK', proved' = proved \cup {d},
         failed' = [failed EXCEPT ![d] = 0]
  PROVE  OneVersion' /\ WasProved' /\ NoneInCanary' /\ CountNotAhead' /\ GivesWay
<1> DEFINE tab == Isolated(d)
<1>1. tab \in [Defs -> Release] /\ \A e \in Defs \ {d} : tab[e] = rel[e]
  BY IsolatedRows DEF ReleaseInv
<1>2. /\ rel'[d].st = "released" /\ rel'[d].bad = 0
      /\ \A e \in Defs \ {d} :
           /\ rel'[e].bad = rel[e].bad /\ rel'[e].signed = rel[e].signed
           /\ rel'[e].st = IF rel[e].st = "released" THEN "superseded" ELSE rel[e].st
  BY <1>1, PromotedRows
<1>3. /\ failed'[d] = 0 /\ \A e \in Defs \ {d} : failed'[e] = failed[e]
      /\ failed \in [Defs -> 0..Threshold]
  BY DEF ReleaseInv, ReleaseTypeOK
<1>4. OneVersion' /\ NoneInCanary'
  BY <1>2 DEF ReleaseInv, OneVersion, NoneInCanary
<1>5. WasProved'
  BY <1>2 DEF ReleaseInv, WasProved, EverReleased
<1>6. CountNotAhead' /\ GivesWay
  BY <1>2, <1>3 DEF ReleaseInv, CountNotAhead, GivesWay
<1>. QED
  BY <1>4, <1>5, <1>6

\* The released definition fails once too often.
LEMMA CameBack ==
  ASSUME ReleaseInv, NEW d \in Defs, rel[d].st = "released",
         NEW counted \in [Defs -> Release], rel' = RolledBack(counted, d),
         \A e \in Defs : counted[e].st = rel[e].st /\ counted[e].signed = rel[e].signed
                         /\ counted[e].bad <= failed'[e] /\ failed[e] <= failed'[e],
         RowsOK', proved' = proved, failed'[d] >= Threshold
  PROVE  OneVersion' /\ WasProved' /\ NoneInCanary' /\ CountNotAhead' /\ GivesWay
<1>1. \A e \in Defs : rel[e].bad \in Nat /\ counted[e].bad \in Nat /\ failed[e] \in Nat
                      /\ failed'[e] \in Nat /\ rel[e].bad <= failed[e]
  BY DEF ReleaseInv, ReleaseTypeOK, RowsOK, Release, CountNotAhead
<1>2. CASE rel' = rel
  BY <1>1, <1>2 DEF ReleaseInv, OneVersion, WasProved, EverReleased, NoneInCanary, CountNotAhead,
     GivesWay
<1>3. CASE rel' # rel
  <2>1. \A e \in Defs : rel'[e].bad = counted[e].bad /\ rel'[e].signed = rel[e].signed
    BY <1>3, RolledBackRows
  <2>2. CASE /\ rel'[d].st \in {"quarantined", "rolled_back"}
             /\ \A e \in Defs \ {d} : rel'[e].st = rel[e].st
    BY <1>1, <2>1, <2>2 DEF ReleaseInv, OneVersion, WasProved, EverReleased, NoneInCanary,
       CountNotAhead, GivesWay
  <2>3. ASSUME NEW prev \in Defs, rel[prev].signed,
               rel[prev].st \in {"canary", "superseded", "released"},
               rel'[prev].st = "released", prev # d => rel'[d].st = "rolled_back",
               \A e \in Defs \ {d, prev} : rel'[e].st = rel[e].st
        PROVE  OneVersion' /\ WasProved' /\ NoneInCanary' /\ CountNotAhead' /\ GivesWay
    <3>1. rel[prev].st \in {"superseded", "released"} /\ prev \in proved
      BY <2>3 DEF ReleaseInv, NoneInCanary, WasProved, EverReleased
    <3>2. OneVersion' /\ NoneInCanary'
      <4>1. \A e \in Defs : rel[e].st = "released" => e = d
        BY DEF ReleaseInv, OneVersion
      <4>2. \A e \in Defs : rel'[e].st = "released" => e = prev
        BY <2>3, <4>1
      <4>3. \A e \in Defs : rel'[e].st # "canary"
        BY <2>3 DEF ReleaseInv, NoneInCanary
      <4>. QED
        BY <4>2, <4>3 DEF OneVersion, NoneInCanary
    <3>3. WasProved'
      BY <2>1, <2>3, <3>1 DEF ReleaseInv, WasProved, EverReleased
    <3>4. CountNotAhead' /\ GivesWay
      BY <1>1, <2>1, <2>3 DEF ReleaseInv, OneVersion, CountNotAhead, GivesWay
    <3>. QED
      BY <3>2, <3>3, <3>4
  <2>. QED
    BY <1>3, <2>2, <2>3, RolledBackRows
<1>. QED
  BY <1>2, <1>3

\* One definition is engineered, whatever its canary answers.
LEMMA Engineered ==
  ASSUME ReleaseInv, NEW d \in Defs, NEW passed \in BOOLEAN, EngineerIntegration(d, passed)
  PROVE  RowsOK' /\ OneVersion' /\ WasProved' /\ NoneInCanary' /\ CountNotAhead' /\ GivesWay
<1> DEFINE tab == Isolated(d)
           good == CanaryRelease(tab[d], passed)
           bad  == IF tab[d].bad < Threshold THEN tab[d].bad + 1 ELSE Threshold
           counted == [tab EXCEPT ![d].bad = bad, ![d].due = FALSE]
<1> Threshold \in Nat \ {0}
  BY ReleaseAssumption DEF ReleaseAssumption
<1>1. /\ rel \in [Defs -> Release] /\ proved \subseteq Defs /\ failed \in [Defs -> 0..Threshold]
      /\ ReleaseTypeOK
  BY DEF ReleaseInv, ReleaseTypeOK
<1>2. /\ tab \in [Defs -> Release] /\ tab[d] \in Release
      /\ \A e \in Defs \ {d} : tab[e] = rel[e]
      /\ rel[d].st = "none" => tab[d].st = "isolated"
      /\ rel[d].st # "none" => tab[d] = rel[d]
      /\ tab[d].bad <= failed[d] /\ tab[d].st # "canary"
      /\ tab[d].st \in {"released", "superseded"} => rel[d].st # "none"
  BY <1>1, IsolatedRows, StampedIsRelease, Looked DEF ReleaseInv, NoneInCanary
<1>3. EverReleased(d) => d \in proved
  BY DEF ReleaseInv, WasProved
<1>. HIDE DEF tab, good
<1>4. CASE rel' = tab /\ UNCHANGED <<proved, failed>>
  <2>1. RowsOK'
    BY <1>1, <1>2, <1>4 DEF RowsOK
  <2>. QED
    BY <1>1, <1>2, <1>3, <1>4, <2>1, Settled DEF EverReleased, tab
<1>5. CASE /\ tab[d].st = "isolated" /\ rel' = [tab EXCEPT ![d].st = "awaiting_canary"]
           /\ UNCHANGED <<proved, failed>>
  <2>1. rel' \in [Defs -> Release] /\ rel'[d].st = "awaiting_canary" /\ rel'[d].bad = tab[d].bad
    BY <1>2, <1>5 DEF Release, Stages
  <2>. QED
    BY <1>1, <1>2, <1>5, <2>1, Settled DEF RowsOK, EverReleased, tab
<1>6. CASE /\ good /\ tab[d].st = "released"
           /\ rel' = [tab EXCEPT ![d].bad = 0, ![d].due = FALSE]
           /\ proved' = proved \cup {d} /\ failed' = [failed EXCEPT ![d] = 0]
  <2>1. /\ rel' \in [Defs -> Release] /\ rel'[d].st = "released" /\ rel'[d].bad = 0
        /\ failed' \in [Defs -> 0..Threshold]
    <3>1. 0 \in 0..Threshold
      OBVIOUS
    <3>2. [tab[d] EXCEPT !.bad = 0, !.due = FALSE] \in Release
      BY <1>2, <3>1 DEF Release
    <3>3. rel' = [tab EXCEPT ![d] = [tab[d] EXCEPT !.bad = 0, !.due = FALSE]]
      BY <1>2, <1>6 DEF Release
    <3>4. rel' \in [Defs -> Release] /\ rel'[d] = [tab[d] EXCEPT !.bad = 0, !.due = FALSE]
      BY <1>2, <3>2, <3>3
    <3>5. rel'[d].st = "released" /\ rel'[d].bad = 0
      BY <1>2, <1>6, <3>4 DEF Release
    <3>. QED
      BY <1>1, <1>6, <3>1, <3>4, <3>5
  <2>. QED
    BY <1>1, <1>2, <1>6, <2>1, Settled DEF RowsOK, EverReleased, tab
<1>7. CASE /\ good /\ tab[d].st # "released" /\ rel' = Promoted(tab, d)
           /\ proved' = proved \cup {d} /\ failed' = [failed EXCEPT ![d] = 0]
  <2>1. rel' \in [Defs -> Release] /\ failed' \in [Defs -> 0..Threshold]
    BY <1>1, <1>2, <1>7, PromotedRows
  <2>2. rel[d].st # "released" /\ tab[d].signed
    BY <1>2, <1>7 DEF good, CanaryRelease
  <2>. QED
    BY <1>1, <1>7, <2>1, <2>2, GaveWay DEF RowsOK, tab
<1>8. CASE /\ ~good /\ rel' = FailedCanary(tab, d) /\ proved' = proved
           /\ failed' = [failed EXCEPT ![d] = IF @ < Threshold THEN @ + 1 ELSE @]
  <2>1. /\ failed' \in [Defs -> 0..Threshold] /\ bad \in 0..Threshold
        /\ failed'[d] = IF failed[d] < Threshold THEN failed[d] + 1 ELSE failed[d]
        /\ \A e \in Defs \ {d} : failed'[e] = failed[e]
    BY <1>1, <1>2, <1>8 DEF Release
  <2>2. bad <= failed'[d] /\ failed[d] <= failed'[d]
    BY <1>1, <1>2, <2>1 DEF Release
  <2>. HIDE DEF bad
  <2>3. /\ counted \in [Defs -> Release] /\ counted[d].st = tab[d].st /\ counted[d].bad = bad
        /\ counted[d].signed = tab[d].signed
        /\ \A e \in Defs \ {d} : counted[e] = tab[e]
    BY <1>2, <2>1 DEF Release
  <2>4. FailedCanary(tab, d) = IF rel[d].st # "released" THEN [counted EXCEPT ![d].st = "rejected"]
                                ELSE IF bad >= Threshold THEN RolledBack(counted, d) ELSE counted
    BY DEF FailedCanary, bad
  <2>. HIDE DEF counted
  <2>5. CASE rel[d].st # "released" /\ rel' = [counted EXCEPT ![d].st = "rejected"]
    <3>1. rel' \in [Defs -> Release] /\ rel'[d].st = "rejected" /\ rel'[d].bad = bad
      BY <2>3, <2>5 DEF Release, Stages
    <3>. QED
      BY <1>1, <1>2, <1>8, <2>1, <2>2, <2>3, <2>5, <3>1, Settled DEF RowsOK, EverReleased, tab
  <2>6. CASE rel[d].st = "released" /\ rel' = counted
    BY <1>1, <1>2, <1>3, <1>8, <2>1, <2>2, <2>3, <2>6, Settled DEF RowsOK, EverReleased, tab
  <2>7. CASE rel[d].st = "released" /\ bad >= Threshold /\ rel' = RolledBack(counted, d)
    <3>1. failed'[d] >= Threshold
      BY <2>1, <2>2, <2>7
    <3>2. \A e \in Defs : counted[e].st = rel[e].st /\ counted[e].signed = rel[e].signed
                           /\ counted[e].bad <= failed'[e] /\ failed[e] <= failed'[e]
      <4>1. ASSUME NEW e \in Defs \ {d}
            PROVE  /\ counted[e] = rel[e] /\ rel[e].bad <= failed[e] /\ failed'[e] = failed[e]
                   /\ failed[e] \in Nat
        BY <1>1, <1>2, <2>1, <2>3 DEF ReleaseInv, CountNotAhead
      <4>2. counted[d].st = rel[d].st /\ counted[d].signed = rel[d].signed
        BY <1>2, <2>3, <2>7
      <4>. QED
        BY <2>2, <2>3, <4>1, <4>2
    <3>3. rel' \in [Defs -> Release]
      BY <1>1, <2>3, <2>7, RolledBackRows
    <3>. QED
      BY <1>1, <1>8, <2>1, <2>3, <2>7, <3>1, <3>2, <3>3, CameBack DEF RowsOK
  <2>. QED
    BY <1>8, <2>4, <2>5, <2>6, <2>7
<1>9. \/ rel' = tab /\ UNCHANGED <<proved, failed>>
      \/ /\ tab[d].st = "isolated" /\ rel' = [tab EXCEPT ![d].st = "awaiting_canary"]
         /\ UNCHANGED <<proved, failed>>
      \/ /\ rel' = IF ~good THEN FailedCanary(tab, d)
                   ELSE IF tab[d].st = "released" THEN [tab EXCEPT ![d].bad = 0, ![d].due = FALSE]
                   ELSE Promoted(tab, d)
         /\ proved' = IF good THEN proved \cup {d} ELSE proved
         /\ failed' = [failed EXCEPT ![d] = IF good THEN 0 ELSE IF @ < Threshold THEN @ + 1 ELSE @]
  BY DEF EngineerIntegration, tab, good
<1>. QED
  BY <1>4, <1>5, <1>6, <1>7, <1>8, <1>9
-------------------------------------------------------------------------------
\* Scans, packs and requests

Connector == RowsOK /\ OneVersion /\ WasProved /\ NoneInCanary /\ CountNotAhead

\* The plane of the releases is left alone.
LEMMA ConnectorKept ==
  ASSUME ReleaseInv, UNCHANGED <<rel, proved, failed>>
  PROVE  Connector' /\ GivesWay
BY DEF ReleaseInv, ReleaseTypeOK, Connector, RowsOK, OneVersion, WasProved, EverReleased,
   NoneInCanary, CountNotAhead, GivesWay

\* An app that was asked for is in the scan, or in the queue of a process.
Waits == \A p \in wanted : p \in scan.asked \/ \E r \in Replicas : p \in pending[r]

LEMMA Bounds ==
  /\ MaxIncidents \in Nat /\ MaxDeploys \in Nat /\ NoReplica \notin Replicas
  /\ Contracts # {} /\ Configurations \subseteq SUBSET {"nango", "pipedream"}
BY ReleaseAssumption DEF ReleaseAssumption

\* What the rest of the state has to do for the invariant.
Shapes ==
  /\ configured \subseteq {"nango", "pipedream"} /\ stale \subseteq configured
  /\ fixture \in BOOLEAN /\ deployed \in Defs \cup {NoDef} /\ deploys \in 0..MaxDeploys
  /\ vendor \in [Apps -> Contracts] /\ pending \in [Replicas -> SUBSET Apps]
  /\ wake \in [Replicas -> BOOLEAN] /\ incidents \in 0..MaxIncidents /\ wanted \subseteq Apps
  /\ scan \in [by : Replicas \cup {NoReplica}, plane : {"none", "pipedream", "nango"},
               asked : SUBSET Apps]

Rest == Shapes /\ ScanHolds /\ Waits

Packed == packs \in [Apps -> Seq(Pack)] /\ NewestPack

LEMMA IncidentsUp ==
  ASSUME Shapes, incidents < MaxIncidents \/ incidents' = incidents,
         incidents' \in {incidents, incidents + 1}
  PROVE  incidents' \in 0..MaxIncidents
BY Bounds DEF Shapes

\* What is queued is in the queue, and nothing leaves it.
LEMMA Queued ==
  ASSUME Shapes, NEW r \in Replicas, NEW queued \in SUBSET Apps, Queue(r, queued)
  PROVE  /\ pending' \in [Replicas -> SUBSET Apps] /\ wake' \in [Replicas -> BOOLEAN]
         /\ queued \subseteq pending'[r] /\ \A q \in Replicas : pending[q] \subseteq pending'[q]
BY DEF Shapes, Queue

LEMMA Together == ReleaseInv <=> Connector /\ Rest /\ Packed
<1>1. packs \in [Apps -> Seq(Pack)] =>
        \A p \in Apps : \A i \in 1..Len(packs[p]) : packs[p][i] \in Pack
  BY LenProperties, ElementOfSeq
<1>. QED
  BY <1>1 DEF ReleaseInv, ReleaseTypeOK, Connector, RowsOK, Rest, Shapes, Waits, RequestNotLost,
     Packed

LEMMA TogetherNext == ReleaseInv' <=> Connector' /\ Rest' /\ Packed'
<1>1. packs' \in [Apps -> Seq(Pack)] =>
        \A p \in Apps : \A i \in 1..Len(packs'[p]) : packs'[p][i] \in Pack
  BY LenProperties, ElementOfSeq
<1>. QED
  BY <1>1 DEF ReleaseInv, ReleaseTypeOK, Connector, RowsOK, Rest, Shapes, Waits, RequestNotLost,
     Packed

LEMMA PacksKept == ASSUME Packed, UNCHANGED packs PROVE Packed'
BY DEF Packed, NewestPack

\* A certification adds the newest version, and supersedes the others.
LEMMA CertifiedIsNewest ==
  ASSUME Packed, NEW p \in Apps, vendor \in [Apps -> Contracts]
  PROVE  /\ Certified(p) \in Seq(Pack)
         /\ \A i \in 1..Len(Certified(p)) :
              Certified(p)[i].st = "released" <=> i = Len(Certified(p))
<1> DEFINE old == [i \in 1..Len(packs[p]) |-> [packs[p][i] EXCEPT !.st = "superseded"]]
           new == [k |-> Manifest(p), st |-> "released", signed |-> TRUE]
<1>1. packs[p] \in Seq(Pack) /\ \A i \in 1..Len(packs[p]) :
        packs[p][i].st = "released" <=> i = Len(packs[p])
  BY DEF Packed, NewestPack
<1>2. Certified(p) = packs[p] \/ Certified(p) = Append(old, new)
  BY DEF Certified
<1>3. old \in Seq(Pack) /\ Len(old) = Len(packs[p])
      /\ \A i \in 1..Len(old) : old[i].st = "superseded"
  <2>1. Len(packs[p]) \in Nat /\ \A i \in 1..Len(packs[p]) : packs[p][i] \in Pack
    BY <1>1, LenProperties, ElementOfSeq
  <2>2. \A i \in 1..Len(packs[p]) : [packs[p][i] EXCEPT !.st = "superseded"] \in Pack
    BY <2>1 DEF Pack
  <2>3. old \in Seq(Pack)
    BY <2>1, <2>2, IsASeq
  <2>4. Len(old) = Len(packs[p])
    BY <2>1, <2>3, LenProperties
  <2>. QED
    BY <2>1, <2>3, <2>4 DEF Pack
<1>4. new \in Pack
  BY DEF Pack, Manifest
<1>5. CASE Certified(p) = Append(old, new)
  <2>. HIDE DEF old, new
  <2>1. /\ Append(old, new) \in Seq(Pack) /\ Len(Append(old, new)) = Len(old) + 1
        /\ \A i \in 1..Len(old) : Append(old, new)[i] = old[i]
        /\ Append(old, new)[Len(old) + 1] = new
    BY <1>3, <1>4, AppendProperties
  <2>2. Len(old) \in Nat
    BY <1>3, LenProperties
  <2>3. new.st = "released"
    BY DEF new
  <2>. QED
    BY <1>3, <1>5, <2>1, <2>2, <2>3
<1>. QED
  BY <1>1, <1>2, <1>5

LEMMA NangoCatalogKeeps == ASSUME ReleaseInv, NangoCatalog PROVE ReleaseInv' /\ GivesWay
<1>1. Connector' /\ GivesWay
  <2>1. CASE UNCHANGED <<rel, proved, failed>>
    BY <2>1, ConnectorKept
  <2>2. ASSUME Compiled # NoDef, NEW passed \in BOOLEAN, EngineerIntegration(Compiled, passed)
        PROVE  Connector' /\ GivesWay
    <3>1. Compiled \in Defs
      BY <2>2 DEF ReleaseInv, ReleaseTypeOK, Compiled
    <3>. QED
      BY <2>2, <3>1, Engineered DEF Connector
  <2>. QED
    BY <2>1, <2>2 DEF NangoCatalog
<1>2. Rest /\ Packed
  BY Together
<1>3. Rest'
  <2>1. Shapes'
    <3>1. incidents' \in 0..MaxIncidents
      BY <1>2, IncidentsUp DEF NangoCatalog, Rest
    <3>2. stale' \subseteq stale /\ UNCHANGED <<configured, fixture, deployed, deploys, vendor,
                                               pending, wake, wanted>>
      BY DEF NangoCatalog
    <3>3. scan' = [by |-> NoReplica, plane |-> "none", asked |-> {}]
      BY DEF NangoCatalog, NoScan
    <3>. QED
      BY <1>2, <3>1, <3>2, <3>3 DEF Rest, Shapes
  <2>2. ScanHolds'
    BY <1>2 DEF NangoCatalog, NoScan, Rest, Shapes, ScanHolds
  <2>3. Waits'
    BY <1>2 DEF NangoCatalog, NoScan, Rest, ScanHolds, Waits
  <2>. QED
    BY <2>1, <2>2, <2>3 DEF Rest
<1>4. Packed'
  BY <1>2, PacksKept DEF NangoCatalog
<1>. QED
  BY <1>1, <1>3, <1>4, TogetherNext

LEMMA PipedreamCatalogKeeps == ASSUME ReleaseInv, PipedreamCatalog PROVE ReleaseInv' /\ GivesWay
<1>1. Connector' /\ GivesWay
  BY ConnectorKept DEF PipedreamCatalog, nango
<1>2. /\ Rest /\ Packed /\ Shapes /\ Waits /\ ScanHolds /\ scan.by \in Replicas
      /\ scan.asked \in SUBSET Apps
  BY Together DEF Rest, Shapes, ScanHolds, PipedreamCatalog
<1>3. /\ scan'.by = scan.by /\ scan'.plane = "nango" /\ scan'.asked = {}
      /\ scan' \in [by : Replicas \cup {NoReplica}, plane : {"none", "pipedream", "nango"},
                    asked : SUBSET Apps]
      /\ UNCHANGED <<configured, fixture, deployed, deploys, vendor>>
  BY <1>2 DEF PipedreamCatalog, nango, Shapes
<1>4. CASE "pipedream" \notin configured
  <2>1. UNCHANGED <<packs, pending, wake, wanted, stale, incidents>> /\ wanted = {}
    BY <1>2, <1>4 DEF PipedreamCatalog, ScanHolds
  <2>2. Shapes' /\ ScanHolds' /\ Waits'
    BY <1>2, <1>3, <2>1, Bounds DEF Shapes, ScanHolds, Waits
  <2>. QED
    BY <1>1, <1>2, <2>1, <2>2, PacksKept, TogetherNext DEF Rest
<1>5. CASE "pipedream" \in configured /\ ListFails
  <2>1. Queue(scan.by, scan.asked) /\ UNCHANGED <<packs, wanted, stale>>
    BY <1>5 DEF ListFails
  <2>2. incidents' \in 0..MaxIncidents
    BY <1>2, <1>5, IncidentsUp DEF ListFails
  <2>3. Shapes' /\ ScanHolds'
    BY <1>2, <1>3, <1>5, <2>1, <2>2, Bounds, Queued DEF Shapes, ScanHolds
  <2>4. Waits'
    BY <1>2, <1>3, <2>1, Queued DEF Waits
  <2>. QED
    BY <1>1, <1>2, <2>1, <2>3, <2>4, PacksKept, TogetherNext DEF Rest
<1>6. CASE "pipedream" \in configured /\ CertifyBatch
  <2>1. PICK batch \in Batches(scan.asked) : \E later, refused \in SUBSET batch :
          /\ later \cup refused = {} \/ incidents < MaxIncidents
          /\ packs' = [p \in Apps |-> IF p \in batch \ (later \cup refused)
                                      THEN Certified(p) ELSE packs[p]]
          /\ Queue(scan.by, (scan.asked \ batch) \cup later)
          /\ wanted' = wanted \ (batch \ later)
          /\ incidents' = IF later \cup refused = {} THEN incidents ELSE incidents + 1
          /\ stale' = stale \ {"pipedream"}
    BY <1>6 DEF CertifyBatch
  <2>2. PICK later \in SUBSET batch, refused \in SUBSET batch :
          /\ later \cup refused = {} \/ incidents < MaxIncidents
          /\ packs' = [p \in Apps |-> IF p \in batch \ (later \cup refused)
                                      THEN Certified(p) ELSE packs[p]]
          /\ Queue(scan.by, (scan.asked \ batch) \cup later)
          /\ wanted' = wanted \ (batch \ later)
          /\ incidents' = IF later \cup refused = {} THEN incidents ELSE incidents + 1
          /\ stale' = stale \ {"pipedream"}
    BY <2>1
  <2> DEFINE kept == (scan.asked \ batch) \cup later
  <2>3. kept \in SUBSET Apps
    BY <1>2 DEF Batches
  <2>4. /\ pending' \in [Replicas -> SUBSET Apps] /\ wake' \in [Replicas -> BOOLEAN]
        /\ kept \subseteq pending'[scan.by] /\ \A q \in Replicas : pending[q] \subseteq pending'[q]
    BY <1>2, <2>2, <2>3, Queued
  <2>5. incidents' \in 0..MaxIncidents
    BY <1>2, <2>2, IncidentsUp
  <2>6. Shapes' /\ ScanHolds'
    BY <1>2, <1>3, <1>6, <2>2, <2>4, <2>5, Bounds DEF Shapes, ScanHolds
  <2>7. Waits'
    BY <1>2, <1>3, <2>2, <2>4 DEF Waits
  <2>8. \A p \in Apps : packs'[p] = packs[p] \/ packs'[p] = Certified(p)
    BY <2>2
  <2>9. \A p \in Apps : packs'[p] \in Seq(Pack) /\ \A i \in 1..Len(packs'[p]) :
          packs'[p][i].st = "released" <=> i = Len(packs'[p])
    <3>1. SUFFICES ASSUME NEW p \in Apps
                   PROVE  /\ packs'[p] \in Seq(Pack)
                          /\ \A i \in 1..Len(packs'[p]) :
                               packs'[p][i].st = "released" <=> i = Len(packs'[p])
      OBVIOUS
    <3>2. CASE packs'[p] = packs[p]
      BY <1>2, <3>2 DEF Packed, NewestPack
    <3>3. CASE packs'[p] = Certified(p)
      BY <1>2, <3>3, CertifiedIsNewest DEF Shapes
    <3>. QED
      BY <2>8, <3>2, <3>3
  <2>10. packs' = [p \in Apps |-> packs'[p]]
    BY <2>2
  <2>11. Packed'
    BY <2>9, <2>10 DEF Packed, NewestPack
  <2>. QED
    BY <1>1, <2>6, <2>7, <2>11, TogetherNext DEF Rest
<1>. QED
  BY <1>4, <1>5, <1>6 DEF PipedreamCatalog

\* Every signature is gone, and the processes begin with empty queues.
LEMMA RotateKeyKeeps == ASSUME ReleaseInv, RotateKey PROVE ReleaseInv' /\ GivesWay
<1>1. Connector /\ Rest /\ Packed
  BY Together
<1>2. /\ rel' \in [Defs -> Release]
      /\ \A d \in Defs : /\ rel'[d].st = rel[d].st /\ rel'[d].bad = rel[d].bad
                         /\ rel'[d].signed = (rel[d].st = "none")
  BY <1>1 DEF Connector, RowsOK, RotateKey, Release
<1>3. Connector' /\ GivesWay
  <2>1. UNCHANGED <<proved, failed>>
    BY DEF RotateKey
  <2>2. OneVersion' /\ WasProved'
    BY <1>1, <1>2 DEF Connector, OneVersion, WasProved, EverReleased
  <2>3. RowsOK' /\ NoneInCanary' /\ CountNotAhead' /\ GivesWay
    BY <1>1, <1>2, <2>1 DEF Connector, RowsOK, NoneInCanary, CountNotAhead, GivesWay
  <2>. QED
    BY <2>2, <2>3 DEF Connector
<1>4. Rest'
  <2>1. Shapes'
    BY <1>1, Bounds DEF RotateKey, NoScan, Rest, Shapes
  <2>2. ScanHolds'
    BY <1>1 DEF RotateKey, NoScan, Rest, Shapes, ScanHolds
  <2>3. Waits'
    BY <1>1 DEF RotateKey, NoScan, Rest, ScanHolds, Waits
  <2>. QED
    BY <2>1, <2>2, <2>3 DEF Rest
<1>5. ASSUME NEW p \in Apps
      PROVE  /\ packs'[p] \in Seq(Pack)
             /\ \A i \in 1..Len(packs'[p]) : packs'[p][i].st = "released" <=> i = Len(packs'[p])
  <2>1. packs'[p] = [i \in 1..Len(packs[p]) |-> [packs[p][i] EXCEPT !.signed = FALSE]]
    BY DEF RotateKey
  <2>2. Len(packs[p]) \in Nat /\ \A i \in 1..Len(packs[p]) : packs[p][i] \in Pack
    BY <1>1, LenProperties, ElementOfSeq DEF Packed
  <2>3. \A i \in 1..Len(packs[p]) : [packs[p][i] EXCEPT !.signed = FALSE] \in Pack
    BY <2>2 DEF Pack
  <2>4. packs'[p] \in Seq(Pack)
    BY <2>1, <2>2, <2>3, IsASeq
  <2>5. Len(packs'[p]) = Len(packs[p])
    BY <2>1, <2>2, <2>4, LenProperties
  <2>6. \A i \in 1..Len(packs[p]) : packs'[p][i].st = packs[p][i].st
    BY <2>1, <2>2 DEF Pack
  <2>. QED
    BY <1>1, <2>4, <2>5, <2>6 DEF Packed, NewestPack
<1>6. packs' = [p \in Apps |-> packs'[p]]
  BY DEF RotateKey
<1>7. Packed'
  BY <1>5, <1>6 DEF Packed, NewestPack
<1>. QED
  BY <1>3, <1>4, <1>7, TogetherNext

\* A canary's evidence grows old.
LEMMA CanaryExpiresKeeps ==
  ASSUME ReleaseInv, NEW d \in Defs, CanaryExpires(d) PROVE ReleaseInv' /\ GivesWay
<1>1. Connector /\ Rest /\ Packed
  BY Together
<1>2. /\ rel' \in [Defs -> Release]
      /\ \A e \in Defs : /\ rel'[e].st = rel[e].st /\ rel'[e].bad = rel[e].bad
                         /\ rel'[e].signed = rel[e].signed
  BY <1>1 DEF Connector, RowsOK, CanaryExpires, Release
<1>3. Connector' /\ GivesWay
  BY <1>1, <1>2 DEF CanaryExpires, Connector, RowsOK, OneVersion, WasProved, EverReleased,
     NoneInCanary, CountNotAhead, GivesWay
<1>4. Rest'
  <2>1. Shapes'
    BY <1>1, Bounds DEF CanaryExpires, broker, Rest, Shapes
  <2>2. ScanHolds'
    BY <1>1 DEF CanaryExpires, broker, Rest, Shapes, ScanHolds
  <2>3. Waits'
    BY <1>1 DEF CanaryExpires, broker, Rest, ScanHolds, Waits
  <2>. QED
    BY <2>1, <2>2, <2>3 DEF Rest
<1>5. Packed'
  BY <1>1, PacksKept DEF CanaryExpires, broker
<1>. QED
  BY <1>3, <1>4, <1>5, TogetherNext

\* The other steps leave the versions and the packs alone.
LEMMA OthersKeep ==
  ASSUME ReleaseInv, UNCHANGED <<rel, proved, failed, packs>>, Rest'
  PROVE  ReleaseInv' /\ GivesWay
BY ConnectorKept, PacksKept, Together, TogetherNext

LEMMA BeginScanRest ==
  ASSUME Rest, NEW r \in Replicas, NEW force \in BOOLEAN, BeginScan(r, force),
         wake' = wake \/ wake' = [wake EXCEPT ![r] = FALSE]
  PROVE  Rest'
<1>1. scan.by = NoReplica /\ scan.asked = {}
  BY DEF BeginScan, Rest, ScanHolds
<1>2. /\ scan' = [by |-> r, plane |-> "pipedream", asked |-> pending[r]]
      /\ pending' = [pending EXCEPT ![r] = {}]
  BY DEF BeginScan
<1>3. Waits'
  BY <1>1, <1>2 DEF BeginScan, Rest, Shapes, Waits, broker
<1>4. Shapes'
  <2>1. pending[r] \in SUBSET Apps /\ pending' \in [Replicas -> SUBSET Apps]
    BY <1>2 DEF Rest, Shapes
  <2>2. scan' \in [by : Replicas \cup {NoReplica}, plane : {"none", "pipedream", "nango"},
                  asked : SUBSET Apps]
    BY <1>2, <2>1
  <2>. QED
    BY <2>1, <2>2 DEF BeginScan, Rest, Shapes, nango, broker
<1>5. ScanHolds'
  BY <1>2, Bounds DEF BeginScan, Rest, Shapes, ScanHolds, broker
<1>. QED
  BY <1>3, <1>4, <1>5 DEF Rest

\* Each step keeps the invariant, and takes a released version down only for a
\* proved one or after its failures.
LEMMA StepKeeps == ASSUME ReleaseInv, [ReleaseNext]_releaseVars PROVE ReleaseInv' /\ GivesWay
<1> USE DEF nango, broker
<1>1. Rest
  BY Together
<1>2. CASE NangoCatalog
  BY <1>2, NangoCatalogKeeps
<1>3. CASE PipedreamCatalog
  BY <1>3, PipedreamCatalogKeeps
<1>4. CASE IntervalPasses
  <2>1. Rest'
    <3>1. Shapes'
      BY <1>1, <1>4, Bounds DEF IntervalPasses, Rest, Shapes
    <3>2. ScanHolds'
      BY <1>1, <1>4 DEF IntervalPasses, Rest, Shapes, ScanHolds
    <3>3. Waits'
      BY <1>1, <1>4 DEF IntervalPasses, Rest, ScanHolds, Waits
    <3>. QED
      BY <3>1, <3>2, <3>3 DEF Rest
  <2>. QED
    BY <1>4, <2>1, OthersKeep DEF IntervalPasses
<1>5. CASE AddFixture
  <2>1. Rest'
    <3>1. Shapes'
      BY <1>1, <1>5, Bounds DEF AddFixture, Rest, Shapes
    <3>2. ScanHolds'
      BY <1>1, <1>5 DEF AddFixture, Rest, Shapes, ScanHolds
    <3>3. Waits'
      BY <1>1, <1>5 DEF AddFixture, Rest, ScanHolds, Waits
    <3>. QED
      BY <3>1, <3>2, <3>3 DEF Rest
  <2>. QED
    BY <1>5, <2>1, OthersKeep DEF AddFixture
<1>6. CASE RotateKey
  BY <1>6, RotateKeyKeeps
<1>7. ASSUME NEW r \in Replicas, Tick(r) PROVE ReleaseInv' /\ GivesWay
  <2>1. Rest'
    BY <1>1, <1>7, BeginScanRest DEF Tick
  <2>. QED
    BY <1>7, <2>1, OthersKeep DEF Tick, BeginScan
<1>8. ASSUME NEW r \in Replicas, IdleTick(r) PROVE ReleaseInv' /\ GivesWay
  <2>1. Rest'
    <3>1. Shapes'
      BY <1>1, <1>8, Bounds DEF IdleTick, Rest, Shapes
    <3>2. ScanHolds'
      BY <1>1, <1>8 DEF IdleTick, Rest, Shapes, ScanHolds
    <3>3. Waits'
      BY <1>1, <1>8 DEF IdleTick, Rest, ScanHolds, Waits
    <3>. QED
      BY <3>1, <3>2, <3>3 DEF Rest
  <2>. QED
    BY <1>8, <2>1, OthersKeep DEF IdleTick
<1>9. ASSUME NEW r \in Replicas, ScanNow(r) PROVE ReleaseInv' /\ GivesWay
  <2>1. Rest'
    BY <1>1, <1>9, BeginScanRest DEF ScanNow
  <2>. QED
    BY <1>9, <2>1, OthersKeep DEF ScanNow, BeginScan
<1>10. ASSUME NEW r \in Replicas, ReplicaDies(r) PROVE ReleaseInv' /\ GivesWay
  <2>1. Rest'
    <3>1. Shapes'
      BY <1>1, <1>10, Bounds DEF ReplicaDies, NoScan, Rest, Shapes
    <3>2. ScanHolds'
      BY <1>1, <1>10, ReleaseAssumption
         DEF ReplicaDies, NoScan, ReleaseAssumption, Rest, Shapes, ScanHolds
    <3>3. Waits'
      BY <1>1, <1>10, ReleaseAssumption DEF ReplicaDies, NoScan, ReleaseAssumption, Rest, ScanHolds,
                                               Waits
    <3>. QED
      BY <3>1, <3>2, <3>3 DEF Rest
  <2>. QED
    BY <1>10, <2>1, OthersKeep DEF ReplicaDies
<1>11. ASSUME NEW r \in Replicas, NEW p \in Apps, Search(r, p) PROVE ReleaseInv' /\ GivesWay
  <2>1. Rest'
    <3>1. Shapes'
      BY <1>1, <1>11, Bounds DEF Search, Queue, Rest, Shapes
    <3>2. ScanHolds'
      BY <1>1, <1>11 DEF Search, Queue, Rest, Shapes, ScanHolds
    <3>3. Waits'
      <4>1. {p} \in SUBSET Apps /\ Queue(r, {p}) /\ wanted' = wanted \cup {p} /\ scan' = scan
        BY <1>11 DEF Search
      <4>. QED
        BY <1>1, <4>1, Queued DEF Rest, Waits
    <3>. QED
      BY <3>1, <3>2, <3>3 DEF Rest
  <2>. QED
    BY <1>11, <2>1, OthersKeep DEF Search
<1>12. ASSUME NEW d \in Defs, CanaryExpires(d) PROVE ReleaseInv' /\ GivesWay
  BY <1>12, CanaryExpiresKeeps
<1>13. ASSUME NEW d \in Defs, Deploy(d) PROVE ReleaseInv' /\ GivesWay
  <2>1. Rest'
    <3>1. Shapes'
      BY <1>1, <1>13, Bounds DEF Deploy, Rest, Shapes
    <3>2. ScanHolds'
      BY <1>1, <1>13, ReleaseAssumption DEF Deploy, Rest, Shapes, ScanHolds
    <3>3. Waits'
      BY <1>1, <1>13, ReleaseAssumption DEF Deploy, Rest, ScanHolds, Waits
    <3>. QED
      BY <3>1, <3>2, <3>3 DEF Rest
  <2>. QED
    BY <1>13, <2>1, OthersKeep DEF Deploy
<1>14. ASSUME NEW p \in Apps, NEW k \in Contracts, VendorChanges(p, k) PROVE ReleaseInv' /\ GivesWay
  <2>1. Rest'
    <3>1. Shapes'
      BY <1>1, <1>14, Bounds DEF VendorChanges, Rest, Shapes
    <3>2. ScanHolds'
      BY <1>1, <1>14 DEF VendorChanges, Rest, Shapes, ScanHolds
    <3>3. Waits'
      BY <1>1, <1>14 DEF VendorChanges, Rest, ScanHolds, Waits
    <3>. QED
      BY <3>1, <3>2, <3>3 DEF Rest
  <2>. QED
    BY <1>14, <2>1, OthersKeep DEF VendorChanges
<1>15. CASE UNCHANGED releaseVars
  <2>1. Rest'
    <3>1. Shapes'
      BY <1>1, <1>15, Bounds DEF releaseVars, Rest, Shapes
    <3>2. ScanHolds'
      BY <1>1, <1>15 DEF releaseVars, Rest, Shapes, ScanHolds
    <3>3. Waits'
      BY <1>1, <1>15 DEF releaseVars, Rest, ScanHolds, Waits
    <3>. QED
      BY <3>1, <3>2, <3>3 DEF Rest
  <2>. QED
    BY <1>15, <2>1, OthersKeep DEF releaseVars
<1>. QED
  BY <1>2, <1>3, <1>4, <1>5, <1>6, <1>7, <1>8, <1>9, <1>10, <1>11, <1>12, <1>13, <1>14, <1>15
     DEF ReleaseNext

LEMMA InitInv == ReleaseInit => ReleaseInv
<1>. SUFFICES ASSUME ReleaseInit PROVE ReleaseInv
  OBVIOUS
<1>1. /\ NotCompiled \in Release /\ NotCompiled.st = "none" /\ NotCompiled.bad = 0
      /\ 0 \in 0..Threshold /\ 0 \in 0..MaxIncidents
  BY ReleaseAssumption DEF ReleaseAssumption, NotCompiled, Release, Stages
<1>2. Connector
  BY <1>1 DEF ReleaseInit, Connector, RowsOK, OneVersion, WasProved, EverReleased, NoneInCanary,
     CountNotAhead
<1>3. Packed
  BY EmptySeq DEF ReleaseInit, Packed, NewestPack
<1>4. Shapes
  BY <1>1, Bounds DEF ReleaseInit, NoScan, Shapes
<1>5. ScanHolds /\ Waits
  BY Bounds DEF ReleaseInit, NoScan, ScanHolds, Waits
<1>. QED
  BY <1>2, <1>3, <1>4, <1>5, Together DEF Rest
-------------------------------------------------------------------------------
\* The catalog stays in order: one version of a connector is offered, it has
\* passed a canary also when a rollback brought it back, of an app the newest
\* version is released, and no request for an app is lost between the queues of
\* the processes and the scans that drain them.
THEOREM CatalogStaysInOrder == ReleaseSpec => []CatalogInOrder
<1>1. ReleaseInit => ReleaseInv
  BY InitInv
<1>2. ReleaseInv /\ [ReleaseNext]_releaseVars => ReleaseInv'
  BY StepKeeps
<1>. QED
  BY <1>1, <1>2, InvImplies, PTL DEF ReleaseSpec

\* No candidate that fails its canary costs the last good version its place: a
\* released version gives way to a proved one, or fails as often as it may.
THEOREM LastGoodVersionStays == ReleaseSpec => LastGoodStays
<1>1. ReleaseInit => ReleaseInv
  BY InitInv
<1>2. ReleaseInv /\ [ReleaseNext]_releaseVars => ReleaseInv'
  BY StepKeeps
<1>3. ReleaseInv /\ [ReleaseNext]_releaseVars => GivesWay
  BY StepKeeps
<1>4. ReleaseInv /\ [ReleaseNext]_releaseVars => [GivesWay]_releaseVars
  BY <1>3
<1>. QED
  BY <1>1, <1>2, <1>4, PTL DEF ReleaseSpec, LastGoodStays, GivesWay
===============================================================================
