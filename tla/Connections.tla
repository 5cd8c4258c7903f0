----------------------------- MODULE Connections -----------------------------
(***************************************************************************)
(* The accounts a workspace has connected: how an authorization begins and *)
(* ends, what a test, a preflight and a disconnection store, and what the  *)
(* planner is offered (main.py, execution_preflight.py, providers.py,      *)
(* managed_connectors.py, pipedream_connect.py, wordpress_plugins.py,      *)
(* zernio_connect.py, meta_ads_oauth.py).                                  *)
(*                                                                         *)
(* Grain.  A request loads its rows and calls the service in one step, and *)
(* commits in a later one; so do a worker's preflight and the callbacks    *)
(* that spend a link.  A session updates the columns it has changed.  One  *)
(* request at a time, beside one preflight, one recovery and the callbacks.*)
(* One environment of the account broker is modelled; every route of a     *)
(* family has a released and signed pack.                                  *)
(***************************************************************************)
EXTENDS Naturals, FiniteSets

CONSTANTS
  Slugs,       \* the apps; a connection is named after its app
  Backend,     \* Backend[s]: the plane that authorizes s
  Vendor,      \* Vendor[s]: the app at the provider that s leads to
  At,          \* At[a]: the app at the provider that account a belongs to
  Scenarios,   \* the apps of a workspace, with the accounts it has
  Accounts,    \* accounts at an account broker
  Callbacks,   \* browsers that come back from a provider
  MaxLinks,    \* bound: authorization links of one app
  MaxTokens,   \* bound: generations of a native grant
  MaxFaults,   \* bound: crashes and outages
  Watched,     \* apps of nango that runs use again and again
  NoAccount, NoSlug

Backends == {"pipedream", "nango", "zernio", "plugin", "native", "mcp", "meta", "shopify"}
Links    == Slugs \X (1..MaxLinks)

ASSUME ConnectionAssumption ==
  /\ Backend \in [Slugs -> Backends] /\ Scenarios \subseteq (SUBSET Slugs) \X (SUBSET Accounts)
  \* Routes of the account broker share an app, and the plugins behind them.
  /\ Vendor \in [Slugs -> Slugs] /\ At \in [Accounts -> Slugs]
  /\ \A r, s \in Slugs :
       r # s /\ Vendor[r] = Vendor[s] => {Backend[r], Backend[s]} \subseteq {"pipedream", "plugin"}
  /\ NoAccount \notin Accounts /\ NoSlug \notin Slugs
  /\ \A s \in Watched : Backend[s] = "nango"
  /\ {MaxLinks, MaxTokens, MaxFaults} \subseteq Nat /\ MaxTokens > 0

VARIABLES
  apps,      \* the apps of this workspace; does not change
  rows,      \* tool_connections with their capability_manifests
  remote,    \* the accounts at the brokers
  token,     \* the generation of a native grant that its provider accepts
  open,      \* links that have been issued and not spent
  issued,    \* how many links an app has had
  pin,       \* the account a link may renew
  req,       \* the request that has loaded and not yet committed
  wk,        \* the preflight that has loaded and not yet committed
  back,      \* callbacks that have loaded and not yet committed
  down,      \* the services do not answer
  faults,    \* crashes and outages so far
  spent,     \* history: how often a link was exchanged
  fresh,     \* history: an authorization was in progress since the last disconnection
  torn       \* history: a grant was renewed by two sessions at once, or not stored

vars == <<apps, rows, remote, token, open, issued, pin, req, wk, back, down, faults, spent,
          fresh, torn>>
links == <<open, issued, pin, spent>>
world == <<remote, token, down>>
ends  == <<faults, fresh, torn>>

\* A connection and its manifest: st is manifest.status, ok is verification.ok,
\* ref says that external_connection_id holds acct, cred is the generation of
\* the stored grant (0 when credentials are erased).
Row == [st : {"none", "pending", "verified", "degraded", "revoked"}, on : BOOLEAN, ok : BOOLEAN,
        acct : Accounts \cup {NoAccount}, ref : BOOLEAN, par : Slugs \cup {NoSlug},
        cred : 0..MaxTokens]

Absent == [st |-> "none", on |-> FALSE, ok |-> TRUE, acct |-> NoAccount, ref |-> FALSE,
           par |-> NoSlug, cred |-> 0]
Idle   == [kind |-> "idle"]
Grants == {s \in apps : Backend[s] = "native"}

\* A session stores the columns it has changed.
Save(stored, loaded, changed) ==
  [f \in DOMAIN stored |-> IF changed[f] # loaded[f] THEN changed[f] ELSE stored[f]]

\* What the planner takes for connected.
Offered(s) == rows[s].on /\ rows[s].st = "verified" /\ rows[s].ok

-------------------------------------------------------------------------------
\* What the services answer

\* verify_account, verify_connection, verify: a broker's word about an account.
Verify(a) == IF down THEN "retry"
             ELSE IF a # NoAccount /\ remote[a] = "live" THEN "ok" ELSE "refused"

\* The same, of the account that is stored; without one nobody is asked.
Verdict(s) == IF rows[s].acct = NoAccount THEN "refused" ELSE Verify(rows[s].acct)

\* _verify_managed_mcp_with_refresh: an agent's grant is read with.
AgentVerdict(s) ==
  IF down THEN "retry" ELSE IF rows[s].cred = 0 THEN "refused" ELSE "ok"

\* _pipedream_family_tools: the routes to the app of s.
Family(s) == {r \in apps : Backend[r] = "pipedream" /\ Vendor[r] = Vendor[s]}

\* The accounts that can answer for s: a broker files them by app.
Own(s) == {a \in DOMAIN remote : At[a] = Vendor[s]}

\* wordpress_parent: the enabled routes must agree on one account, and the
\* chosen one must be verified.
Parents(s) ==
  LET enabled == {r \in Family(s) : rows[r].on /\ rows[s].par \in {NoSlug, r}}
      shared  == {rows[r].acct : r \in enabled}
  IN IF Cardinality(shared) = 1 /\ NoAccount \notin shared
     THEN {r \in enabled : rows[r].st = "verified"} ELSE {}

\* wordpress_plugins.verify, through an enabled parent; a host at its limit is
\* told apart from a refusal.
PluginVerdict(s) ==
  IF Parents(s) = {} THEN "refused"
  ELSE IF down THEN "retry" ELSE Verify(rows[CHOOSE p \in Parents(s) : TRUE].acct)

\* refresh_oauth_credentials: an expired grant is renewed when its provider
\* still accepts it; a provider that rotates grants accepts the newest only.
\* Meta's are not renewed.
Renewed(s, expired) ==
  IF ~expired \/ rows[s].cred = 0 \/ Backend[s] = "meta" THEN rows[s].cred
  ELSE IF down \/ rows[s].cred # token[s] THEN 0 ELSE token[s] + 1

\* verify_oauth_credentials, with the grant that was renewed.  The call may run
\* into a limit of its own; Meta may have withdrawn a grant that cannot be
\* renewed.
NativeVerdicts(s, renewed) ==
  {"retry"} \cup (IF renewed # 0 /\ ~down THEN {"ok"} ELSE {})
            \cup (IF renewed = 0 \/ Backend[s] = "meta" THEN {"refused"} ELSE {})
-------------------------------------------------------------------------------
\* The authorization of an account

\* create_managed_connector_session: nango renews the stored account; without
\* one, the account it has for this person, and a live one is reused as it is.
NangoSession(s) ==
  LET known == {a \in Own(s) : remote[a] \in {"live", "expired"}}
  IN IF rows[s].acct # NoAccount THEN {rows[s].acct}
     ELSE IF known = {} THEN Own(s)
     ELSE {a \in known : Cardinality(known) > 1 \/ remote[a] = "expired"}

\* A working account of the family that a session reuses.
Reusable(s) == {r \in Family(s) : rows[r].on /\ Verdict(r) = "ok"}

\* create_connector_broker_session at pipedream: a route that is on renews its
\* own account, a new one joins the working account of its family.
BrokerSession(s) ==
  IF rows[s].on /\ rows[s].acct # NoAccount THEN {rows[s].acct}
  ELSE IF rows[s].st = "none" /\ Reusable(s) # {} THEN {} ELSE Own(s)

\* The accounts a person can authorize in the window that AURA opens.
Authorizable(s) ==
  CASE Backend[s] = "nango" -> NangoSession(s)
    [] Backend[s] = "pipedream" -> BrokerSession(s)
    [] Backend[s] = "zernio" /\ (\E l \in open : l[1] = s) -> Own(s)
    [] OTHER -> {}

\* A person grants or renews access in the provider's own window.
Consent(a) ==
  /\ ~down /\ \E s \in apps : a \in Authorizable(s)
  /\ remote[a] \in {"free", "expired"} /\ remote' = [remote EXCEPT ![a] = "live"]
  /\ UNCHANGED <<apps, rows, token, links, req, wk, back, down, ends>>

\* The grant is withdrawn at the provider, or expires.
Expire(a) ==
  /\ remote[a] = "live" /\ remote' = [remote EXCEPT ![a] = "expired"]
  /\ UNCHANGED <<apps, rows, token, links, req, wk, back, down, ends>>

\* What a session of its broker returns for an app whose account is stored.
Pinned(s) == IF Backend[s] = "zernio" THEN rows[s].acct ELSE NoAccount

\* A new link, beside the earlier ones that are kept.
Issue(s, kept) ==
  /\ issued[s] < MaxLinks /\ issued' = [issued EXCEPT ![s] = @ + 1]
  /\ open' = kept \cup {<<s, issued[s] + 1>>} /\ fresh' = fresh \cup {s}
  /\ pin' = [pin EXCEPT ![<<s, issued[s] + 1>>] = Pinned(s)]
  /\ UNCHANGED <<apps, rows, world, req, wk, back, spent, faults, torn>>

\* _managed_mcp_connection keeps one pending authorization with the credentials
\* of the agent.
StartAgent(s) == Backend[s] = "mcp" /\ Issue(s, {l \in open : l[1] # s})

\* zernio_connect.start ends the earlier ones.
StartZernio(s) == Backend[s] = "zernio" /\ ~down /\ Issue(s, {l \in open : l[1] # s})

\* oauth_start: a signed state of which nothing is stored, or a row of Meta's.
StartGrant(s) == Backend[s] \in {"native", "meta"} /\ Issue(s, open)

\* reconnect_connection: a connection that exists keeps its plane.
Reconnect(s) == rows[s].st # "none" /\ (StartAgent(s) \/ StartZernio(s) \/ StartGrant(s))

\* create_connector_broker_session: one that does not is begun on its plane.
Start(s) == rows[s].st = "none" /\ (StartAgent(s) \/ StartZernio(s) \/ StartGrant(s))

\* The callback of an MCP agent or of Meta spends its link before it exchanges
\* the code: a locked row, or one conditional update.
SpendLink(b, s, n) ==
  /\ back[b] = Idle /\ <<s, n>> \in open /\ open' = open \ {<<s, n>>}
  /\ back' = [back EXCEPT ![b] = [kind |-> "exchange", s |-> s, n |-> n, row |-> rows[s]]]
  /\ UNCHANGED <<apps, rows, issued, pin, spent, world, req, wk, ends>>

\* A verified connection with a grant of its own.
Persisted(row) == [row EXCEPT !.st = "verified", !.on = TRUE, !.ok = TRUE, !.cred = 1]

\* A callback that has spent its link ends, whatever became of the code.
EndExchange(b) ==
  /\ back[b].kind = "exchange" /\ back' = [back EXCEPT ![b] = Idle]
  /\ UNCHANGED <<apps, issued, pin, world, req, wk, ends>>

\* _persist_agent_connection: the agent's row is the one the callback has loaded,
\* with its credentials; a pending authorization goes with those it replaces.
FinishAgent(b) ==
  LET s   == back[b].s
      was == [back[b].row EXCEPT !.st = rows[s].st, !.ok = rows[s].ok]
  IN /\ EndExchange(b) /\ Backend[s] = "mcp"
     /\ \/ /\ rows' = [rows EXCEPT ![s] = Save(@, was, Persisted(was))]
           /\ spent' = [spent EXCEPT ![<<s, back[b].n>>] = @ + 1]
           /\ open' = {l \in open : l[1] # s}
        \/ UNCHANGED <<rows, spent, open>>

\* meta_ads_oauth.complete stores what it has verified in the row of now.
FinishMeta(b) ==
  LET s == back[b].s
  IN /\ EndExchange(b) /\ Backend[s] = "meta"
     /\ \/ /\ rows' = [rows EXCEPT ![s] = Persisted(@)]
           /\ spent' = [spent EXCEPT ![<<s, back[b].n>>] = @ + 1]
        \/ UNCHANGED <<rows, spent>>
     /\ UNCHANGED open

\* connect_agent, autoconnect_agent: an agent with a key, or with a grant that
\* still reads, needs no authorization.
ConnectAgent(s) ==
  /\ req = Idle /\ Backend[s] = "mcp" /\ ~down
  /\ rows' = [rows EXCEPT ![s] = Persisted(@)] /\ open' = {l \in open : l[1] # s}
  /\ fresh' = fresh \cup {s}
  /\ UNCHANGED <<apps, world, issued, pin, spent, req, wk, back, faults, torn>>

\* connect_shopify_client_credentials
ConnectShopify(s) ==
  /\ req = Idle /\ Backend[s] = "shopify" /\ ~down
  /\ rows' = [rows EXCEPT ![s] = Persisted(@)] /\ fresh' = fresh \cup {s}
  /\ UNCHANGED <<apps, world, links, req, wk, back, faults, torn>>

\* Another callback holds the row of the grant.
Locked(s, n) == \E d \in Callbacks : back[d].kind = "grant" /\ back[d].s = s /\ back[d].n = n

\* zernio_connect.finish: the grant is locked while the account is verified.
LockGrant(b, s, n, a) ==
  /\ back[b] = Idle /\ Backend[s] = "zernio" /\ <<s, n>> \in open /\ ~Locked(s, n) /\ a \in Own(s)
  /\ pin[<<s, n>>] \in {NoAccount, a} /\ Verify(a) = "ok"
  /\ back' = [back EXCEPT ![b] = [kind |-> "grant", s |-> s, n |-> n, a |-> a]]
  /\ UNCHANGED <<apps, rows, links, world, req, wk, ends>>

\* The person does not consent, and comes back with an error.
DenyGrant(s, n) ==
  /\ Backend[s] = "zernio" /\ <<s, n>> \in open /\ ~Locked(s, n) /\ open' = open \ {<<s, n>>}
  /\ UNCHANGED <<apps, rows, issued, pin, spent, world, req, wk, back, ends>>

\* The grant is spent with the row it enables, or kept by a rollback.
FinishGrant(b) ==
  /\ back[b].kind = "grant" /\ back' = [back EXCEPT ![b] = Idle]
  /\ LET s == back[b].s
         l == <<s, back[b].n>>
         new == [Absent EXCEPT !.st = "verified", !.on = TRUE, !.acct = back[b].a, !.ref = TRUE,
                               !.cred = 1]
     IN \/ /\ open' = open \ {l} /\ spent' = [spent EXCEPT ![l] = @ + 1]
           /\ rows' = [rows EXCEPT ![s] = new]
        \/ UNCHANGED <<rows, open, spent>>
  /\ UNCHANGED <<apps, issued, pin, world, req, wk, ends>>

\* oauth_callback: the state is signed and nothing is stored, so the code is
\* exchanged for whoever brings it.  A manifest that exists keeps its
\* verification.
OAuthCallback(s) ==
  /\ Backend[s] = "native" /\ ~down /\ token[s] < MaxTokens /\ \E l \in open : l[1] = s
  /\ token' = [token EXCEPT ![s] = @ + 1]
  /\ rows' = [rows EXCEPT ![s].st = "verified", ![s].on = TRUE, ![s].cred = token[s] + 1]
  /\ torn' = torn \cup IF wk # Idle \/ req # Idle THEN {s} ELSE {}
  /\ UNCHANGED <<apps, remote, links, req, wk, back, down, faults, fresh>>

\* wordpress_plugins.connect: the plugin answers through its WordPress account.
ConnectPlugin(s) ==
  /\ req = Idle /\ Backend[s] = "plugin" /\ \E p \in Parents(s) :
       /\ Verify(rows[p].acct) = "ok"
       /\ rows' = [rows EXCEPT ![s] = [@ EXCEPT !.st = "verified", !.on = TRUE, !.ok = TRUE,
                                                !.par = p]]
  /\ UNCHANGED <<apps, world, links, req, wk, back, ends>>
-------------------------------------------------------------------------------
\* Requests

Load(kind, s, a, verdict) ==
  req' = [kind |-> kind, s |-> s, a |-> a, verdict |-> verdict,
          rows |-> [r \in {s} |-> rows[r]]]

\* complete_connector_broker_connection: an account the broker confirms.
AskComplete(s, a) ==
  /\ req = Idle /\ Backend[s] = "pipedream" /\ a \in Own(s) /\ Verify(a) = "ok"
  /\ Load("activate", s, a, "ok")
  /\ UNCHANGED <<apps, rows, world, links, wk, back, ends>>

\* A session that reuses an account, instead of asking for one.
AskReuse(s) ==
  /\ req = Idle /\ Backend[s] = "pipedream"
  /\ \E r \in Reusable(s) : Load("activate", s, rows[r].acct, "ok")
  /\ UNCHANGED <<apps, rows, world, links, wk, back, ends>>

\* The route that keeps the broker's reference to account a; it is unique.
Holder(s, a) ==
  IF \E r \in Family(s) : rows[r].ref /\ rows[r].acct = a
  THEN CHOOSE r \in Family(s) : rows[r].ref /\ rows[r].acct = a ELSE s

\* Whether route r takes the reference when s asks for account a.
Holds(r, s, a) == r = Holder(s, a)

\* _activate_pipedream_account_family: every route of the family answers for
\* the account.
ActivateFamily ==
  /\ req.kind = "activate" /\ req' = Idle
  /\ LET new(r) == [rows[r] EXCEPT !.st = "verified", !.on = TRUE, !.ok = TRUE, !.cred = 0,
                                   !.acct = req.a, !.ref = Holds(r, req.s, req.a)]
         was(r) == IF r = req.s THEN req.rows[r] ELSE rows[r]
     IN rows' = [r \in DOMAIN rows |-> IF r \in Family(req.s) THEN Save(rows[r], was(r), new(r))
                                                              ELSE rows[r]]
  /\ UNCHANGED <<apps, world, links, wk, back, ends>>

\* sync_managed_connector: the account the browser names or the stored one, if
\* nango has it.
AskSync(s, a) ==
  /\ req = Idle /\ Backend[s] = "nango" /\ ~down /\ a \in Own(s)
  /\ remote[a] \in {"live", "expired"}
  /\ \E v \in {Verify(a), "retry"} : Load("sync", s, a, v)
  /\ UNCHANGED <<apps, rows, world, links, wk, back, ends>>

Answer(verdict) == IF verdict = "ok" THEN "verified" ELSE "degraded"

\* Only a verified account is imported; a stored one that fails is withdrawn,
\* for good or until it can be verified.
Sync ==
  /\ req.kind = "sync" /\ req' = Idle
  /\ LET s   == req.s
         was == req.rows[s]
         new == IF req.verdict = "ok"
                THEN [was EXCEPT !.st = "verified", !.on = TRUE, !.ok = TRUE, !.acct = req.a,
                                 !.ref = TRUE]
                ELSE IF was.st = "none" THEN was
                ELSE [was EXCEPT !.on = FALSE, !.ok = FALSE,
                                 !.st = IF req.verdict = "retry" THEN "pending" ELSE "degraded"]
     IN rows' = [rows EXCEPT ![s] = Save(@, was, new)]
  /\ UNCHANGED <<apps, world, links, wk, back, ends>>

\* test_connection on a connection of a broker, a shop, zernio or a plugin.  What
\* does not answer counts as a refusal; zernio and plugins leave the row alone.
AskTest(s) ==
  /\ req = Idle /\ rows[s].st # "none" /\ Backend[s] \notin {"native", "meta", "mcp"}
  /\ LET v == CASE Backend[s] = "plugin"  -> PluginVerdict(s)
                [] Backend[s] = "shopify" -> AgentVerdict(s)
                [] OTHER -> Verdict(s) IN
       /\ v = "retry" => Backend[s] \notin {"plugin", "zernio"}
       /\ Load("test", s, rows[s].acct, v)
  /\ UNCHANGED <<apps, rows, world, links, wk, back, ends>>

Test ==
  /\ req.kind = "test" /\ req' = Idle
  /\ LET s   == req.s
         was == req.rows[s]
         new == [was EXCEPT !.st = Answer(req.verdict), !.ok = (req.verdict = "ok"),
                            !.on = (req.verdict = "ok"),
                            !.ref = @ \/ (Backend[s] = "nango" /\ req.verdict = "ok")]
     IN rows' = [rows EXCEPT ![s] = Save(@, was, new)]
  /\ UNCHANGED <<apps, world, links, wk, back, ends>>

\* test_connection on a native grant renews it first.
AskNativeTest(s) ==
  /\ req = Idle /\ rows[s].st # "none" /\ Backend[s] \in {"native", "meta"}
  /\ \E expired \in BOOLEAN :
       LET g == Renewed(s, expired) IN
       /\ g <= MaxTokens /\ token' = [token EXCEPT ![s] = IF g > rows[s].cred THEN g ELSE @]
       /\ torn' = torn \cup IF g > rows[s].cred /\ wk # Idle THEN {s} ELSE {}
       /\ \E v \in NativeVerdicts(s, g) :
            req' = [kind |-> "native", s |-> s, a |-> NoAccount, verdict |-> v,
                    rows |-> [r \in {s} |-> rows[r]], cred |-> IF g = 0 THEN rows[s].cred ELSE g]
  /\ UNCHANGED <<apps, rows, remote, links, wk, back, down, faults, fresh>>

\* Mutant: a renewed grant is stored only when the probe that follows passes.
NativeTestOnSuccess ==
  /\ req.kind = "native" /\ req' = Idle
  /\ LET s   == req.s
         was == req.rows[s]
         new == [was EXCEPT !.st = Answer(req.verdict), !.ok = (req.verdict = "ok"),
                            !.cred = IF req.verdict = "ok" THEN req.cred ELSE @]
     IN rows' = [rows EXCEPT ![s] = Save(@, was, new)]
  /\ UNCHANGED <<apps, world, links, wk, back, ends>>

\* The renewed grant is stored whatever the probe says; the connection stays
\* enabled.
NativeTest ==
  /\ req.kind = "native" /\ req' = Idle
  /\ LET s   == req.s
         was == req.rows[s]
         new == [was EXCEPT !.st = Answer(req.verdict), !.ok = (req.verdict = "ok"),
                            !.cred = req.cred]
     IN rows' = [rows EXCEPT ![s] = Save(@, was, new)]
  /\ UNCHANGED <<apps, world, links, wk, back, ends>>

\* test_connection on an agent: a passed test also enables it.
TestAgent(s) ==
  /\ req = Idle /\ Backend[s] = "mcp" /\ rows[s].st # "none"
  /\ LET v == AgentVerdict(s) IN
       rows' = [rows EXCEPT ![s].st = Answer(v), ![s].ok = (v = "ok"),
                            ![s].on = @ \/ v = "ok"]
  /\ UNCHANGED <<apps, world, links, req, wk, back, ends>>

\* Mutant: the routes that share the account are left alone.
SharedAlone(s) == {s}

\* The routes of the account, and the plugins behind them.
Shared(s) ==
  LET routes == IF Backend[s] = "pipedream"
                THEN {r \in Family(s) : rows[r].acct = rows[s].acct} ELSE {s}
  IN routes \cup {w \in apps : Backend[w] = "plugin" /\ rows[w].par \in routes}

\* disconnect_connection deletes the account at its broker; zernio refuses the
\* request when that fails.
AskDisconnect(s) ==
  /\ req = Idle /\ rows[s].st # "none"
  /\ LET a    == rows[s].acct
         held == Backend[s] \in {"pipedream", "nango", "zernio"}
         done == held /\ ~down /\ a # NoAccount /\ remote[a] \in {"live", "expired"}
     IN /\ Backend[s] = "zernio" => done
        /\ remote' = IF done THEN [remote EXCEPT ![a] = "deleted"] ELSE remote
        /\ req' = [kind |-> "disconnect", s |-> s, a |-> a, all |-> Shared(s),
                   rows |-> [r \in Shared(s) |-> rows[r]],
                   verdict |-> IF done THEN "ok" ELSE "refused"]
  /\ UNCHANGED <<apps, rows, token, links, wk, back, down, ends>>

\* Credentials are erased, the manifest is revoked; an account the broker has
\* deleted is forgotten (not by nango).
Revoked(row, cleared) ==
  [row EXCEPT !.st = "revoked", !.on = FALSE, !.cred = 0,
              !.acct = IF cleared THEN NoAccount ELSE @, !.ref = @ /\ ~cleared]

\* The disconnection is stored.  Links of the app end: zernio's waits
\* for a grant that is being finished, an agent's went with its credentials.
Disconnect ==
  /\ req.kind = "disconnect" /\ req' = Idle
  /\ \A b \in Callbacks : back[b].kind = "grant" => back[b].s # req.s
  /\ LET clear(r) == req.verdict = "ok" /\ Backend[r] \in {"pipedream", "zernio"}
         new(r) == Revoked(req.rows[r], clear(r))
     IN rows' = [r \in DOMAIN rows |-> IF r \in req.all THEN Save(rows[r], req.rows[r], new(r))
                                                        ELSE rows[r]]
  /\ open' = {l \in open : l[1] # req.s \/ Backend[req.s] \notin {"zernio", "mcp"}}
  /\ fresh' = {s \in fresh : \/ s \notin req.all
                             \/ \E b \in Callbacks : back[b] # Idle /\ back[b].s = s
                             \/ \E l \in open' : l[1] = s}
  /\ UNCHANGED <<apps, issued, pin, spent, world, wk, back, faults, torn>>
-------------------------------------------------------------------------------
\* A worker's preflight of an approved run

\* Only an enabled and verified connection is looked at.  A broker that does
\* not answer leaves its row alone (nango: marks the check as failed).
Preflight(s) ==
  /\ wk = Idle /\ rows[s].on /\ rows[s].st = "verified"
  /\ Backend[s] \notin {"native", "meta", "mcp", "shopify"}
  /\ LET v == IF Backend[s] = "plugin" THEN PluginVerdict(s) ELSE Verdict(s) IN
       wk' = [kind |-> "preflight", s |-> s, row |-> rows[s], verdict |-> v, cred |-> rows[s].cred]
  /\ UNCHANGED <<apps, rows, world, links, req, back, ends>>

\* A native grant is renewed first; a renewal that is refused ends the
\* preflight with nothing stored.
PreflightNative(s) ==
  /\ wk = Idle /\ rows[s].on /\ rows[s].st = "verified" /\ Backend[s] \in {"native", "meta"}
  /\ \E expired \in BOOLEAN :
       LET g == Renewed(s, expired) IN
       /\ g <= MaxTokens /\ g # 0
       /\ token' = [token EXCEPT ![s] = IF g > rows[s].cred THEN g ELSE @]
       /\ torn' = torn \cup IF g > rows[s].cred /\ req # Idle THEN {s} ELSE {}
       /\ \E v \in NativeVerdicts(s, g) :
            wk' = [kind |-> "preflight", s |-> s, row |-> rows[s], verdict |-> v, cred |-> g]
  /\ UNCHANGED <<apps, rows, remote, links, req, back, down, faults, fresh>>

\* Mutant: a refusal is reported and the connection stays as it is.
FindingPassed(s, row, verdict, cred) ==
  IF verdict = "retry" THEN [row EXCEPT !.ok = @ /\ Backend[s] # "nango", !.cred = cred]
                       ELSE [row EXCEPT !.cred = cred]

\* What a preflight makes of its row.  A refusal withdraws the connection, and
\* zernio's and a plugin's are only reported; what did not answer marks the
\* check of nango, Meta and native connections as failed.
Finding(s, row, verdict, cred) ==
  CASE verdict = "ok" ->
         [row EXCEPT !.st = "verified", !.ok = TRUE, !.cred = cred, !.on = TRUE]
    [] verdict = "retry" ->
         [row EXCEPT !.ok = @ /\ Backend[s] \in {"zernio", "plugin", "pipedream"}, !.cred = cred]
    [] verdict = "refused" /\ Backend[s] \in {"zernio", "plugin"} -> row
    [] OTHER -> [row EXCEPT !.st = "degraded", !.on = FALSE, !.ok = FALSE, !.cred = cred]

\* What the preflight found is stored with its outcome.
RecordPreflight ==
  /\ wk.kind = "preflight" /\ wk' = Idle
  /\ rows' = [rows EXCEPT ![wk.s] = Save(@, wk.row, Finding(wk.s, wk.row, wk.verdict, wk.cred))]
  /\ UNCHANGED <<apps, world, links, req, back, ends>>

\* Mutant: a recovery also takes up a connection that was revoked.
RevalidateAny(s) ==
  /\ Backend[s] = "nango" /\ rows[s].acct # NoAccount /\ Verify(rows[s].acct) = "ok"
  /\ rows' = [rows EXCEPT ![s].on = TRUE, ![s].ref = TRUE, ![s].st = "verified", ![s].ok = TRUE]
  /\ UNCHANGED <<apps, world, links, req, wk, back, ends>>

\* _revalidate_connection: a recovery takes a nango connection up again, never
\* one that a person has disconnected.
Revalidate(s) ==
  /\ Backend[s] = "nango" /\ rows[s].acct # NoAccount /\ rows[s].st # "revoked"
  /\ Verify(rows[s].acct) = "ok"
  /\ rows' = [rows EXCEPT ![s].on = TRUE, ![s].ref = TRUE, ![s].st = "verified", ![s].ok = TRUE]
  /\ UNCHANGED <<apps, world, links, req, wk, back, ends>>

\* A process dies: what it has not committed is lost, a renewed grant too.
Crash ==
  /\ faults < MaxFaults /\ faults' = faults + 1
  /\ \/ wk # Idle /\ wk' = Idle /\ torn' = torn \cup (Grants \cap {wk.s}) /\ UNCHANGED <<req, back>>
     \/ req # Idle /\ req' = Idle /\ UNCHANGED <<wk, back>>
        /\ torn' = torn \cup IF req.kind = "disconnect" THEN req.all ELSE Grants \cap {req.s}
     \/ \E b \in Callbacks : /\ back[b] # Idle /\ back' = [back EXCEPT ![b] = Idle]
                             /\ UNCHANGED <<wk, req, torn>>
  /\ UNCHANGED <<apps, rows, world, links, fresh>>

Fail == /\ ~down /\ faults < MaxFaults /\ faults' = faults + 1 /\ down' = TRUE
        /\ UNCHANGED <<apps, rows, remote, token, links, req, wk, back, fresh, torn>>
Heal == /\ down /\ down' = FALSE
        /\ UNCHANGED <<apps, rows, remote, token, links, req, wk, back, ends>>
-------------------------------------------------------------------------------
Init ==
  /\ \E sc \in Scenarios : apps = sc[1] /\ remote = [a \in sc[2] |-> "free"]
  /\ rows = [s \in apps |-> Absent] /\ token = [s \in apps |-> 0]
  /\ open = {} /\ issued = [s \in apps |-> 0] /\ pin = [l \in apps \X (1..MaxLinks) |-> NoAccount]
  /\ req = Idle /\ wk = Idle /\ back = [b \in Callbacks |-> Idle]
  /\ down = FALSE /\ faults = 0
  /\ spent = [l \in apps \X (1..MaxLinks) |-> 0] /\ fresh = {} /\ torn = {}

Authorize(s) == \/ Start(s) \/ Reconnect(s) \/ OAuthCallback(s) \/ AskReuse(s)
                \/ ConnectPlugin(s) \/ ConnectAgent(s) \/ ConnectShopify(s)
Ask(s)       == AskTest(s) \/ AskNativeTest(s) \/ TestAgent(s) \/ AskDisconnect(s)
Commit       == ActivateFamily \/ Sync \/ Test \/ NativeTest \/ Disconnect

Next ==
  \/ \E s \in apps : Authorize(s) \/ Ask(s) \/ Preflight(s) \/ PreflightNative(s) \/ Revalidate(s)
  \/ \E s \in apps, a \in DOMAIN remote : AskComplete(s, a) \/ AskSync(s, a)
  \/ \E b \in Callbacks, s \in apps, n \in 1..MaxLinks :
       Backend[s] \in {"mcp", "meta"} /\ SpendLink(b, s, n)
  \/ \E s \in apps, n \in 1..MaxLinks : DenyGrant(s, n)
  \/ \E b \in Callbacks, s \in apps, n \in 1..MaxLinks, a \in DOMAIN remote : LockGrant(b, s, n, a)
  \/ \E b \in Callbacks : FinishAgent(b) \/ FinishMeta(b) \/ FinishGrant(b)
  \/ \E a \in DOMAIN remote : Consent(a) \/ Expire(a)
  \/ Commit \/ RecordPreflight \/ Crash \/ Fail \/ Heal

Spec == Init /\ [][Next]_vars

\* A preflight that has loaded commits, and runs use the watched apps again
\* and again while they are offered.
FairSpec == /\ Spec /\ WF_vars(RecordPreflight)
            /\ \A s \in Watched : SF_vars(s \in apps /\ Preflight(s))
-------------------------------------------------------------------------------
\* Properties

\* Rows, accounts and links have their types; a broker's reference names an
\* account, and no grant is stored that its provider never issued.
TypeOK ==
  /\ <<apps, DOMAIN remote>> \in Scenarios /\ rows \in [apps -> Row]
  /\ remote \in [DOMAIN remote -> {"free", "live", "expired", "deleted"}]
  /\ token \in [apps -> 0..MaxTokens] /\ open \subseteq Links /\ issued \in [apps -> 0..MaxLinks]
  /\ \A s \in apps : /\ Backend[s] = "native" => rows[s].cred <= token[s]
                     /\ rows[s].ref => rows[s].acct # NoAccount

\* The broker's reference to an account is unique in a workspace
\* (uq_workspace_external_connection): whichever routes of a family are
\* activated, in whatever order, no two of them hold it, so no activation is
\* lost to the constraint.
OneHolder ==
  \A r, s \in apps : rows[r].ref /\ rows[s].ref /\ rows[r].acct = rows[s].acct => r = s

\* A disconnection takes down everything that answers through the account:
\* with no request under way, no route and no plugin is offered through an
\* account that has been deleted (one that died between the deletion and its
\* commit has told the broker only).
DisconnectedIsOff ==
  req = Idle => \A s \in apps \ torn :
    /\ rows[s].acct # NoAccount /\ remote[rows[s].acct] = "deleted" => ~rows[s].on
    /\ Backend[s] = "plugin" /\ rows[s].on => rows[rows[s].par].st # "revoked"

\* A connection that a person has revoked comes back only by an authorization
\* that was begun or under way since, or by a request of a person: no preflight
\* and no recovery enables it, also one that loaded the row before.
RevokedStaysOff ==
  [][\A s \in apps : rows[s].st = "revoked" /\ ~rows[s].on /\ rows'[s].on =>
       s \in fresh' \/ Commit \/ ConnectPlugin(s)]_vars

\* A provider that rotates its grants accepts the newest only: whatever the
\* probe after a renewal says, a connection that has a grant has the newest
\* one, unless two sessions renewed it at once or one died before its commit.
RotatedGrantKept ==
  \A s \in apps : Backend[s] = "native" /\ s \notin torn /\ req = Idle /\ wk = Idle
                  => rows[s].cred \in {0, token[s]}

\* A link is exchanged once, whoever brings it back and how often.
LinkSpentOnce == \A l \in DOMAIN spent : spent[l] <= 1

\* What a person has granted is neither lost nor given out twice.
GrantsKept == TypeOK /\ OneHolder /\ RotatedGrantKept /\ LinkSpentOnce

\* An account that nango no longer confirms is withdrawn from the planner, also
\* while nango does not answer.
LostAccountWithdrawn ==
  \A s \in Watched : LET lost == s \in apps /\ Offered(s) /\ remote[rows[s].acct] # "live"
                     IN lost ~> ~lost
===============================================================================
