--------------------------- MODULE PlanReviewProofs ---------------------------
(***************************************************************************)
(* What is sent is what an approved version says, an approved version and  *)
(* a refusal stay, a person who is waited for has something to decide, and *)
(* no tool runs ahead of the review of the tools before it: for any plan,  *)
(* any number of clients and requests that race each other and the worker. *)
(*                                                                         *)
(* The argument.  Only a draft is edited in place, and no snapshot names a *)
(* draft.  A session has loaded the steps of the plan that its snapshot    *)
(* holds, and has done the steps before the one at hand.  While requests   *)
(* have not raced, no request writes beside a session, so that the status  *)
(* and the review of the run are those the session has loaded.             *)
(***************************************************************************)
EXTENDS PlanReview, SequenceTheorems, NaturalsInduction, WellFoundedInduction, TLAPS

Version == [status : {"draft", "superseded", "approved"}, plan : Plans]
SnapRow == [version : Nat, plan : Plans]
Appr    == [status : {"none", "pending", "approved", "rejected"}, preview : Args \cup {NoArgs},
            grouped : BOOLEAN]
Review  == [enabled : BOOLEAN, between : BOOLEAN, exec : Plans \cup {<<>>},
            pending : SUBSET Steps, reviewed : SUBSET Steps]

\* What the worker's session holds, and what a request has loaded.
Session == [pc : {"step", "preparing"}, at : 1..(N + 1), steps : StepRows, snap : Nat,
            rev : Review]
Want == [kind : {"start"}, plan : Plans, enabled : BOOLEAN, between : BOOLEAN, exec : BOOLEAN,
         again : BOOLEAN]
        \cup [kind : {"approve"}, at : Consequential, edit : Args \cup {NoArgs}]
        \cup [kind : {"reject"}, at : Consequential]
Request == [run : RunStatus \X BOOLEAN \X BOOLEAN \X Plans, steps : StepRows,
            apprs : [Consequential -> Appr], rev : Review, want : Want]

Shapes ==
  /\ direct \in BOOLEAN /\ reapprove \in BOOLEAN /\ approved \in BOOLEAN /\ raced \in BOOLEAN
  /\ status \in RunStatus /\ plan \in Plans /\ steps \in StepRows
  /\ apprs \in [Consequential -> Appr] /\ rev \in Review /\ due \in Nat
  /\ refused \subseteq Consequential /\ faults \in 0..MaxFaults

\* A snapshot is that of an approved version.
Docs ==
  /\ versions \in Seq(Version) /\ Len(versions) > 0 /\ snaps \in Seq(SnapRow)
  /\ \A k \in 1..Len(snaps) :
       /\ snaps[k].version \in 1..Len(versions)
       /\ versions[snaps[k].version].status = "approved"
       /\ versions[snaps[k].version].plan = snaps[k].plan

\* A session has the plan of its snapshot, and has done the steps before its own.
Loaded ==
  /\ wk # Idle => wk \in Session
  /\ wk # Idle => /\ approved /\ wk.snap \in 1..Len(snaps)
                  /\ \A i \in Steps : wk.steps[i].args = snaps[wk.snap].plan[i]
                  /\ \A i \in Steps : i < wk.at => Done(wk.steps, i)
                  /\ \A i \in Steps : steps[i].status = "completed" =>
                                          wk.steps[i].status = "completed"
                  /\ wk.pc = "preparing" =>
                       /\ wk.at \in Consequential
                       /\ wk.steps[wk.at].status \in {"pending", "awaiting"}

Sent ==
  /\ sent \in [Steps -> [args : Args \cup {NoArgs}, under : Nat]]
  /\ \A i \in Steps : sent[i].args # NoArgs =>
       sent[i].under \in 1..Len(snaps) /\ snaps[sent[i].under].plan[i] = sent[i].args

Asked(c)    == req[c] # NoRequest
Decides(c)  == Asked(c) /\ req[c].want.kind \in {"approve", "reject"}
Requests ==
  /\ req \in [Clients -> Request \cup {NoRequest}]
  /\ \A c \in Clients : Asked(c) /\ req[c].want.kind = "approve" =>
       req[c].apprs[req[c].want.at].preview # NoArgs

\* A refused action is out of everybody's hands.
Refusals ==
  \A i \in refused :
    /\ steps[i].status = "skipped" /\ apprs[i].status = "rejected"
    /\ wk # Idle => wk.steps[i].status = "skipped"
    /\ \A c \in Clients : Decides(c) => req[c].want.at # i

\* As long as requests have not raced.
Undisturbed ==
  ~raced => /\ wk # Idle => status = "running" /\ rev = wk.rev
            /\ wk # Idle /\ wk.pc = "preparing" =>
                 wk.steps[wk.at].status = "pending" \/ apprs[wk.at].status = "pending"
            /\ status = "awaiting_approval" /\ approved => Undecided # {} \/ rev.pending # {}

Inv == Shapes /\ Docs /\ Loaded /\ Sent /\ Requests /\ Refusals /\ Undisturbed

\* The action properties, of one step.
Frozen ==
  \A k \in DOMAIN snaps :
    /\ snaps'[k] = snaps[k]
    /\ versions'[snaps[k].version].plan = versions[snaps[k].version].plan
Refused == \A i \in refused : sent'[i] = sent[i]

LEMMA Bounds ==
  /\ N \in Nat \ {0} /\ Consequential \subseteq Steps /\ Grouped \subseteq Consequential
  /\ NoArgs \notin Args /\ MaxVersions \in Nat \ {0} /\ MaxFaults \in Nat
BY ReviewAssumption DEF ReviewAssumption

LEMMA InvImplies == Inv => TypeOK /\ SentUnderSnapshot /\ SomethingToDecide
<1>. SUFFICES ASSUME Inv PROVE TypeOK /\ SentUnderSnapshot /\ SomethingToDecide
  OBVIOUS
<1>1. TypeOK
  <2>1. versions \in Seq([status : {"draft", "superseded", "approved"}, plan : Plans])
    BY DEF Inv, Docs, Version
  <2>2. DOMAIN snaps = 1..Len(snaps) /\ DOMAIN versions = 1..Len(versions)
    BY LenProperties DEF Inv, Docs
  <2>3. \A k \in 1..Len(snaps) : snaps[k] \in SnapRow
    BY ElementOfSeq DEF Inv, Docs
  <2>4. \A k \in DOMAIN snaps : snaps[k].version \in DOMAIN versions /\ snaps[k].plan \in Plans
    BY <2>2, <2>3 DEF Inv, Docs, SnapRow
  <2>. QED
    BY <2>1, <2>4 DEF Inv, Shapes, TypeOK, Appr, Review
<1>2. SentUnderSnapshot
  BY DEF Inv, Sent, Docs, SentUnderSnapshot
<1>3. SomethingToDecide
  BY <1>1 DEF Inv, Undisturbed, SomethingToDecide
<1>. QED
  BY <1>1, <1>2, <1>3
-------------------------------------------------------------------------------
\* Versions and snapshots

\* A new version follows the latest and changes no content.
LEMMA VersionAdded ==
  ASSUME Docs, NEW p \in Plans, NewVersion(p)
  PROVE  /\ versions' \in Seq(Version) /\ Len(versions') = Len(versions) + 1
         /\ versions'[Len(versions')] = [status |-> "approved", plan |-> p]
         /\ \A v \in 1..Len(versions) :
              /\ versions'[v].plan = versions[v].plan
              /\ versions[v].status = "approved" => versions'[v].status = "approved"
<1> DEFINE old == [v \in DOMAIN versions |->
                     IF v = Len(versions) /\ versions[v].status = "draft"
                     THEN [versions[v] EXCEPT !.status = "superseded"] ELSE versions[v]]
           new == [status |-> "approved", plan |-> p]
<1>1. Len(versions) \in Nat /\ DOMAIN versions = 1..Len(versions)
  BY LenProperties DEF Docs
<1>2. \A v \in 1..Len(versions) : versions[v] \in Version
  BY ElementOfSeq DEF Docs
<1>3. \A v \in 1..Len(versions) :
        old[v] \in Version /\ old[v].plan = versions[v].plan
        /\ (versions[v].status = "approved" => old[v].status = "approved")
  BY <1>1, <1>2 DEF Version
<1>4. new \in Version
  BY DEF Version
<1>5. versions' = Append(old, new)
  BY DEF NewVersion
<1>6. DOMAIN old = 1..Len(versions) /\ old = [v \in 1..Len(versions) |-> old[v]]
  BY <1>1
<1>. HIDE DEF old, new
<1>7. old \in Seq(Version) /\ Len(old) = Len(versions)
  BY <1>1, <1>3, <1>6
<1>8. /\ versions' \in Seq(Version) /\ Len(versions') = Len(versions) + 1
      /\ \A v \in 1..Len(versions) : versions'[v] = old[v]
      /\ versions'[Len(versions) + 1] = new
  BY <1>1, <1>4, <1>5, <1>7, AppendProperties
<1>. QED
  BY <1>3, <1>8 DEF new

\* What the two writers of versions do together.
Written(p) ==
  /\ versions' \in Seq(Version) /\ Len(versions') >= Len(versions) /\ Len(versions') > 0
  /\ versions'[Len(versions')].status = "approved" /\ versions'[Len(versions')].plan = p
  /\ \A v \in 1..Len(versions) : versions[v].status = "approved" =>
       versions'[v].plan = versions[v].plan /\ versions'[v].status = "approved"

LEMMA VersionWritten ==
  ASSUME Docs, NEW p \in Plans
  PROVE  /\ NewVersion(p) => Written(p)
         /\ \A edited, again \in BOOLEAN : ApproveVersion(p, edited, again) => Written(p)
<1>1. Len(versions) \in Nat /\ Len(versions) \in 1..Len(versions)
  BY LenProperties DEF Docs
<1>2. versions[Len(versions)] \in Version
  BY <1>1, ElementOfSeq DEF Docs
<1>3. ASSUME NewVersion(p) PROVE Written(p)
  <2>1. /\ versions' \in Seq(Version) /\ Len(versions') = Len(versions) + 1
        /\ versions'[Len(versions')] = [status |-> "approved", plan |-> p]
        /\ \A v \in 1..Len(versions) :
             /\ versions'[v].plan = versions[v].plan
             /\ versions[v].status = "approved" => versions'[v].status = "approved"
    BY <1>3, VersionAdded
  <2>2. versions'[Len(versions')].status = "approved" /\ versions'[Len(versions')].plan = p
    BY <2>1
  <2>3. Len(versions') >= Len(versions) /\ Len(versions') > 0
    BY <1>1, <2>1
  <2>. QED
    BY <2>1, <2>2, <2>3 DEF Written
<1>4. ASSUME NEW e \in Version, versions' = [versions EXCEPT ![Len(versions)] = e],
             e.status = "approved", e.plan = p,
             versions[Len(versions)].status = "approved" => versions[Len(versions)].plan = p
      PROVE  Written(p)
  <2>1. /\ versions' \in Seq(Version) /\ Len(versions') = Len(versions)
        /\ \A v \in 1..Len(versions) : versions'[v] = IF v = Len(versions) THEN e ELSE versions[v]
    BY <1>1, <1>4, ExceptSeq DEF Docs
  <2>. QED
    <3>1. versions'[Len(versions')] = e /\ Len(versions') >= Len(versions) /\ Len(versions') > 0
      BY <1>1, <2>1
    <3>2. ASSUME NEW v \in 1..Len(versions), versions[v].status = "approved"
          PROVE  versions'[v].plan = versions[v].plan /\ versions'[v].status = "approved"
      BY <1>4, <2>1, <3>2
    <3>. QED
      BY <1>4, <2>1, <3>1, <3>2 DEF Written
<1>5. ASSUME NEW edited \in BOOLEAN, NEW again \in BOOLEAN, ApproveVersion(p, edited, again)
      PROVE  Written(p)
  <2>1. CASE edited /\ direct /\ versions[Len(versions)].status = "draft"
    <3>1. versions' = [versions EXCEPT ![Len(versions)] = [status |-> "approved", plan |-> p]]
      BY <1>5, <2>1 DEF ApproveVersion
    <3>2. [status |-> "approved", plan |-> p] \in Version
      BY DEF Version
    <3>. QED
      BY <1>4, <2>1, <3>1, <3>2
  <2>2. CASE ~(edited /\ direct /\ versions[Len(versions)].status = "draft") /\ (edited \/ again)
    BY <1>3, <1>5, <2>2 DEF ApproveVersion
  <2>3. CASE ~edited /\ ~again
    <3> DEFINE e == [versions[Len(versions)] EXCEPT !.status = "approved"]
    <3>1. versions[Len(versions)].plan = p /\ versions' = [versions EXCEPT ![Len(versions)] = e]
      BY <1>5, <2>3 DEF ApproveVersion
    <3>2. e \in Version /\ e.status = "approved" /\ e.plan = versions[Len(versions)].plan
      BY <1>2 DEF Version
    <3>. HIDE DEF e
    <3>. QED
      BY <1>4, <3>1, <3>2
  <2>. QED
    BY <2>1, <2>2, <2>3
<1>. QED
  BY <1>3, <1>5

\* The record of a decision grows, and what it says of approved versions stays.
LEMMA Recorded ==
  ASSUME Docs, NEW p \in Plans, Written(p), Snapshot(p)
  PROVE  /\ Docs' /\ Frozen /\ Len(snaps) \in Nat /\ Len(snaps') = Len(snaps) + 1
         /\ \A k \in 1..Len(snaps) : snaps'[k] = snaps[k]
<1> DEFINE new == [version |-> Len(versions'), plan |-> p]
<1>1. Len(versions') \in Nat /\ Len(versions) \in Nat /\ Len(snaps) \in Nat
      /\ DOMAIN snaps = 1..Len(snaps)
  BY LenProperties DEF Docs, Written
<1>2. new \in SnapRow /\ new.version = Len(versions') /\ new.plan = p
  BY <1>1 DEF SnapRow
<1>3. snaps' = Append(snaps, new)
  BY DEF Snapshot
<1>. HIDE DEF new
<1>4. /\ snaps' \in Seq(SnapRow) /\ Len(snaps') = Len(snaps) + 1
      /\ \A k \in 1..Len(snaps) : snaps'[k] = snaps[k]
      /\ snaps'[Len(snaps) + 1] = new
  BY <1>2, <1>3, AppendProperties DEF Docs
<1>5. Frozen
  BY <1>1, <1>4 DEF Docs, Written, Frozen
<1>6. Docs'
  <2>1. ASSUME NEW k \in 1..Len(snaps')
        PROVE  /\ snaps'[k].version \in 1..Len(versions')
               /\ versions'[snaps'[k].version].status = "approved"
               /\ versions'[snaps'[k].version].plan = snaps'[k].plan
    <3>1. CASE k = Len(snaps) + 1
      BY <1>1, <1>2, <1>4, <3>1 DEF Written
    <3>2. CASE k \in 1..Len(snaps)
      <4>1. snaps'[k] = snaps[k]
        BY <1>4, <3>2
      <4>2. /\ snaps[k].version \in 1..Len(versions)
            /\ versions[snaps[k].version].status = "approved"
            /\ versions[snaps[k].version].plan = snaps[k].plan
        BY <3>2 DEF Docs
      <4>3. /\ versions'[snaps[k].version].status = "approved"
            /\ versions'[snaps[k].version].plan = snaps[k].plan
        BY <4>2 DEF Written
      <4>4. 1..Len(versions) \subseteq 1..Len(versions')
        BY <1>1 DEF Written
      <4>. QED
        BY <4>1, <4>2, <4>3, <4>4
    <3>. QED
      BY <1>1, <1>4, <3>1, <3>2
  <2>. QED
    BY <1>4, <2>1 DEF Docs, Written
<1>. QED
  BY <1>1, <1>4, <1>5, <1>6
-------------------------------------------------------------------------------
\* The review of outputs

LEMMA PendingTyped ==
  ASSUME NEW rs \in StepRows, NEW r \in Review
  PROVE  PendingReview(rs, r) \in SUBSET Steps
BY DEF PendingReview, Review

\* With a review between tools, a step is reached only when the results of the
\* other tools before it have been reviewed.
LEMMA GroupsReviewed ==
  ASSUME NEW rs \in StepRows, NEW r \in Review, r.enabled, r.between, PendingReview(rs, r) = {},
         NEW j \in Steps, \A k \in Steps : k < j => Done(rs, k),
         NEW i \in Steps, i < j, Tool[i] # Tool[j], rs[i].status = "completed"
  PROVE  i \in r.reviewed
<1> DEFINE fresh    == {k \in Steps : rs[k].status = "completed" /\ k \notin r.reviewed}
           first    == CHOOSE x \in fresh : \A y \in fresh : x <= y
           Group(x) == {y \in Steps : \A k \in Steps :
                          (x <= k /\ k <= y) \/ (y <= k /\ k <= x) => Tool[k] = Tool[x]}
<1>. SUFFICES ASSUME i \notin r.reviewed PROVE FALSE
  OBVIOUS
<1>1. Steps \subseteq Nat
  BY Bounds DEF Steps
<1>2. i \in fresh /\ fresh \subseteq Nat
  BY <1>1
<1>3. \E x \in fresh : \A y \in fresh : x <= y
  <2>1. PICK x \in fresh : \A y \in fresh : ~(<<y, x>> \in OpToRel(<, Nat))
    BY <1>2, WFMin, NatLessThanWellFounded
  <2>2. ASSUME NEW y \in fresh PROVE x <= y
    <3>1. x \in Nat /\ y \in Nat
      BY <1>2
    <3>2. y < x => <<y, x>> \in OpToRel(<, Nat)
      BY <3>1 DEF OpToRel
    <3>3. ~(y < x)
      BY <2>1, <3>2, Zenon
    <3>. QED
      BY <3>1, <3>3
  <2>. QED
    BY <2>2
<1>4. first \in fresh /\ \A y \in fresh : first <= y
  BY <1>3
<1>5. first \in Steps /\ first <= i
  BY <1>2, <1>4
<1>6. PendingReview(rs, r) =
        IF r.pending # {} THEN r.pending
        ELSE IF fresh = {} THEN {}
        ELSE IF \A k \in Steps : k <= first \/ k \in Group(first) => Done(rs, k)
             THEN fresh \cap Group(first) ELSE {}
  BY DEF PendingReview
<1>. HIDE DEF fresh, first
<1>7. \A k \in Group(first) : k < j
  <2>. SUFFICES ASSUME NEW k \in Group(first), j <= k PROVE FALSE
    BY <1>1
  <2>1. /\ i \in Nat /\ j \in Nat /\ k \in Nat /\ first \in Nat
        /\ first <= i /\ i < j /\ j <= k
    BY <1>1, <1>5
  <2>2. first <= j /\ i <= k
    BY <2>1
  <2>3. Tool[j] = Tool[first] /\ Tool[i] = Tool[first]
    BY <2>1, <2>2
  <2>. QED
    BY <2>3
<1>8. \A k \in Steps : k <= first \/ k \in Group(first) => Done(rs, k)
  BY <1>1, <1>5, <1>7
<1>9. first \in Group(first)
  <2>1. \A k \in Steps : first <= k /\ k <= first => k = first
    BY <1>1, <1>5
  <2>. QED
    BY <1>5, <2>1
<1>. QED
  BY <1>2, <1>4, <1>6, <1>8, <1>9

\* A pause stores what is to be reviewed.
LEMMA Paused ==
  ASSUME NEW rs \in StepRows, NEW r \in Review, PendingReview(rs, r) # {}, PauseForReview(rs, r)
  PROVE  /\ status' = "awaiting_approval" /\ reapprove' = FALSE
         /\ rev' \in Review /\ rev'.pending # {}
<1>1. rev' = [r EXCEPT !.pending = PendingReview(rs, r)]
  BY DEF PauseForReview
<1>2. [r EXCEPT !.pending = PendingReview(rs, r)] \in Review
  BY PendingTyped DEF Review
<1>3. [r EXCEPT !.pending = PendingReview(rs, r)].pending = PendingReview(rs, r)
  BY DEF Review
<1>. QED
  BY <1>1, <1>2, <1>3 DEF PauseForReview, StoreStatus
-------------------------------------------------------------------------------
\* What each part of the state needs

Grows == /\ Len(snaps) \in Nat /\ Len(snaps') >= Len(snaps) /\ Len(snaps') \in Nat
         /\ \A k \in 1..Len(snaps) : snaps'[k] = snaps[k]

LEMMA DocsKept == ASSUME Docs, UNCHANGED docs PROVE Docs' /\ Grows /\ Frozen
<1>1. Len(snaps) \in Nat
  BY LenProperties DEF Docs
<1>. QED
  BY <1>1 DEF Docs, docs, Grows, Frozen

\* No step is completed but by the session.
LEMMA LoadedKept ==
  ASSUME Loaded, wk' = wk, Grows, approved => approved',
         \A i \in Steps : steps'[i].status = "completed" => steps[i].status = "completed"
  PROVE  Loaded'
<1>1. \A k \in 1..Len(snaps) : k \in 1..Len(snaps')
  BY DEF Grows
<1>. QED
  BY <1>1 DEF Loaded, Grows, Done

LEMMA SentKept == ASSUME Sent, Grows, sent' = sent PROVE Sent' /\ Refused
<1>1. \A k \in 1..Len(snaps) : k \in 1..Len(snaps')
  BY DEF Grows
<1>. QED
  BY <1>1 DEF Sent, Grows, Refused

LEMMA RequestsLeft ==
  ASSUME Requests, NEW c \in Clients, Leave(c)
  PROVE  /\ Requests'
         /\ \A d \in Clients : Decides(d)' => Decides(d) /\ req'[d] = req[d] /\ d # c
BY DEF Requests, Leave, Decides, Asked

LEMMA RequestAdded ==
  ASSUME Shapes, Requests, NEW c \in Clients, NEW w \in Want, Load(c, w),
         w.kind = "approve" => apprs[w.at].preview # NoArgs
  PROVE  /\ Requests'
         /\ \A d \in Clients \ {c} : req'[d] = req[d]
         /\ req'[c].want = w
<1> DEFINE new == [run |-> run, steps |-> steps, apprs |-> apprs, rev |-> rev, want |-> w]
<1>1. run \in RunStatus \X BOOLEAN \X BOOLEAN \X Plans
  BY DEF run, Shapes
<1>2. new \in Request /\ new.apprs = apprs /\ new.want = w
  BY <1>1 DEF Shapes, Request
<1>3. req' = [req EXCEPT ![c] = new]
  BY DEF Load
<1>. HIDE DEF new
<1>4. req' \in [Clients -> Request \cup {NoRequest}]
  BY <1>2, <1>3 DEF Requests
<1>5. req'[c] = new /\ \A d \in Clients \ {c} : req'[d] = req[d]
  BY <1>3 DEF Requests
<1>. QED
  BY <1>2, <1>4, <1>5 DEF Requests, Asked

LEMMA RefusalsKept ==
  ASSUME Refusals, refused' = refused,
         \A i \in refused : steps'[i].status = steps[i].status,
         \A i \in refused : apprs'[i].status = apprs[i].status,
         wk' # Idle => wk # Idle /\ \A i \in refused : wk'.steps[i].status = wk.steps[i].status,
         \A c \in Clients : Decides(c)' => Decides(c) /\ req'[c].want.at = req[c].want.at
  PROVE  Refusals'
BY DEF Refusals

\* What neither a request nor a session has touched.
LEMMA UndisturbedKept ==
  ASSUME Undisturbed, raced' = raced, wk' \in {wk, Idle}, rev' = rev, apprs' = apprs,
         wk' # Idle => status' = status,
         status' = "awaiting_approval" /\ approved' => status = "awaiting_approval" /\ approved
  PROVE  Undisturbed'
BY DEF Undisturbed, Undecided

LEMMA UntouchedRequests ==
  ASSUME Requests, req' = req
  PROVE  /\ Requests'
         /\ \A c \in Clients : Decides(c)' => Decides(c) /\ req'[c].want.at = req[c].want.at
BY DEF Requests, Decides, Asked

\* The deliveries and the clock: nothing but the delivery itself changes.
LEMMA DeliveryKeeps ==
  ASSUME Inv, MissLock \/ Sweep \/ Crash
  PROVE  Inv' /\ Frozen /\ Refused
<1>1. /\ UNCHANGED <<direct, rows, req, hist>> /\ wk' \in {wk, Idle}
      /\ due' \in Nat /\ faults' \in 0..MaxFaults
  <2>1. due \in Nat /\ faults \in 0..MaxFaults /\ MaxFaults \in Nat
    BY Bounds DEF Inv, Shapes
  <2>2. CASE MissLock
    BY <2>1, <2>2 DEF MissLock
  <2>3. CASE Sweep
    BY <2>1, <2>3 DEF Sweep
  <2>4. CASE Crash
    BY <2>1, <2>4 DEF Crash
  <2>. QED
    BY <2>2, <2>3, <2>4
<1>2. Shapes'
  BY <1>1 DEF Inv, Shapes, rows, run, hist
<1>3. Docs' /\ Grows /\ Frozen
  BY <1>1, DocsKept DEF Inv, rows
<1>4. Loaded'
  <2>1. CASE wk' = Idle
    BY <2>1 DEF Loaded
  <2>2. CASE wk' = wk
    BY <1>1, <1>3, <2>2, LoadedKept DEF Inv, rows, run
  <2>. QED
    BY <1>1, <2>1, <2>2
<1>5. Sent' /\ Refused
  BY <1>1, <1>3, SentKept DEF Inv, hist
<1>6. Requests' /\ Refusals'
  BY <1>1, UntouchedRequests, RefusalsKept DEF Inv, rows, hist
<1>7. Undisturbed'
  BY <1>1, UndisturbedKept DEF Inv, rows, run, hist
<1>. QED
  BY <1>2, <1>3, <1>4, <1>5, <1>6, <1>7 DEF Inv

LEMMA AbortKeeps ==
  ASSUME Inv, NEW c \in Clients, Abort(c)
  PROVE  Inv' /\ Frozen /\ Refused
<1>1. UNCHANGED <<direct, rows, due, wk, hist, faults>> /\ Leave(c)
  BY DEF Abort
<1>2. Shapes'
  BY <1>1 DEF Inv, Shapes, rows, run, hist
<1>3. Docs' /\ Grows /\ Frozen
  BY <1>1, DocsKept DEF Inv, rows
<1>4. Loaded' /\ Sent' /\ Refused
  BY <1>1, <1>3, LoadedKept, SentKept DEF Inv, rows, run, hist
<1>5. Requests' /\ Refusals'
  BY <1>1, RequestsLeft, RefusalsKept DEF Inv, rows, hist
<1>6. Undisturbed'
  BY <1>1, UndisturbedKept DEF Inv, rows, run, hist
<1>. QED
  BY <1>2, <1>3, <1>4, <1>5, <1>6 DEF Inv

\* A person decides on the run as a whole, or acknowledges what is shown.
LEMMA RejectPlanKeeps ==
  ASSUME Inv, RejectPlan
  PROVE  Inv' /\ Frozen /\ Refused
<1>1. /\ UNCHANGED <<direct, reapprove, approved, plan, docs, steps, apprs, rev, due, wk, req, hist,
                     faults>>
      /\ status' = "cancelled" /\ (~approved \/ status = "waiting_for_action")
  BY DEF RejectPlan, RequiresReapproval
<1>2. Shapes'
  BY <1>1 DEF Inv, Shapes, hist, RunStatus
<1>3. Docs' /\ Grows /\ Frozen
  BY <1>1, DocsKept DEF Inv
<1>4. Loaded' /\ Sent' /\ Refused
  BY <1>1, <1>3, LoadedKept, SentKept DEF Inv, hist
<1>5. Requests' /\ Refusals'
  BY <1>1, UntouchedRequests, RefusalsKept DEF Inv, hist
<1>6. Undisturbed'
  BY <1>1 DEF Inv, Undisturbed, Loaded, hist
<1>. QED
  BY <1>2, <1>3, <1>4, <1>5, <1>6 DEF Inv

LEMMA ReviewOutputKeeps ==
  ASSUME Inv, ReviewOutput
  PROVE  Inv' /\ Frozen /\ Refused
<1>1. /\ UNCHANGED <<direct, approved, plan, docs, steps, apprs, wk, req, hist, faults>>
      /\ status' = "running" /\ reapprove' = FALSE /\ due' = due + 1
      /\ status = "awaiting_approval"
  BY DEF ReviewOutput
<1>2. Shapes'
  <2>1. rev' \in Review
    BY DEF ReviewOutput, Inv, Shapes, Review
  <2>2. reapprove' \in BOOLEAN
    BY <1>1
  <2>3. due' \in Nat /\ status' \in RunStatus
    BY <1>1 DEF Inv, Shapes, RunStatus
  <2>4. UNCHANGED <<direct, approved, raced, plan, steps, apprs, refused, faults>>
    BY <1>1 DEF hist
  <2>. QED
    BY <2>1, <2>2, <2>3, <2>4 DEF Inv, Shapes
<1>3. Docs' /\ Grows /\ Frozen
  BY <1>1, DocsKept DEF Inv
<1>4. Loaded' /\ Sent' /\ Refused
  BY <1>1, <1>3, LoadedKept, SentKept DEF Inv, hist
<1>5. Requests' /\ Refusals'
  BY <1>1, UntouchedRequests, RefusalsKept DEF Inv, hist
<1>6. Undisturbed'
  BY <1>1 DEF Inv, Undisturbed, hist
<1>. QED
  BY <1>2, <1>3, <1>4, <1>5, <1>6 DEF Inv

LEMMA ResumeReviewedPlanKeeps ==
  ASSUME Inv, ResumeReviewedPlan
  PROVE  Inv' /\ Frozen /\ Refused
<1> DEFINE r == [rev EXCEPT !.enabled = TRUE, !.exec = plan]
<1>1. /\ UNCHANGED <<direct, reapprove, approved, plan, docs, steps, apprs, wk, req, hist, faults>>
      /\ status = "awaiting_approval"
      /\ \/ /\ PendingReview(steps, r) # {} /\ UNCHANGED <<status, due>>
            /\ rev' = [r EXCEPT !.pending = PendingReview(steps, r)]
         \/ rev' = r /\ status' = "running" /\ due' = due + 1
  BY DEF ResumeReviewedPlan
<1>2. r \in Review
  BY DEF Inv, Shapes, Review
<1>3. PendingReview(steps, r) \in SUBSET Steps
  BY <1>2, PendingTyped DEF Inv, Shapes
<1>. HIDE DEF r
<1>4. rev' \in Review /\ (status' = "running" \/ rev'.pending # {})
  BY <1>1, <1>2, <1>3 DEF Review
<1>5. Shapes'
  BY <1>1, <1>4 DEF Inv, Shapes, hist, RunStatus
<1>6. Docs' /\ Grows /\ Frozen
  BY <1>1, DocsKept DEF Inv
<1>7. Loaded' /\ Sent' /\ Refused
  BY <1>1, <1>6, LoadedKept, SentKept DEF Inv, hist
<1>8. Requests' /\ Refusals'
  BY <1>1, UntouchedRequests, RefusalsKept DEF Inv, hist
<1>9. Undisturbed'
  BY <1>1, <1>4 DEF Inv, Undisturbed, hist
<1>. QED
  BY <1>5, <1>6, <1>7, <1>8, <1>9 DEF Inv
-------------------------------------------------------------------------------
\* Requests

LEMMA LoadKeeps ==
  ASSUME Inv, NEW c \in Clients, NEW w \in Want, Load(c, w),
         UNCHANGED <<direct, rows, due, wk, hist, faults>>,
         w.kind = "approve" => apprs[w.at].preview # NoArgs,
         w.kind \in {"approve", "reject"} => w.at \notin refused
  PROVE  Inv' /\ Frozen /\ Refused
<1>1. /\ UNCHANGED <<direct, status, reapprove, approved, plan, steps, apprs, rev, due, wk, sent,
                     refused, raced, faults>>
      /\ UNCHANGED docs
  BY DEF rows, run, hist
<1>2. Shapes'
  BY <1>1 DEF Inv, Shapes
<1>3. Docs' /\ Grows /\ Frozen
  BY <1>1, DocsKept DEF Inv
<1>4. Loaded' /\ Sent' /\ Refused
  BY <1>1, <1>3, LoadedKept, SentKept DEF Inv
<1>5. Requests' /\ req'[c].want = w /\ \A d \in Clients \ {c} : req'[d] = req[d]
  BY RequestAdded DEF Inv
<1>6. Refusals'
  <2>1. ASSUME NEW i \in refused, NEW d \in Clients, Decides(d)'
        PROVE  req'[d].want.at # i
    BY <1>5, <2>1 DEF Inv, Refusals, Decides, Asked
  <2>. QED
    BY <1>1, <2>1 DEF Inv, Refusals
<1>7. Undisturbed'
  BY <1>1, UndisturbedKept DEF Inv
<1>. QED
  BY <1>2, <1>3, <1>4, <1>5, <1>6, <1>7 DEF Inv

LEMMA ReadStartKeeps ==
  ASSUME Inv, NEW c \in Clients, ReadStart(c)
  PROVE  Inv' /\ Frozen /\ Refused
<1>1. PICK p \in Plans, enabled \in BOOLEAN, between \in BOOLEAN, exec \in BOOLEAN :
        Load(c, [kind |-> "start", plan |-> p, enabled |-> enabled, between |-> between,
                 exec |-> exec, again |-> RequiresReapproval])
  BY DEF ReadStart
<1> DEFINE w == [kind |-> "start", plan |-> p, enabled |-> enabled, between |-> between,
                 exec |-> exec, again |-> RequiresReapproval]
<1>2. RequiresReapproval \in BOOLEAN
  BY DEF RequiresReapproval, Inv, Shapes
<1>3. w \in Want /\ w.kind = "start" /\ Load(c, w)
  BY <1>1, <1>2 DEF Want
<1>4. UNCHANGED <<direct, rows, due, wk, hist, faults>>
  BY DEF ReadStart
<1>. HIDE DEF w
<1>. QED
  BY <1>3, <1>4, LoadKeeps

LEMMA ReadDecisionKeeps ==
  ASSUME Inv, NEW c \in Clients, NEW i \in Consequential, ReadDecision(c, i)
  PROVE  Inv' /\ Frozen /\ Refused
<1>1. i \notin refused
  BY DEF ReadDecision, Inv, Refusals
<1>2. UNCHANGED <<direct, rows, due, wk, hist, faults>>
  BY DEF ReadDecision
<1>3. CASE Load(c, [kind |-> "reject", at |-> i])
  <2> DEFINE w == [kind |-> "reject", at |-> i]
  <2>1. w \in Want /\ w.kind = "reject" /\ w.at = i /\ Load(c, w)
    BY <1>3 DEF Want
  <2>. HIDE DEF w
  <2>. QED
    BY <1>1, <1>2, <2>1, LoadKeeps
<1>4. CASE /\ apprs[i].preview # NoArgs
           /\ \E a \in Args \cup {NoArgs} : Load(c, [kind |-> "approve", at |-> i, edit |-> a])
  <2>1. PICK a \in Args \cup {NoArgs} : Load(c, [kind |-> "approve", at |-> i, edit |-> a])
    BY <1>4
  <2> DEFINE w == [kind |-> "approve", at |-> i, edit |-> a]
  <2>2. w \in Want /\ w.kind = "approve" /\ w.at = i /\ Load(c, w)
    BY <2>1 DEF Want
  <2>. HIDE DEF w
  <2>. QED
    BY <1>1, <1>2, <1>4, <2>2, LoadKeeps
<1>. QED
  BY <1>3, <1>4 DEF ReadDecision

\* What a request that writes knows of what is stored.
LEMMA Writer ==
  ASSUME Inv, NEW c \in Clients, req[c] # NoRequest, raced' = (raced \/ Stale(c))
  PROVE  /\ req[c] \in Request /\ raced' \in BOOLEAN
         /\ ~raced' => ~raced /\ req[c].run = run /\ req[c].steps = steps
                       /\ req[c].apprs = apprs /\ wk = Idle
BY DEF Inv, Requests, Shapes, Stale

LEMMA RefreshPreviewKeeps ==
  ASSUME Inv, NEW c \in Clients, RefreshPreview(c)
  PROVE  Inv' /\ Frozen /\ Refused
<1> DEFINE i == req[c].want.at
<1>1. /\ UNCHANGED <<direct, status, reapprove, approved, plan, steps, rev, due, wk, sent, refused,
                     faults>>
      /\ UNCHANGED docs /\ Leave(c) /\ raced' = (raced \/ Stale(c))
      /\ req[c] # NoRequest /\ req[c].want.kind = "approve"
  BY DEF RefreshPreview, run
<1>2. PICK a \in Args : apprs' = [apprs EXCEPT ![i].preview = a, ![i].grouped = FALSE]
  BY DEF RefreshPreview
<1>3. /\ req[c] \in Request /\ raced' \in BOOLEAN
      /\ ~raced' => ~raced /\ wk = Idle
  BY <1>1, Writer
<1>4. i \in Consequential
  BY <1>1, <1>3 DEF Request, Want
<1>. HIDE DEF i
<1>5. /\ apprs' \in [Consequential -> Appr]
      /\ \A j \in Consequential : apprs'[j].status = apprs[j].status
      /\ \A j \in Consequential : apprs'[j].preview = IF j = i THEN a ELSE apprs[j].preview
  BY <1>2, <1>4 DEF Inv, Shapes, Appr
<1>6. Shapes'
  BY <1>1, <1>3, <1>5 DEF Inv, Shapes
<1>7. Docs' /\ Grows /\ Frozen
  BY <1>1, DocsKept DEF Inv
<1>8. Loaded' /\ Sent' /\ Refused
  BY <1>1, <1>7, LoadedKept, SentKept DEF Inv
<1>9. Requests' /\ Refusals'
  <2>1. \A j \in refused : apprs'[j].status = apprs[j].status
    BY <1>5 DEF Inv, Shapes
  <2>. QED
    BY <1>1, <2>1, RequestsLeft, RefusalsKept DEF Inv
<1>10. Undisturbed'
  <2>1. Undecided \subseteq Undecided'
    BY <1>5, Bounds DEF Undecided
  <2>. QED
    BY <1>1, <1>3, <2>1 DEF Inv, Undisturbed
<1>. QED
  BY <1>6, <1>7, <1>8, <1>9, <1>10 DEF Inv

\* The next delivery is asked for, or another action of the group is waited for.
LEMMA Dispatched ==
  ASSUME Inv, NEW c \in Clients, NEW i \in Consequential, req[c] # NoRequest, Dispatch(i, req[c])
  PROVE  /\ status' \in RunStatus /\ reapprove' \in BOOLEAN /\ due' \in Nat
         /\ req[c].run = run /\ req[c].apprs = apprs /\ status' = "awaiting_approval" =>
              \E j \in Consequential \ {i} :
                apprs[j].status = "pending" /\ apprs[j].preview # NoArgs
<1>1. req[c] \in Request
  BY DEF Inv, Requests
<1>2. status \in RunStatus /\ due \in Nat /\ reapprove \in BOOLEAN
  BY DEF Inv, Shapes
<1>3. CASE GroupWaiting(i, req[c])
  <2>1. /\ status' = StoreStatus(status, req[c].run[1], "awaiting_approval") /\ due' = due
        /\ reapprove' = reapprove
    BY <1>3 DEF Dispatch
  <2>2. req[c].apprs = apprs => \E j \in Consequential \ {i} :
                                  apprs[j].status = "pending" /\ apprs[j].preview # NoArgs
    BY <1>3 DEF GroupWaiting
  <2>. QED
    BY <1>2, <2>1, <2>2 DEF StoreStatus, RunStatus
<1>4. CASE ~GroupWaiting(i, req[c])
  <2>1. /\ status' = StoreStatus(status, req[c].run[1], "running") /\ due' = due + 1
        /\ reapprove' = FALSE
    BY <1>4 DEF Dispatch
  <2>2. req[c].run = run => status' = "running"
    BY <2>1 DEF StoreStatus, run
  <2>3. status' \in RunStatus
    BY <1>2, <2>1 DEF StoreStatus, RunStatus
  <2>4. reapprove' \in BOOLEAN
    BY <2>1
  <2>5. due' \in Nat
    BY <1>2, <2>1
  <2>. QED
    BY <2>2, <2>3, <2>4, <2>5
<1>. QED
  BY <1>3, <1>4

\* What a decision leaves waiting, unless it has raced.
LEMMA DecisionUndisturbed ==
  ASSUME Inv, NEW c \in Clients, NEW i \in Consequential, req[c] # NoRequest,
         Dispatch(i, req[c]), raced' = (raced \/ Stale(c)), UNCHANGED <<wk, rev>>,
         \A j \in Consequential \ {i} : apprs'[j] = apprs[j]
  PROVE  Undisturbed'
<1>1. ~raced' => ~raced /\ wk' = Idle /\ req[c].run = run /\ req[c].apprs = apprs
  BY Writer
<1>2. ASSUME ~raced', status' = "awaiting_approval" PROVE Undecided' # {}
  <2>1. PICK j \in Consequential \ {i} : apprs[j].status = "pending" /\ apprs[j].preview # NoArgs
    BY <1>1, <1>2, Dispatched
  <2>. QED
    BY <2>1 DEF Undecided
<1>. QED
  BY <1>1, <1>2 DEF Undisturbed

LEMMA WriteApprovalKeeps ==
  ASSUME Inv, NEW c \in Clients, WriteApproval(c)
  PROVE  Inv' /\ Frozen /\ Refused
<1> DEFINE r == req[c]
           i == r.want.at
           a == IF r.want.edit = NoArgs THEN r.apprs[i].preview ELSE r.want.edit
           edits == r.want.edit # NoArgs \/ a # r.steps[i].args
<1>1. /\ UNCHANGED <<direct, approved, rev, wk, sent, refused, faults>>
      /\ Leave(c) /\ raced' = (raced \/ Stale(c)) /\ Dispatch(i, r)
      /\ r # NoRequest /\ r.want.kind = "approve"
  BY DEF WriteApproval
<1>2. /\ IF edits THEN EditAction(i, a, r) ELSE UNCHANGED <<plan, docs>>
      /\ apprs' = [apprs EXCEPT ![i] = [@ EXCEPT !.status = "approved", !.preview = a]]
      /\ steps' = [steps EXCEPT ![i] =
            [status |-> StoreStatus(steps[i].status, r.steps[i].status, "pending"),
             args |-> IF edits THEN a ELSE @.args]]
  BY DEF WriteApproval
<1>3. /\ r \in Request /\ raced' \in BOOLEAN
      /\ ~raced' => ~raced /\ r.run = run /\ r.steps = steps /\ r.apprs = apprs /\ wk = Idle
  BY <1>1, Writer
<1>4. i \in Consequential /\ r.want.edit \in Args \cup {NoArgs} /\ i \in Steps
  BY <1>1, <1>3, Bounds DEF Request, Want
<1>5. a \in Args
  BY <1>1, <1>3, <1>4 DEF Inv, Requests, Asked, Request, Appr
<1>. HIDE DEF i, a, edits
<1>6. /\ status' \in RunStatus /\ reapprove' \in BOOLEAN /\ due' \in Nat
  BY <1>1, <1>4, Dispatched
<1>7. /\ apprs' \in [Consequential -> Appr]
      /\ \A j \in Consequential \ {i} : apprs'[j] = apprs[j]
  <2>1. [apprs[i] EXCEPT !.status = "approved", !.preview = a] \in Appr
    BY <1>4, <1>5 DEF Inv, Shapes, Appr
  <2>. QED
    BY <1>2, <1>4, <2>1 DEF Inv, Shapes
<1>8. /\ steps' \in StepRows
      /\ \A j \in Steps \ {i} : steps'[j] = steps[j]
      /\ steps'[i].status = "completed" => steps[i].status = "completed"
  BY <1>2, <1>4, <1>5 DEF Inv, Shapes, StepRows, StoreStatus
<1>9. plan' \in Plans /\ Docs' /\ Grows /\ Frozen
  <2>1. CASE edits
    <3> DEFINE p == [r.run[4] EXCEPT ![i] = a]
    <3>1. r.run[4] \in Plans
      BY <1>3 DEF Request
    <3>2. p \in Plans
      BY <1>4, <1>5, <3>1 DEF Plans
    <3>3. plan' = p /\ NewVersion(p) /\ Snapshot(p)
      BY <1>2, <2>1 DEF EditAction
    <3>. HIDE DEF p
    <3>4. Written(p)
      BY <3>2, <3>3, VersionWritten DEF Inv
    <3>5. /\ Docs' /\ Frozen /\ Len(snaps) \in Nat /\ Len(snaps') = Len(snaps) + 1
          /\ \A k \in 1..Len(snaps) : snaps'[k] = snaps[k]
      BY <3>2, <3>3, <3>4, Recorded DEF Inv
    <3>. QED
      BY <3>2, <3>3, <3>5 DEF Grows
  <2>2. CASE ~edits
    BY <1>2, <2>2, DocsKept DEF Inv, Shapes
  <2>. QED
    BY <2>1, <2>2
<1>10. Shapes'
  BY <1>1, <1>3, <1>6, <1>7, <1>8, <1>9 DEF Inv, Shapes
<1>11. Loaded' /\ Sent' /\ Refused
  BY <1>1, <1>8, <1>9, LoadedKept, SentKept DEF Inv
<1>12. Requests' /\ Refusals'
  <2>1. i \notin refused
    BY <1>1 DEF Inv, Refusals, Decides, Asked, i
  <2>2. \A j \in refused : steps'[j] = steps[j] /\ apprs'[j] = apprs[j]
    BY <1>7, <1>8, <2>1, Bounds DEF Inv, Shapes
  <2>. QED
    BY <1>1, <2>2, RequestsLeft, RefusalsKept DEF Inv
<1>13. Undisturbed'
  BY <1>1, <1>4, <1>7, DecisionUndisturbed
<1>. QED
  BY <1>9, <1>10, <1>11, <1>12, <1>13 DEF Inv

LEMMA WriteRejectionKeeps ==
  ASSUME Inv, NEW c \in Clients, WriteRejection(c)
  PROVE  Inv' /\ Frozen /\ Refused
<1> DEFINE r == req[c]
           i == r.want.at
<1>1. /\ UNCHANGED <<direct, approved, plan, rev, wk, sent, faults>> /\ UNCHANGED docs
      /\ Leave(c) /\ raced' = (raced \/ Stale(c)) /\ Dispatch(i, r)
      /\ r # NoRequest /\ r.want.kind = "reject"
  BY DEF WriteRejection
<1>2. /\ apprs' = [apprs EXCEPT ![i].status = "rejected"]
      /\ steps' = [steps EXCEPT ![i].status =
                      StoreStatus(steps[i].status, r.steps[i].status, "skipped")]
      /\ refused' = IF Quiet(c) /\ ~Stale(c) THEN refused \cup {i} ELSE refused
  BY DEF WriteRejection
<1>3. /\ r \in Request /\ raced' \in BOOLEAN
      /\ ~raced' => ~raced /\ r.run = run /\ r.steps = steps /\ r.apprs = apprs /\ wk = Idle
  BY <1>1, Writer
<1>4. i \in Consequential /\ i \in Steps
  BY <1>1, <1>3, Bounds DEF Request, Want
<1>5. \A j \in refused : j # i
  BY <1>1 DEF Inv, Refusals, Decides, Asked
<1>. HIDE DEF i
<1>6. status' \in RunStatus /\ reapprove' \in BOOLEAN /\ due' \in Nat
  BY <1>1, <1>4, Dispatched
<1>7. /\ apprs' \in [Consequential -> Appr] /\ apprs'[i].status = "rejected"
      /\ \A j \in Consequential \ {i} : apprs'[j] = apprs[j]
  BY <1>2, <1>4 DEF Inv, Shapes, Appr
<1>8. /\ steps' \in StepRows
      /\ \A j \in Steps \ {i} : steps'[j] = steps[j]
      /\ steps'[i].status = StoreStatus(steps[i].status, r.steps[i].status, "skipped")
  BY <1>2, <1>4 DEF Inv, Shapes, StepRows, StoreStatus
<1>9. Docs' /\ Grows /\ Frozen
  BY <1>1, DocsKept DEF Inv
<1>10. Shapes'
  <2>1. refused' \subseteq Consequential
    BY <1>2, <1>4 DEF Inv, Shapes
  <2>. QED
    BY <1>1, <1>3, <1>6, <1>7, <1>8, <2>1 DEF Inv, Shapes
<1>11. Loaded' /\ Sent' /\ Refused
  <2>1. \A j \in Steps : steps'[j].status = "completed" => steps[j].status = "completed"
    BY <1>8 DEF StoreStatus
  <2>. QED
    BY <1>1, <1>9, <2>1, LoadedKept, SentKept DEF Inv
<1>12. /\ Requests'
       /\ \A d \in Clients : Decides(d)' => Decides(d) /\ req'[d] = req[d] /\ d # c
  BY <1>1, RequestsLeft DEF Inv
<1>13. Refusals'
  <2>1. ASSUME NEW j \in refused
        PROVE  /\ steps'[j].status = "skipped" /\ apprs'[j].status = "rejected"
               /\ wk' # Idle => wk'.steps[j].status = "skipped"
               /\ \A d \in Clients : Decides(d)' => req'[d].want.at # j
    <3>1. j \in Consequential \ {i} /\ j \in Steps
      BY <1>5, Bounds DEF Inv, Shapes
    <3>. QED
      BY <1>1, <1>7, <1>8, <1>12, <3>1 DEF Inv, Refusals
  <2>2. ASSUME Quiet(c), ~Stale(c)
        PROVE  /\ steps'[i].status = "skipped" /\ apprs'[i].status = "rejected" /\ wk' = Idle
               /\ \A d \in Clients : ~Decides(d)'
    <3>1. steps'[i].status = "skipped"
      BY <1>8, <2>2 DEF StoreStatus, Stale
    <3>2. \A d \in Clients : ~Decides(d)'
      BY <1>12, <2>2 DEF Quiet, Decides, Asked
    <3>. QED
      BY <1>1, <1>7, <2>2, <3>1, <3>2 DEF Quiet
  <2>. QED
    BY <1>2, <2>1, <2>2 DEF Refusals
<1>14. Undisturbed'
  BY <1>1, <1>4, <1>7, DecisionUndisturbed
<1>. QED
  BY <1>9, <1>10, <1>11, <1>12, <1>13, <1>14 DEF Inv

\* A Start that changes nothing of the plan, or edits it, or repeats its review.
LEMMA WriteStartKeeps ==
  ASSUME Inv, NEW c \in Clients, WriteStart(c)
  PROVE  Inv' /\ Frozen /\ Refused
<1> DEFINE r == req[c]
           w == r.want
           edited == w.plan # r.run[4]
<1>1. /\ UNCHANGED <<direct, wk, sent, faults>> /\ Leave(c)
      /\ raced' = (raced \/ Stale(c)) /\ r # NoRequest /\ w.kind = "start"
      /\ ApproveVersion(w.plan, edited, w.again) /\ Snapshot(w.plan)
      /\ plan' = w.plan /\ approved' = TRUE /\ status' = "running" /\ reapprove' = FALSE
      /\ due' = due + 1 /\ refused' = {}
  BY DEF WriteStart
<1>2. /\ steps' = [i \in Steps |->
            [status |-> IF r.steps[i].status = "completed" \/ i \notin Consequential
                        THEN steps[i].status
                        ELSE StoreStatus(steps[i].status, r.steps[i].status, "awaiting"),
             args   |-> IF edited THEN w.plan[i] ELSE steps[i].args]]
      /\ apprs' = [i \in Consequential |->
            IF r.steps[i].status = "completed" THEN apprs[i]
            ELSE [status |-> "pending", preview |-> NoArgs, grouped |-> FALSE]]
      /\ rev' = [enabled |-> w.enabled, between |-> w.between, pending |-> {},
                  exec |-> IF w.exec THEN w.plan ELSE <<>>, reviewed |-> r.rev.reviewed]
  BY DEF WriteStart
<1>3. /\ r \in Request /\ raced' \in BOOLEAN
      /\ ~raced' => wk = Idle
  BY <1>1, Writer
<1>4. /\ w.plan \in Plans /\ w.enabled \in BOOLEAN /\ w.between \in BOOLEAN /\ w.exec \in BOOLEAN
      /\ w.again \in BOOLEAN
  <2>1. w \in Want
    BY <1>3 DEF Request
  <2>2. w.kind = "start"
    BY <1>1
  <2>. QED
    BY <2>1, <2>2 DEF Want
<1>5. edited \in BOOLEAN /\ r.rev.reviewed \in SUBSET Steps
  <2>1. r.rev \in Review
    BY <1>3 DEF Request
  <2>. QED
    BY <2>1 DEF Review
<1>. HIDE DEF edited
<1>6. Written(w.plan)
  BY <1>1, <1>4, <1>5, VersionWritten DEF Inv
<1>7. Docs' /\ Frozen /\ Grows
  <2>1. /\ Docs' /\ Frozen /\ Len(snaps) \in Nat /\ Len(snaps') = Len(snaps) + 1
        /\ \A k \in 1..Len(snaps) : snaps'[k] = snaps[k]
    BY <1>1, <1>4, <1>6, Recorded DEF Inv
  <2>. QED
    BY <2>1 DEF Grows
<1>8. rev' \in Review
  <2>1. (IF w.exec THEN w.plan ELSE <<>>) \in Plans \cup {<<>>}
    BY <1>4
  <2>. QED
    BY <1>2, <1>4, <1>5, <2>1 DEF Review
<1>9. apprs' \in [Consequential -> Appr]
  BY <1>2 DEF Inv, Shapes, Appr
<1>10. /\ steps' \in StepRows
       /\ \A i \in Steps : steps'[i].status = "completed" => steps[i].status = "completed"
  <2>1. \A i \in Steps : w.plan[i] \in Args
    BY <1>4 DEF Plans
  <2>. QED
    BY <1>2, <2>1 DEF Inv, Shapes, StepRows, StoreStatus
<1>11. Shapes'
  <2>1. approved' \in BOOLEAN /\ reapprove' \in BOOLEAN
    BY <1>1
  <2>2. due' \in Nat /\ status' \in RunStatus /\ plan' \in Plans /\ refused' \subseteq Consequential
    BY <1>1, <1>4 DEF Inv, Shapes, RunStatus
  <2>3. UNCHANGED <<direct, faults>>
    BY <1>1
  <2>. QED
    BY <1>3, <1>8, <1>9, <1>10, <2>1, <2>2, <2>3 DEF Inv, Shapes
<1>12. Loaded' /\ Sent' /\ Refused
  <2>1. approved'
    BY <1>1
  <2>. QED
    BY <1>1, <1>7, <1>10, <2>1, LoadedKept, SentKept DEF Inv
<1>13. Requests' /\ Refusals'
  BY <1>1, RequestsLeft DEF Inv, Refusals
<1>14. Undisturbed'
  BY <1>1, <1>3 DEF Undisturbed
<1>. QED
  BY <1>7, <1>11, <1>12, <1>13, <1>14 DEF Inv
-------------------------------------------------------------------------------
\* The worker

\* What a step of the worker has to keep.
LEMMA WorkerKeeps ==
  ASSUME Inv, UNCHANGED <<direct, approved, plan, docs, req, refused, raced, faults>>,
         status' \in RunStatus, reapprove' \in BOOLEAN, due' \in Nat, steps' \in StepRows,
         apprs' \in [Consequential -> Appr], rev' \in Review,
         Loaded', Sent', Undisturbed',
         \A i \in refused : steps'[i].status = steps[i].status,
         \A i \in refused : apprs'[i].status = apprs[i].status,
         wk' # Idle => \A i \in refused : wk'.steps[i].status = "skipped"
  PROVE  Inv' /\ Frozen
<1>1. Docs' /\ Frozen
  BY DocsKept DEF Inv
<1>2. Shapes'
  BY DEF Inv, Shapes
<1>3. Requests' /\ \A c \in Clients : Decides(c)' => Decides(c) /\ req'[c].want.at = req[c].want.at
  BY UntouchedRequests DEF Inv
<1>4. Refusals'
  BY <1>3 DEF Inv, Refusals
<1>. QED
  BY <1>1, <1>2, <1>3, <1>4 DEF Inv

\* The session is over: nothing is loaded any more.
LEMMA SessionOver ==
  ASSUME Inv, wk' = Idle, raced' = raced,
         ~raced /\ status' = "awaiting_approval" /\ approved' =>
           Undecided' # {} \/ rev'.pending # {}
  PROVE  Loaded' /\ Undisturbed'
BY DEF Loaded, Undisturbed

LEMMA SentSame ==
  ASSUME Inv, UNCHANGED <<docs, sent>>
  PROVE  Sent' /\ Refused
BY DocsKept, SentKept DEF Inv

LEMMA BeginKeeps ==
  ASSUME Inv, Begin
  PROVE  Inv' /\ Frozen /\ Refused
<1>1. /\ UNCHANGED <<direct, approved, plan, docs, steps, apprs, req, hist, faults>>
      /\ wk = Idle /\ due > 0 /\ due' = due - 1
  BY DEF Begin
<1>2. /\ due' \in Nat /\ steps' \in StepRows /\ apprs' \in [Consequential -> Appr]
      /\ UNCHANGED <<refused, raced, sent>>
  BY <1>1 DEF Inv, Shapes, hist
<1>3. Sent' /\ Refused
  BY <1>1, <1>2, SentSame
<1>4. \/ /\ UNCHANGED <<status, reapprove, wk, rev>>
      \/ /\ ~approved /\ status' = "awaiting_approval" /\ reapprove' = TRUE
         /\ UNCHANGED <<wk, rev>>
      \/ /\ status' = "waiting_for_action" /\ reapprove' \in {TRUE, reapprove}
         /\ UNCHANGED <<wk, rev>>
      \/ /\ PendingReview(steps, rev) # {} /\ PauseForReview(steps, rev) /\ UNCHANGED wk
      \/ /\ approved /\ snaps # <<>> /\ Newest.plan = plan
         /\ \A i \in Steps : steps[i].args = plan[i]
         /\ wk' = [pc |-> "step", at |-> 1, steps |-> steps, snap |-> Len(snaps), rev |-> rev]
         /\ status' = "running" /\ reapprove' = FALSE /\ rev' = rev
  BY DEF Begin
<1>5. ASSUME wk' = Idle, status' \in RunStatus, reapprove' \in BOOLEAN, rev' \in Review,
             ~raced /\ status' = "awaiting_approval" /\ approved =>
               Undecided' # {} \/ rev'.pending # {}
      PROVE  Inv' /\ Frozen
  <2>1. Loaded' /\ Undisturbed'
    BY <1>1, <1>2, <1>5, SessionOver
  <2>. QED
    BY <1>1, <1>2, <1>3, <1>5, <2>1, WorkerKeeps
<1>6. CASE UNCHANGED <<status, reapprove, wk, rev>>
  <2>1. ~raced /\ status' = "awaiting_approval" /\ approved => Undecided' # {} \/ rev'.pending # {}
    BY <1>1, <1>6 DEF Inv, Undisturbed, Undecided
  <2>2. status' \in RunStatus /\ reapprove' \in BOOLEAN /\ rev' \in Review /\ wk' = Idle
    BY <1>1, <1>6 DEF Inv, Shapes
  <2>. QED
    BY <1>3, <1>5, <2>1, <2>2
<1>7. CASE /\ ~approved /\ status' = "awaiting_approval" /\ reapprove' = TRUE
           /\ UNCHANGED <<wk, rev>>
  <2>1. reapprove' \in BOOLEAN
    BY <1>7
  <2>2. status' \in RunStatus /\ rev' \in Review /\ wk' = Idle
    BY <1>1, <1>7 DEF Inv, Shapes, RunStatus
  <2>. QED
    BY <1>3, <1>5, <1>7, <2>1, <2>2
<1>8. CASE /\ status' = "waiting_for_action" /\ reapprove' \in {TRUE, reapprove}
           /\ UNCHANGED <<wk, rev>>
  <2>1. reapprove' \in BOOLEAN
    BY <1>8 DEF Inv, Shapes
  <2>2. status' \in RunStatus /\ rev' \in Review /\ wk' = Idle /\ status' # "awaiting_approval"
    BY <1>1, <1>8 DEF Inv, Shapes, RunStatus
  <2>. QED
    BY <1>3, <1>5, <2>1, <2>2
<1>9. CASE /\ PendingReview(steps, rev) # {} /\ PauseForReview(steps, rev) /\ UNCHANGED wk
  <2>1. status' = "awaiting_approval" /\ reapprove' = FALSE /\ rev' \in Review /\ rev'.pending # {}
    BY <1>9, Paused DEF Inv, Shapes
  <2>2. reapprove' \in BOOLEAN
    BY <2>1
  <2>3. status' \in RunStatus /\ wk' = Idle
    BY <1>1, <1>9, <2>1 DEF RunStatus
  <2>. QED
    BY <1>3, <1>5, <2>1, <2>2, <2>3
<1>10. CASE /\ approved /\ snaps # <<>> /\ Newest.plan = plan
            /\ \A i \in Steps : steps[i].args = plan[i]
            /\ wk' = [pc |-> "step", at |-> 1, steps |-> steps, snap |-> Len(snaps), rev |-> rev]
            /\ status' = "running" /\ reapprove' = FALSE /\ rev' = rev
  <2>1. Len(snaps) \in 1..Len(snaps) /\ Len(snaps) \in Nat /\ snaps' = snaps
    BY <1>1, <1>10, EmptySeq, LenProperties DEF Inv, Docs, docs
  <2>2. wk' \in Session
    BY <1>10, <2>1, Bounds DEF Inv, Shapes, Session
  <2>3. /\ wk'.snap = Len(snaps) /\ wk'.at = 1 /\ wk'.pc = "step" /\ wk'.steps = steps
        /\ wk'.rev = rev
    BY <1>10
  <2>4. \A i \in Steps : ~(i < 1)
    BY Bounds DEF Steps
  <2>5. Loaded'
    BY <1>1, <1>10, <2>1, <2>2, <2>3, <2>4 DEF Loaded, Newest
  <2>6. Undisturbed'
    BY <1>10, <2>3 DEF Undisturbed
  <2>7. reapprove' \in BOOLEAN
    BY <1>10
  <2>8. status' \in RunStatus /\ rev' \in Review
    BY <1>10 DEF Inv, Shapes, RunStatus
  <2>9. \A i \in refused : wk'.steps[i].status = "skipped"
    BY <2>3 DEF Inv, Refusals
  <2>. QED
    BY <1>1, <1>2, <1>3, <2>5, <2>6, <2>7, <2>8, <2>9, WorkerKeeps
<1>. QED
  BY <1>4, <1>6, <1>7, <1>8, <1>9, <1>10

\* What is known while a session is at a step of the plan.
LEMMA AtStep ==
  ASSUME Inv, wk # Idle
  PROVE  /\ wk \in Session /\ approved /\ wk.snap \in 1..Len(snaps)
         /\ wk.rev \in Review /\ wk.steps \in StepRows
         /\ \A i \in Steps : wk.steps[i].args = snaps[wk.snap].plan[i]
         /\ \A i \in Steps : i < At => Done(wk.steps, i)
         /\ \A i \in Steps : steps[i].status = "completed" => wk.steps[i].status = "completed"
         /\ \A i \in refused : i \in Steps /\ wk.steps[i].status = "skipped"
         /\ ~raced => status = "running" /\ rev = wk.rev
         /\ At \in 1..(N + 1) /\ (At <= N => At \in Steps)
<1>1. wk \in Session
  BY DEF Inv, Loaded
<1>2. wk.rev \in Review /\ wk.steps \in StepRows /\ At \in 1..(N + 1)
  BY <1>1 DEF Session, At
<1>3. At <= N => At \in Steps
  BY <1>2, Bounds DEF Steps
<1>4. refused \subseteq Steps
  BY Bounds DEF Inv, Shapes
<1>. QED
  BY <1>1, <1>2, <1>3, <1>4 DEF Inv, Loaded, Refusals, Undisturbed, At

\* The session ends with a pause for what is to be reviewed.
LEMMA PauseEnds ==
  ASSUME Inv, NEW rs \in StepRows, wk # Idle, PendingReview(rs, wk.rev) # {},
         PauseForReview(rs, wk.rev), wk' = Idle, Sent',
         UNCHANGED <<direct, approved, plan, docs, apprs, due, req, refused, raced, faults>>,
         steps' \in StepRows, \A i \in refused : steps'[i].status = steps[i].status
  PROVE  Inv' /\ Frozen
<1>1. status' = "awaiting_approval" /\ reapprove' = FALSE /\ rev' \in Review /\ rev'.pending # {}
  BY AtStep, Paused
<1>2. Loaded' /\ Undisturbed'
  BY <1>1, SessionOver
<1>3. reapprove' \in BOOLEAN
  BY <1>1
<1>4. due' \in Nat /\ apprs' \in [Consequential -> Appr] /\ status' \in RunStatus
  BY <1>1 DEF Inv, Shapes, RunStatus
<1>. QED
  BY <1>1, <1>2, <1>3, <1>4, WorkerKeeps

\* The session ends with another status than the one that waits for a person.
LEMMA EndsElsewhere ==
  ASSUME Inv, wk # Idle, wk' = Idle, UNCHANGED sent,
         UNCHANGED <<direct, reapprove, approved, plan, docs, apprs, rev, due, req, refused, raced,
                     faults>>,
         NEW s \in {"waiting_for_action", "completed", "failed"},
         status' = StoreStatus(status, "running", s),
         steps' \in StepRows, \A i \in refused : steps'[i].status = steps[i].status
  PROVE  Inv' /\ Frozen /\ Refused
<1>1. status' \in RunStatus /\ status' # "awaiting_approval"
  BY DEF StoreStatus, RunStatus
<1>2. Loaded' /\ Undisturbed'
  BY <1>1, SessionOver
<1>3. Sent' /\ Refused
  BY SentSame
<1>. QED
  BY <1>1, <1>2, <1>3, WorkerKeeps DEF Inv, Shapes

LEMMA PassKeeps ==
  ASSUME Inv, wk # Idle, Pass
  PROVE  Inv' /\ Frozen /\ Refused
<1>1. /\ wk.pc = "step" /\ At <= N /\ Done(wk.steps, At)
      /\ UNCHANGED <<direct, approved, plan, docs, steps, apprs, due, req, hist, faults>>
      /\ \/ /\ PendingReview(wk.steps, wk.rev) # {} /\ PauseForReview(wk.steps, wk.rev)
            /\ wk' = Idle
         \/ wk' = [wk EXCEPT !.at = @ + 1] /\ UNCHANGED <<status, reapprove, rev>>
  BY DEF Pass
<1>2. Sent' /\ Refused /\ UNCHANGED <<refused, raced>>
  BY <1>1, SentSame DEF hist
<1>3. CASE /\ PendingReview(wk.steps, wk.rev) # {} /\ PauseForReview(wk.steps, wk.rev)
           /\ wk' = Idle
  <2>1. steps' \in StepRows /\ wk.steps \in StepRows
    BY <1>1, AtStep DEF Inv, Shapes
  <2>. QED
    BY <1>1, <1>2, <1>3, <2>1, PauseEnds
<1>4. CASE wk' = [wk EXCEPT !.at = @ + 1] /\ UNCHANGED <<status, reapprove, rev>>
  <2>1. /\ wk' \in Session /\ wk'.at = At + 1 /\ wk'.pc = "step" /\ wk'.steps = wk.steps
        /\ wk'.snap = wk.snap /\ wk'.rev = wk.rev
    BY <1>1, <1>4, AtStep, Bounds DEF Session, At
  <2>2. \A i \in Steps : i < At + 1 => i < At \/ i = At
    BY AtStep, Bounds DEF Steps
  <2>3. Loaded'
    BY <1>1, <2>1, <2>2, AtStep DEF Loaded, Done, docs
  <2>4. Undisturbed'
    BY <1>2, <1>4, <2>1, AtStep DEF Undisturbed
  <2>5. \A i \in refused : wk'.steps[i].status = "skipped"
    BY <2>1, AtStep
  <2>. QED
    BY <1>1, <1>2, <1>4, <2>3, <2>4, <2>5, WorkerKeeps DEF Inv, Shapes
<1>. QED
  BY <1>1, <1>3, <1>4

LEMMA LoadApprovalKeeps ==
  ASSUME Inv, wk # Idle, LoadApproval
  PROVE  Inv' /\ Frozen /\ Refused
<1>1. /\ wk.pc = "step" /\ At <= N /\ At \in Consequential
      /\ UNCHANGED <<direct, rows, due, req, hist, faults>>
      /\ wk' = [wk EXCEPT !.pc = "preparing"]
      /\ \/ Mine.status = "pending"
         \/ Mine.status = "awaiting" /\ apprs[At].status = "pending"
  BY DEF LoadApproval
<1>2. /\ UNCHANGED <<direct, approved, plan, docs, steps, apprs, status, reapprove, rev, due, req,
                     faults, sent, refused, raced>>
  BY <1>1 DEF rows, run, hist
<1>3. Sent' /\ Refused
  BY <1>2, SentSame
<1>4. /\ wk' \in Session /\ wk'.at = At /\ wk'.pc = "preparing" /\ wk'.steps = wk.steps
      /\ wk'.snap = wk.snap /\ wk'.rev = wk.rev
  BY <1>1, AtStep DEF Session, At
<1>5. Loaded'
  BY <1>1, <1>2, <1>4, AtStep DEF Loaded, Done, docs, Mine
<1>6. Undisturbed'
  BY <1>1, <1>2, <1>4, AtStep DEF Undisturbed, Mine
<1>7. \A i \in refused : wk'.steps[i].status = "skipped"
  BY <1>4, AtStep
<1>. QED
  BY <1>2, <1>3, <1>5, <1>6, <1>7, WorkerKeeps DEF Inv, Shapes

\* The step at hand fails, and the run waits for a person.
LEMMA StepFails ==
  ASSUME Inv, wk # Idle, MissApproval \/ RefuseDispatch
  PROVE  Inv' /\ Frozen /\ Refused
<1>1. /\ At <= N /\ Mine.status \in {"awaiting", "failed"} /\ wk' = Idle
      /\ status' = StoreStatus(status, "running", "waiting_for_action")
      /\ steps' = [steps EXCEPT ![At].status = "failed"]
      /\ UNCHANGED <<direct, reapprove, approved, plan, docs, apprs, rev, due, req, hist, faults>>
  BY DEF MissApproval, RefuseDispatch
<1>2. At \in Steps /\ At \notin refused
  BY <1>1, AtStep DEF Mine
<1>3. steps' \in StepRows /\ \A i \in refused : steps'[i].status = steps[i].status
  BY <1>1, <1>2, AtStep DEF Inv, Shapes, StepRows
<1>. QED
  BY <1>1, <1>3, EndsElsewhere DEF hist

LEMMA FinishRunKeeps ==
  ASSUME Inv, wk # Idle, FinishRun
  PROVE  Inv' /\ Frozen /\ Refused
<1>1. /\ UNCHANGED <<direct, approved, plan, docs, steps, apprs, due, req, hist, faults>>
      /\ wk' = Idle
  BY DEF FinishRun
<1>2. steps' \in StepRows /\ wk.steps \in StepRows /\ UNCHANGED <<sent, refused, raced>>
  BY <1>1, AtStep DEF Inv, Shapes, hist
<1>3. CASE PendingReview(wk.steps, wk.rev) # {}
  <2>1. PauseForReview(wk.steps, wk.rev)
    BY <1>3 DEF FinishRun
  <2>2. Sent' /\ Refused
    BY <1>1, <1>2, SentSame
  <2>. QED
    BY <1>1, <1>2, <1>3, <2>1, <2>2, PauseEnds
<1>4. CASE PendingReview(wk.steps, wk.rev) = {}
  <2>1. PICK s \in {"completed", "failed"} : status' = StoreStatus(status, "running", s)
    BY <1>4 DEF FinishRun
  <2>2. UNCHANGED <<reapprove, rev>>
    BY <1>4 DEF FinishRun
  <2>. QED
    BY <1>1, <1>2, <2>1, <2>2, EndsElsewhere
<1>. QED
  BY <1>3, <1>4

LEMMA StorePreviewKeeps ==
  ASSUME Inv, wk # Idle, StorePreview
  PROVE  Inv' /\ Frozen /\ Refused
<1>1. /\ wk.pc = "preparing" /\ rev' = wk.rev
      /\ UNCHANGED <<direct, approved, plan, docs, due, req, hist, faults>>
  BY DEF StorePreview
<1>2. PICK mates \in SUBSET {j \in Grouped : j > At /\ At \in Grouped /\ ~Authorized
                            /\ wk.steps[j].status = "awaiting" /\ apprs[j].status = "pending"} :
       apprs' = [i \in Consequential |->
                   IF i = At
                   THEN [status  |-> IF Authorized THEN "approved"
                                     ELSE IF Mine.status = "pending" THEN "pending"
                                     ELSE apprs[i].status,
                         preview |-> Mine.args, grouped |-> mates # {}]
                   ELSE IF i \in mates
                   THEN [apprs[i] EXCEPT !.preview = wk.steps[i].args, !.grouped = TRUE]
                   ELSE apprs[i]]
  BY DEF StorePreview
<1>3. /\ At \in Consequential /\ At \in Steps /\ Mine.status \in {"pending", "awaiting"}
      /\ Consequential \subseteq Steps
  BY <1>1, AtStep, Bounds DEF Inv, Loaded, At, Mine
<1>4. Mine.args \in Args /\ \A i \in Steps : wk.steps[i].args \in Args
  BY <1>3, AtStep DEF StepRows, Mine
<1>5. At \notin refused
  BY <1>3, AtStep DEF Mine
<1>6. /\ apprs' \in [Consequential -> Appr]
      /\ \A i \in Consequential \ {At} : apprs'[i].status = apprs[i].status
      /\ apprs'[At].preview = Mine.args
      /\ ~Authorized => apprs'[At].status = IF Mine.status = "pending" THEN "pending"
                                            ELSE apprs[At].status
  <2>1. \A i \in Consequential : apprs[i] \in Appr
    BY DEF Inv, Shapes
  <2>2. \A i \in Consequential :
          /\ [apprs[i] EXCEPT !.preview = wk.steps[i].args, !.grouped = TRUE] \in Appr
          /\ [apprs[i] EXCEPT !.preview = wk.steps[i].args, !.grouped = TRUE].status
               = apprs[i].status
    BY <1>3, <1>4, <2>1 DEF Appr
  <2>3. [status  |-> IF Authorized THEN "approved" ELSE IF Mine.status = "pending" THEN "pending"
                     ELSE apprs[At].status,
         preview |-> Mine.args, grouped |-> mates # {}] \in Appr
    BY <1>3, <1>4, <2>1 DEF Appr
  <2>. QED
    BY <1>2, <1>3, <2>1, <2>2, <2>3
<1>7. \A i \in refused : apprs'[i].status = apprs[i].status
  BY <1>5, <1>6 DEF Inv, Shapes
<1>8. Sent' /\ Refused /\ UNCHANGED <<refused, raced>>
  BY <1>1, SentSame DEF hist
<1>9. rev' \in Review /\ due' \in Nat
  BY <1>1, AtStep DEF Inv, Shapes
<1>10. CASE Authorized
  <2>1. /\ wk' = [wk EXCEPT !.pc = "step", !.steps[At].status = "pending"]
        /\ steps' = [steps EXCEPT ![At].status = "pending"]
        /\ UNCHANGED <<status, reapprove>>
    BY <1>10 DEF StorePreview
  <2>2. /\ wk'.pc = "step" /\ wk'.at = At /\ wk'.snap = wk.snap /\ wk'.rev = wk.rev
        /\ wk'.steps = [wk.steps EXCEPT ![At].status = "pending"]
        /\ wk' = [wk EXCEPT !.pc = "step", !.steps = wk'.steps]
    BY <2>1, AtStep DEF Session, At
  <2>3. /\ wk'.steps \in StepRows
        /\ \A i \in Steps : /\ wk'.steps[i].args = wk.steps[i].args
                            /\ wk'.steps[i].status = IF i = At THEN "pending"
                                                     ELSE wk.steps[i].status
    BY <1>3, <2>2, AtStep DEF StepRows
  <2>4. wk' \in Session
    BY <2>2, <2>3, AtStep DEF Session
  <2>5. /\ steps' \in StepRows
        /\ \A i \in Steps : steps'[i].status = IF i = At THEN "pending" ELSE steps[i].status
    BY <1>3, <2>1 DEF Inv, Shapes, StepRows
  <2>6. \A i \in Steps : i < At => i # At
    BY AtStep, Bounds DEF Steps
  <2>7. Loaded'
    BY <1>1, <2>2, <2>3, <2>4, <2>5, <2>6, AtStep DEF Loaded, Done, docs
  <2>8. Undisturbed'
    BY <1>1, <1>8, <2>1, <2>2, AtStep DEF Undisturbed
  <2>9. /\ \A i \in refused : wk'.steps[i].status = "skipped"
        /\ \A i \in refused : steps'[i].status = steps[i].status
    BY <1>5, <2>3, <2>5, AtStep
  <2>10. status' \in RunStatus /\ reapprove' \in BOOLEAN
    BY <2>1 DEF Inv, Shapes
  <2>. QED
    BY <1>1, <1>6, <1>7, <1>8, <1>9, <2>5, <2>7, <2>8, <2>9, <2>10, WorkerKeeps
<1>11. CASE ~Authorized
  <2>1. /\ wk' = Idle
        /\ steps' = [steps EXCEPT ![At].status =
                       IF Mine.status = "pending" THEN "awaiting" ELSE @]
        /\ status' = StoreStatus(status, "running", "awaiting_approval") /\ reapprove' = FALSE
    BY <1>11 DEF StorePreview
  <2>2. steps' \in StepRows /\ \A i \in refused : steps'[i].status = steps[i].status
    BY <1>3, <1>5, <2>1, AtStep DEF Inv, Shapes, StepRows
  <2>3. ~raced => At \in Undecided'
    <3>1. ~raced => Mine.status = "pending" \/ apprs[At].status = "pending"
      BY <1>1 DEF Inv, Undisturbed, Mine, At
    <3>. QED
      BY <1>3, <1>4, <1>6, <1>11, <3>1, Bounds DEF Undecided
  <2>4. Loaded' /\ Undisturbed'
    BY <1>8, <2>1, <2>3, SessionOver
  <2>5. reapprove' \in BOOLEAN
    BY <2>1
  <2>6. status' \in RunStatus
    BY <2>1 DEF StoreStatus, RunStatus
  <2>. QED
    BY <1>1, <1>6, <1>7, <1>8, <1>9, <2>1, <2>2, <2>4, <2>5, <2>6, WorkerKeeps
<1>. QED
  BY <1>10, <1>11

\* What ReviewedBeforeNextTool says of a step.
Reviewed ==
  \A i, j \in Steps :
    /\ sent'[j] # sent[j] /\ wk.rev.enabled /\ wk.rev.between
    /\ i < j /\ Tool[i] # Tool[j] /\ steps[i].status = "completed"
    => i \in wk.rev.reviewed /\ (i \in rev.reviewed \/ raced)

LEMMA ExecuteStepKeeps ==
  ASSUME Inv, wk # Idle, ExecuteStep
  PROVE  Inv' /\ Frozen /\ Refused /\ Reviewed
<1> DEFINE rs == [wk.steps EXCEPT ![At].status = "completed"]
<1>1. /\ wk.pc = "step" /\ At <= N /\ Mine.status \in {"pending", "failed"}
      /\ PendingReview(wk.steps, wk.rev) = {}
      /\ UNCHANGED <<direct, approved, plan, docs, apprs, due, req, refused, raced, faults>>
      /\ \/ /\ PendingReview(rs, wk.rev) # {} /\ PauseForReview(rs, wk.rev) /\ wk' = Idle
         \/ /\ wk' = [wk EXCEPT !.at = @ + 1, !.steps = rs] /\ rev' = wk.rev
            /\ UNCHANGED <<status, reapprove>>
  BY DEF ExecuteStep
<1>2. /\ sent' = [sent EXCEPT ![At] = [args |-> Mine.args, under |-> wk.snap]]
      /\ steps' = [steps EXCEPT ![At].status = "completed"]
  BY DEF ExecuteStep
<1>3. At \in Steps /\ At \notin refused /\ At \in Nat
  BY <1>1, AtStep, Bounds DEF Mine, Steps
<1>4. /\ rs \in StepRows
      /\ \A i \in Steps : /\ rs[i].args = wk.steps[i].args
                          /\ rs[i].status = IF i = At THEN "completed" ELSE wk.steps[i].status
  BY <1>3, AtStep DEF StepRows
<1>5. /\ steps' \in StepRows
      /\ \A i \in Steps : steps'[i].status = IF i = At THEN "completed" ELSE steps[i].status
  BY <1>2, <1>3 DEF Inv, Shapes, StepRows
<1>6. /\ \A i \in refused : steps'[i].status = steps[i].status /\ rs[i].status = "skipped"
      /\ due' \in Nat /\ apprs' \in [Consequential -> Appr]
  BY <1>1, <1>3, <1>4, <1>5, AtStep DEF Inv, Shapes
<1>7. Mine.args \in Args /\ Mine.args = snaps[wk.snap].plan[At]
  BY <1>3, AtStep DEF Mine, StepRows
<1>8. Sent' /\ Refused /\ \A j \in Steps : sent'[j] # sent[j] => j = At
  <2>1. wk.snap \in Nat /\ wk.snap \in 1..Len(snaps) /\ snaps' = snaps
    BY <1>1, AtStep DEF Session, docs
  <2>2. /\ sent' \in [Steps -> [args : Args \cup {NoArgs}, under : Nat]]
        /\ sent'[At] = [args |-> Mine.args, under |-> wk.snap]
        /\ \A i \in Steps \ {At} : sent'[i] = sent[i]
    BY <1>2, <1>3, <1>7, <2>1 DEF Inv, Sent
  <2>3. Sent'
    <3>1. sent'[At].under = wk.snap /\ sent'[At].args = Mine.args
      BY <2>2
    <3>2. ASSUME NEW i \in Steps, sent'[i].args # NoArgs
          PROVE  sent'[i].under \in 1..Len(snaps') /\ snaps'[sent'[i].under].plan[i] = sent'[i].args
      <4>1. CASE i = At
        BY <1>7, <2>1, <3>1, <4>1
      <4>2. CASE i # At
        BY <2>1, <2>2, <3>2, <4>2 DEF Inv, Sent
      <4>. QED
        BY <4>1, <4>2
    <3>. QED
      BY <2>2, <3>2 DEF Sent
  <2>. QED
    BY <1>3, <2>2, <2>3, AtStep DEF Refused
<1>9. Reviewed
  <2>. SUFFICES ASSUME NEW i \in Steps, wk.rev.enabled, wk.rev.between, i < At,
                       Tool[i] # Tool[At], steps[i].status = "completed"
                PROVE  i \in wk.rev.reviewed /\ (i \in rev.reviewed \/ raced)
    BY <1>8 DEF Reviewed
  <2>1. i \in wk.rev.reviewed
    BY <1>1, <1>3, AtStep, GroupsReviewed
  <2>2. raced \/ rev = wk.rev
    BY AtStep
  <2>. QED
    BY <2>1, <2>2
<1>. HIDE DEF rs
<1>10. CASE /\ PendingReview(rs, wk.rev) # {} /\ PauseForReview(rs, wk.rev) /\ wk' = Idle
  BY <1>1, <1>4, <1>5, <1>6, <1>8, <1>9, <1>10, PauseEnds
<1>11. CASE /\ wk' = [wk EXCEPT !.at = @ + 1, !.steps = rs] /\ rev' = wk.rev
            /\ UNCHANGED <<status, reapprove>>
  <2>1. /\ wk' \in Session /\ wk'.at = At + 1 /\ wk'.pc = "step" /\ wk'.steps = rs
        /\ wk'.snap = wk.snap /\ wk'.rev = wk.rev
    <3>1. wk \in Session /\ At = wk.at /\ At + 1 \in 1..(N + 1) /\ rs \in StepRows
      BY <1>1, <1>4, AtStep, Bounds DEF At
    <3>2. wk' = [wk EXCEPT !.at = At + 1, !.steps = rs]
      BY <1>11, <3>1
    <3>. QED
      BY <1>1, <3>1, <3>2 DEF Session
  <2>2. \A i \in Steps : i < At + 1 => i < At \/ i = At
    BY <1>3, Bounds DEF Steps
  <2>3. Loaded'
    BY <1>1, <1>4, <1>5, <2>1, <2>2, AtStep DEF Loaded, Done, docs
  <2>4. Undisturbed'
    BY <1>1, <1>11, <2>1, AtStep DEF Undisturbed
  <2>5. /\ \A i \in refused : wk'.steps[i].status = "skipped"
        /\ rev' \in Review /\ status' \in RunStatus /\ reapprove' \in BOOLEAN
    BY <1>6, <1>11, <2>1, AtStep DEF Inv, Shapes
  <2>. QED
    BY <1>1, <1>5, <1>6, <1>8, <1>9, <2>3, <2>4, <2>5, WorkerKeeps
<1>. QED
  BY <1>1, <1>10, <1>11
-------------------------------------------------------------------------------
\* A step of the whole

LEMMA InitInv == Init => Inv
<1>. SUFFICES ASSUME Init PROVE Inv
  OBVIOUS
<1>1. plan \in Plans /\ \A i \in Steps : plan[i] \in Args
  BY DEF Init, Plans
<1>2. [status |-> "draft", plan |-> plan] \in Version
  BY <1>1 DEF Version
<1>3. Docs
  <2>1. versions \in Seq(Version) /\ Len(versions) = 1
    BY <1>2 DEF Init
  <2>2. snaps \in Seq(SnapRow) /\ Len(snaps) = 0
    BY EmptySeq DEF Init
  <2>. QED
    BY <2>1, <2>2 DEF Docs
<1>4. NoReview \in Review
  BY DEF NoReview, Review
<1>5. Shapes
  <2>1. steps \in StepRows
    BY <1>1 DEF Init, StepRows
  <2>2. apprs \in [Consequential -> Appr]
    BY DEF Init, Appr
  <2>3. direct \in BOOLEAN /\ reapprove \in BOOLEAN /\ approved \in BOOLEAN /\ raced \in BOOLEAN
    BY DEF Init
  <2>4. status \in RunStatus /\ due \in Nat /\ refused \subseteq Consequential
        /\ faults \in 0..MaxFaults
    BY Bounds DEF Init, RunStatus
  <2>. QED
    BY <1>1, <1>4, <2>1, <2>2, <2>3, <2>4 DEF Shapes, Init
<1>6. Loaded /\ Sent /\ Requests /\ Refusals /\ Undisturbed
  BY DEF Init, Loaded, Sent, Requests, Asked, Refusals, Undisturbed
<1>. QED
  BY <1>3, <1>5, <1>6 DEF Inv

LEMMA StepKeeps ==
  ASSUME Inv, [Next]_vars
  PROVE  Inv' /\ Frozen /\ Refused /\ Reviewed
<1>1. ASSUME sent' = sent PROVE Reviewed
  BY <1>1 DEF Reviewed
<1>2. CASE UNCHANGED vars
  <2>1. /\ UNCHANGED <<direct, status, reapprove, approved, plan, steps, apprs, rev, due, wk, req,
                       sent, refused, raced, faults>>
        /\ UNCHANGED docs
    BY <1>2 DEF vars, docs
  <2>2. Docs' /\ Grows /\ Frozen
    BY <2>1, DocsKept DEF Inv
  <2>3. Shapes' /\ Loaded' /\ Sent' /\ Refused
    BY <2>1, <2>2, LoadedKept, SentKept DEF Inv, Shapes
  <2>4. Requests' /\ Refusals'
    BY <2>1, UntouchedRequests, RefusalsKept DEF Inv
  <2>5. Undisturbed'
    BY <2>1, UndisturbedKept DEF Inv
  <2>. QED
    BY <1>1, <2>1, <2>2, <2>3, <2>4, <2>5 DEF Inv
<1>3. CASE Begin
  BY <1>1, <1>3, BeginKeeps DEF Begin, hist
<1>4. CASE MissLock \/ Sweep \/ Crash
  BY <1>1, <1>4, DeliveryKeeps DEF MissLock, Sweep, Crash, hist
<1>5. CASE wk # Idle /\ (Pass \/ LoadApproval \/ MissApproval \/ StorePreview
                         \/ RefuseDispatch \/ FinishRun)
  <2>1. sent' = sent
    BY <1>5 DEF Pass, LoadApproval, MissApproval, StorePreview, RefuseDispatch, FinishRun, hist
  <2>. QED
    BY <1>1, <1>5, <2>1, PassKeeps, LoadApprovalKeeps, StepFails, StorePreviewKeeps, FinishRunKeeps
<1>6. CASE wk # Idle /\ ExecuteStep
  BY <1>6, ExecuteStepKeeps
<1>7. CASE ReviewOutput \/ ResumeReviewedPlan \/ RejectPlan
  BY <1>1, <1>7, ReviewOutputKeeps, ResumeReviewedPlanKeeps, RejectPlanKeeps
     DEF ReviewOutput, ResumeReviewedPlan, RejectPlan, hist
<1>8. ASSUME NEW c \in Clients, Write(c) \/ ReadStart(c) PROVE Inv' /\ Frozen /\ Refused /\ Reviewed
  <2>1. sent' = sent
    BY <1>8 DEF Write, WriteStart, RefreshPreview, WriteApproval, WriteRejection, Abort, ReadStart,
                hist
  <2>. QED
    BY <1>1, <1>8, <2>1, WriteStartKeeps, RefreshPreviewKeeps, WriteApprovalKeeps,
       WriteRejectionKeeps, AbortKeeps, ReadStartKeeps DEF Write
<1>9. ASSUME NEW c \in Clients, NEW i \in Consequential, ReadDecision(c, i)
      PROVE  Inv' /\ Frozen /\ Refused /\ Reviewed
  BY <1>1, <1>9, ReadDecisionKeeps DEF ReadDecision, hist
<1>. QED
  BY <1>2, <1>3, <1>4, <1>5, <1>6, <1>7, <1>8, <1>9 DEF Next, Work
-------------------------------------------------------------------------------
\* Whatever requests race each other and the worker: what was sent for a step is
\* what the snapshot of the delivery says, and the approved version of that snapshot
\* says the same.
THEOREM OnlyApprovedIsSent == Spec => []SentUnderSnapshot
<1>1. Init => Inv
  BY InitInv
<1>2. Inv /\ [Next]_vars => Inv'
  BY StepKeeps
<1>. QED
  BY <1>1, <1>2, InvImplies, PTL DEF Spec

\* A run that waits for approval shows an action or an output to decide, unless
\* requests have raced; with it, the types of the rows.
THEOREM WaitsWithReason == Spec => []SomethingToDecide
<1>1. Init => Inv
  BY InitInv
<1>2. Inv /\ [Next]_vars => Inv'
  BY StepKeeps
<1>. QED
  BY <1>1, <1>2, InvImplies, PTL DEF Spec

\* No step of a request or of the worker changes the content of an approved version
\* or sends an action that was refused.
THEOREM DecisionsStay == Spec => DecisionsHold
<1>1. Init => Inv
  BY InitInv
<1>2. Inv /\ [Next]_vars => Inv'
  BY StepKeeps
<1>3. Inv /\ [Next]_vars => [Frozen]_vars /\ [Refused]_vars
  BY StepKeeps
<1>. QED
  BY <1>1, <1>2, <1>3, PTL
     DEF Spec, DecisionsHold, ApprovedVersionsFrozen, RefusalHolds, Frozen, Refused

\* With a review between tools, no action is sent before the completed steps of
\* other tools before it have been reviewed, for any plan and any mix of tools.
THEOREM ReviewComesFirst == Spec => ReviewedBeforeNextTool
<1>1. Init => Inv
  BY InitInv
<1>2. Inv /\ [Next]_vars => Inv'
  BY StepKeeps
<1>3. Inv /\ [Next]_vars => [Reviewed]_vars
  BY StepKeeps
<1>. QED
  BY <1>1, <1>2, <1>3, PTL DEF Spec, ReviewedBeforeNextTool, Reviewed
===============================================================================
