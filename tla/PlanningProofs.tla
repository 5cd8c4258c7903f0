----------------------------- MODULE PlanningProofs ----------------------------
(***************************************************************************)
(* What holds of a run that is being planned, whatever the catalog, the    *)
(* prompts, the drafts, the accounts and the number of planners.           *)
(*                                                                         *)
(* The connections.  While one request at a time resumes it, a run is not  *)
(* offered for approval with a connection outstanding: a planner works     *)
(* only under the lock, and while it does the run is "planning" and        *)
(* nothing is pending; a request that has read the run finds, when it      *)
(* writes, the requirements it has seen, because nobody but a request      *)
(* moves a waiting run, except to cancel it.                               *)
(*                                                                         *)
(* The plans.  A stored plan is in order, within its bound, and its writes *)
(* are marked for review.  That is a fact about the compiler, one lemma    *)
(* for each of its passes; a plan then reaches the run only through the    *)
(* delivery that carries it.  The pass that reads documents back inserts   *)
(* steps: what it has built after the first k steps is described by        *)
(* WholeUpto, and the k are counted up to the length of the plan.          *)
(***************************************************************************)
EXTENDS Planning, SequenceTheorems, FiniteSetTheorems, WellFoundedInduction, TLAPS

\* The requests of one run come one after the other.
OneClient == \A c, d \in Clients : c = d

\* A session that is under way owns the lock, and the run is being planned.
Owned ==
  /\ DOMAIN planner = Planners
  /\ \A p \in Planners : planner[p].pc # "idle" => holder = p
  /\ holder # NoPlanner => status = "planning"

\* A request that has read knows the requirements as they are.
Fresh ==
  /\ DOMAIN req = Clients
  /\ \A c \in Clients : req[c] # NoRequest =>
       status \in {"waiting_for_action", "cancelled"} /\ req[c].seen = Pending

\* Nothing is outstanding before the run has come to wait.
Settled ==
  /\ DOMAIN reqs = Caps
  /\ status \in {"queued", "planning", "awaiting_approval"} => Pending = {}

Inv == Owned /\ Fresh /\ Settled

\* A planner that is under way is alone, and no request has read the run.
LEMMA Alone ==
  ASSUME Inv, NEW p \in Planners, planner[p].pc # "idle"
  PROVE  /\ holder = p /\ status = "planning" /\ Pending = {}
         /\ \A q \in Planners \ {p} : planner[q].pc = "idle"
         /\ \A c \in Clients : req[c] = NoRequest
  BY PlanningAssumption DEF Inv, Owned, Fresh, Settled

\* The lock is given back.
LEMMA LeaveKeeps ==
  ASSUME Inv, NEW p \in Planners, planner[p].pc # "idle", Leave(p), req' = req,
         DOMAIN reqs' = Caps,
         status' \in {"queued", "planning", "awaiting_approval"} => Pending' = {}
  PROVE  Inv'
<1>1. planner' = [planner EXCEPT ![p] = Idle] /\ holder' = NoPlanner
  BY DEF Leave
<1>2. \A q \in Planners : planner'[q].pc = "idle"
  BY <1>1, Alone DEF Inv, Owned, Idle
<1>3. Owned'
  BY <1>1, <1>2 DEF Inv, Owned
<1>4. Fresh'
  BY Alone DEF Inv, Fresh
<1>. QED
  BY <1>3, <1>4 DEF Inv, Settled

\* A step of a planner that goes on working.
LEMMA WorkKeeps ==
  ASSUME Inv, NEW p \in Planners, planner[p].pc # "idle",
         DOMAIN planner' = Planners, \A q \in Planners \ {p} : planner'[q] = planner[q],
         UNCHANGED <<holder, status, req, reqs>>
  PROVE  Inv'
<1>1. holder = p /\ status = "planning" /\ \A q \in Planners \ {p} : planner[q].pc = "idle"
  BY Alone
<1>2. Owned'
  BY <1>1 DEF Inv, Owned
<1>. QED
  BY <1>2 DEF Inv, Fresh, Settled, Pending

\* Neither the planners, the requirements nor the requests are touched, and the
\* run does not become one that is planned or offered.
LEMMA Elsewhere ==
  ASSUME Inv, UNCHANGED <<holder, planner, req, reqs>>,
         \/ status' = status
         \/ holder = NoPlanner /\ status' = "cancelled"
         \/ /\ holder = NoPlanner /\ \A c \in Clients : req[c] = NoRequest
            /\ Pending # {} => status' \notin {"queued", "planning", "awaiting_approval"}
  PROVE  Inv'
  BY DEF Inv, Owned, Fresh, Settled, Pending

\* The requirements that are added are pending, the others stay as they were.
LEMMA RequireKeeps ==
  ASSUME Inv, NEW cs, Require(cs)
  PROVE  DOMAIN reqs' = Caps /\ (cs = {} => Pending' = Pending)
  BY DEF Inv, Settled, Require, Pending

\* What a failed attempt does to the status.
LEMMA RecoverMoves ==
  ASSUME NEW category, Recover(category)
  PROVE  status' \in {"planning", "waiting_for_action", "blocked"}
  BY DEF Recover, Transition
-------------------------------------------------------------------------------
\* What a planner does, and a crash that ends it.
LEMMA PlannerSteps ==
  ASSUME Inv, NEW p \in Planners, Plan(p) \/ Crash(p)
  PROVE  Inv'
<1>1. planner[p].pc # "idle"
  BY DEF Plan, UseSaved, UseRecipe, AskModel, DecidePlan, AskForDetails, Lacks, FailPlanning,
         FailDelivery, Crash
<1>2. /\ holder = p /\ status = "planning" /\ Pending = {}
      /\ \A c \in Clients : req[c] = NoRequest
  BY <1>1, Alone
<1>3. ASSUME UseSaved(p) \/ UseRecipe(p) \/ AskModel(p) PROVE Inv'
  <2>1. /\ DOMAIN planner' = Planners /\ \A q \in Planners \ {p} : planner'[q] = planner[q]
        /\ UNCHANGED <<holder, status, req, reqs>>
    BY <1>3 DEF UseSaved, UseRecipe, AskModel, run, Inv, Owned
  <2>. QED
    BY <2>1, <1>1, WorkKeeps
<1>4. CASE DecidePlan(p)
  <2>1. PICK missing : /\ Require(missing)
                       /\ IF missing = {} THEN status' = "awaiting_approval"
                                          ELSE status' = "waiting_for_action"
    BY <1>4 DEF DecidePlan, Transition
  <2>2. DOMAIN reqs' = Caps /\ (missing = {} => Pending' = {})
    BY <2>1, <1>2, RequireKeeps
  <2>3. Leave(p) /\ req' = req
    BY <1>4 DEF DecidePlan
  <2>. QED
    BY <2>1, <2>2, <2>3, <1>1, LeaveKeeps
<1>5. CASE AskForDetails(p)
  <2>1. Leave(p) /\ req' = req /\ reqs' = reqs /\ status' = "waiting_for_action"
    BY <1>5 DEF AskForDetails, Transition
  <2>. QED
    BY <2>1, <1>1, LeaveKeeps DEF Inv, Settled
<1>6. CASE Lacks(p)
  <2>1. Leave(p) /\ req' = req
    BY <1>6 DEF Lacks
  <2>2. \/ reqs' = reqs
        \/ status' = "waiting_for_action" /\ \E cs : Require(cs)
    BY <1>6 DEF Lacks, Transition
  <2>3. DOMAIN reqs' = Caps /\ (status' # "waiting_for_action" => Pending' = {})
    BY <2>2, <1>2, RequireKeeps DEF Inv, Settled, Pending
  <2>. QED
    BY <2>1, <2>3, <1>1, LeaveKeeps
<1>7. CASE FailPlanning(p)
  <2>1. Leave(p) /\ req' = req
    BY <1>7 DEF FailPlanning
  <2>2. \/ reqs' = reqs
        \/ status' = "waiting_for_action" /\ \E cs : Require(cs)
    BY <1>7 DEF FailPlanning, Transition
  <2>3. DOMAIN reqs' = Caps /\ (status' # "waiting_for_action" => Pending' = {})
    BY <2>2, <1>2, RequireKeeps DEF Inv, Settled, Pending
  <2>. QED
    BY <2>1, <2>3, <1>1, LeaveKeeps
<1>8. CASE FailDelivery(p) \/ Crash(p)
  <2>1. Leave(p) /\ req' = req /\ reqs' = reqs
    BY <1>8 DEF FailDelivery, Crash
  <2>. QED
    BY <2>1, <1>1, <1>2, LeaveKeeps DEF Inv, Settled, Pending
<1>. QED
  BY <1>3, <1>4, <1>5, <1>6, <1>7, <1>8 DEF Plan

\* A delivery begins to plan, or finds the run taken.
LEMMA DeliverySteps ==
  ASSUME Inv, NEW p \in Planners, BeginPlanning(p) \/ MissLock(p)
  PROVE  Inv'
<1>1. CASE BeginPlanning(p) /\ status \in Plannable
  <2>1. /\ holder = NoPlanner /\ holder' = p /\ status' = "planning"
        /\ UNCHANGED <<req, reqs>>
        /\ DOMAIN planner' = Planners /\ \A q \in Planners \ {p} : planner'[q] = planner[q]
    BY <1>1 DEF BeginPlanning, Transition, Inv, Owned
  <2>2. Pending = {} /\ \A c \in Clients : req[c] = NoRequest
    BY <1>1 DEF Inv, Fresh, Settled, Plannable
  <2>3. \A q \in Planners : planner[q].pc = "idle"
    BY <2>1, PlanningAssumption DEF Inv, Owned
  <2>4. Owned'
    BY <2>1, <2>3 DEF Owned
  <2>. QED
    BY <2>1, <2>2, <2>4 DEF Inv, Fresh, Settled, Pending
<1>2. CASE (BeginPlanning(p) /\ status \notin Plannable) \/ MissLock(p)
  <2>1. UNCHANGED <<holder, planner, req, reqs, status>>
    BY <1>2 DEF BeginPlanning, MissLock, run
  <2>. QED
    BY <2>1, Elsewhere
<1>. QED
  BY <1>1, <1>2

\* The sweep, a start and a cancellation move a run that nobody plans.
LEMMA RunSteps ==
  ASSUME Inv, RecoverStale \/ Start \/ Cancel
  PROVE  Inv'
<1>1. CASE RecoverStale
  <2>1. /\ holder = NoPlanner /\ UNCHANGED <<holder, planner, req, reqs>>
        /\ status \in {"queued", "planning"}
    BY <1>1 DEF RecoverStale, Plannable
  <2>2. Pending = {} /\ \A c \in Clients : req[c] = NoRequest
    BY <2>1 DEF Inv, Fresh, Settled
  <2>. QED
    BY <2>1, <2>2, Elsewhere
<1>2. CASE Start
  <2>1. status = "awaiting_approval" /\ UNCHANGED <<holder, planner, req>>
    BY <1>2 DEF Start
  <2>2. holder = NoPlanner /\ \A c \in Clients : req[c] = NoRequest
    BY <2>1 DEF Inv, Owned, Fresh
  <2>3. /\ status' \in {"running", "waiting_for_action", "cancelled"}
        /\ reqs' = reqs \/ \E cs : Require(cs)
    BY <1>2 DEF Start, Transition
  <2>4. DOMAIN reqs' = Caps
    BY <2>3, RequireKeeps DEF Inv, Settled
  <2>. QED
    BY <2>1, <2>2, <2>3, <2>4 DEF Inv, Owned, Fresh, Settled
<1>3. CASE Cancel
  <2>1. /\ UNCHANGED <<holder, planner, req, reqs>>
        /\ status' = status \/ (status # "planning" /\ status' = "cancelled")
    BY <1>3 DEF Cancel, Transition
  <2>2. status # "planning" => holder = NoPlanner
    BY DEF Inv, Owned
  <2>. QED
    BY <2>1, <2>2, Elsewhere
<1>. QED
  BY <1>1, <1>2, <1>3

\* A request that writes finds what it has read.
LEMMA RequestSteps ==
  ASSUME OneClient, Inv, NEW c \in Clients,
         WriteResume(c) \/ \E a \in Accounts : ReadResume(c, a)
  PROVE  Inv'
<1>1. CASE \E a \in Accounts : ReadResume(c, a)
  <2>1. PICK a \in Accounts : ReadResume(c, a)
    BY <1>1
  <2>2. /\ status = "waiting_for_action" /\ UNCHANGED <<holder, planner, reqs, status>>
        /\ req' = [req EXCEPT ![c] = [seen |-> Pending, account |-> a]]
    BY <2>1 DEF ReadResume, run
  <2>3. Fresh'
    BY <2>2, OneClient DEF Inv, Fresh, Pending, OneClient
  <2>. QED
    BY <2>2, <2>3 DEF Inv, Owned, Settled, Pending
<1>2. CASE WriteResume(c)
  <2>1. /\ req[c] # NoRequest /\ req' = [req EXCEPT ![c] = NoRequest]
        /\ UNCHANGED <<holder, planner>>
    BY <1>2 DEF WriteResume
  <2>2. /\ status \in {"waiting_for_action", "cancelled"} /\ req[c].seen = Pending
        /\ holder = NoPlanner
    BY <2>1 DEF Inv, Owned, Fresh
  <2>3. \A d \in Clients : req'[d] = NoRequest
    BY <2>1 DEF Inv, Fresh, OneClient
  <2>4. DOMAIN reqs' = Caps /\ (status' = status \/ Pending' = {})
    BY <1>2, <2>2 DEF WriteResume, Pending
  <2>5. Owned' /\ Fresh'
    BY <2>1, <2>2, <2>3 DEF Inv, Owned, Fresh
  <2>. QED
    BY <2>2, <2>4, <2>5 DEF Inv, Settled
<1>. QED
  BY <1>1, <1>2

\* A run that has just been created.
LEMMA InitEstablishes ==
  ASSUME Init PROVE Inv
  BY PlanningAssumption DEF Init, Inv, Owned, Fresh, Settled, Pending, Idle

\* Every step of a run keeps the connections in order.
LEMMA NextKeeps ==
  ASSUME OneClient, Inv, [Next]_vars PROVE Inv'
<1>1. CASE Deliver
  BY <1>1, DeliverySteps DEF Deliver
<1>2. CASE \E p \in Planners : Plan(p) \/ Crash(p)
  BY <1>2, PlannerSteps
<1>3. CASE RecoverStale \/ Start \/ Cancel
  BY <1>3, RunSteps
<1>4. CASE \E c \in Clients : WriteResume(c) \/ \E a \in Accounts : ReadResume(c, a)
  BY <1>4, RequestSteps
<1>5. CASE Elapse \/ (\E a \in Accounts : Connect(a) \/ Disconnect(a)) \/ UNCHANGED vars
  <2>1. UNCHANGED <<holder, planner, req, reqs, status>>
    BY <1>5 DEF Elapse, Connect, Disconnect, vars, run
  <2>. QED
    BY <2>1, Elsewhere
<1>. QED
  BY <1>1, <1>2, <1>3, <1>4, <1>5 DEF Next

\* While the requests that bring a connection come one after the other, a run is
\* never offered for approval with one of its requirements outstanding
\* (orchestrator.py:2034-2036): for any catalog, accounts and number of planners,
\* over crashes, lost deliveries, disconnections and cancellations.
THEOREM OfferedConnected ==
  ASSUME OneClient PROVE Spec => []OfferedWhenConnected
<1>1. Init => Inv
  BY InitEstablishes
<1>2. Inv /\ [Next]_vars => Inv'
  BY NextKeeps
<1>3. Inv => OfferedWhenConnected
  BY DEF Inv, Settled, OfferedWhenConnected
<1>. QED
  BY <1>1, <1>2, <1>3, PTL DEF Spec
--------------------------------------------------------------------------------
\* Counting, and what the sequences of the compiler come to

\* A set of numbers has a least one.
LEMMA Least ==
  ASSUME NEW T \in SUBSET Nat, T # {} PROVE \E x \in T : \A y \in T : x <= y
<1>1. PICK x \in T : \A y \in T : ~(<<y, x>> \in OpToRel(<, Nat))
  BY WFMin, NatLessThanWellFounded
<1>2. ASSUME NEW y \in T PROVE x <= y
  <2>1. x \in Nat /\ y \in Nat
    OBVIOUS
  <2>2. y < x => <<y, x>> \in OpToRel(<, Nat)
    BY <2>1 DEF OpToRel
  <2>3. ~(y < x)
    BY <1>1, <2>2, Zenon
  <2>. QED
    BY <2>1, <2>3
<1>. QED
  BY <1>2

\* A set that starts at 1 and goes from each number to the next has all of them.
LEMMA CountUp ==
  ASSUME NEW T, NEW n \in Nat, 1 \in T, \A i \in 1..n : i + 1 \in 1..n /\ i \in T => i + 1 \in T
  PROVE  1..n \subseteq T
<1>1. SUFFICES ASSUME (1..n) \ T # {} PROVE FALSE
  OBVIOUS
<1>2. PICK x \in (1..n) \ T : \A y \in (1..n) \ T : x <= y
  <2>1. (1..n) \ T \in SUBSET Nat
    OBVIOUS
  <2>. QED
    BY <1>1, <2>1, Least
<1>3. x \in Nat /\ x # 1 /\ x >= 1 /\ x <= n /\ x \notin T
  BY <1>2
<1>4. x - 1 \in 1..n /\ ~(x <= x - 1) /\ (x - 1) + 1 = x
  BY <1>3
<1>5. x - 1 \in T
  BY <1>2, <1>4
<1>. QED
  BY <1>3, <1>4, <1>5

\* A function on 1..n whose members are in S is a sequence.
LEMMA AsSeq ==
  ASSUME NEW S, NEW n \in Nat, NEW f \in [1..n -> S]
  PROVE  f \in Seq(S) /\ Len(f) = n /\ DOMAIN f = 1..n
<1>1. f \in Seq(S) /\ DOMAIN f = 1..n
  BY SeqDef
<1>. QED
  BY <1>1, LenProperties

\* Two pieces of one step each.
LEMMA PairIsConcat ==
  ASSUME NEW w, NEW r PROVE <<w>> \o <<r>> = <<w, r>>
<1>1. PICK a, b : a = <<w>> \o <<r>> /\ b = <<w, r>>
  OBVIOUS
<1>2. /\ <<w>> \in Seq({w, r}) /\ <<r>> \in Seq({w, r}) /\ b \in Seq({w, r})
      /\ Len(<<w>>) = 1 /\ Len(<<r>>) = 1 /\ Len(b) = 2
  BY <1>1
<1>3. Len(a) = 2 /\ a \in Seq({w, r}) /\ a[1] = w /\ a[2] = r
  BY <1>1, <1>2, ConcatProperties
<1>4. b[1] = w /\ b[2] = r
  BY <1>1
<1>5. \A i \in 1..Len(a) : a[i] = b[i]
  <2>1. \A i \in 1..2 : i = 1 \/ i = 2
    OBVIOUS
  <2>. QED
    BY <1>3, <1>4, <2>1
<1>6. a = b
  BY <1>2, <1>3, <1>5, SeqEqual
<1>. QED
  BY <1>1, <1>6

\* What has been joined after each piece.
Joined(S, n, ss, f) ==
  f \in [1..n -> Seq(S)] /\ f[1] = ss[1] /\ \A i \in 2..n : f[i] = f[i - 1] \o ss[i]

\* FlattenSeq joins the pieces one after the other.
LEMMA Flatten ==
  ASSUME NEW S, NEW n \in Nat \ {0}, NEW ss \in [1..n -> Seq(S)]
  PROVE  \E f : Joined(S, n, ss, f) /\ FlattenSeq(ss) = f[n]
<1> DEFINE Glued(f, m) == f \in [1..m -> Seq(S)]
                          /\ \A i \in 1..m : f[i] = IF i = 1 THEN ss[i] ELSE f[i - 1] \o ss[i]
           T == {m \in 1..n : \E f : Glued(f, m)}
<1>1. 1 \in T
  <2>1. PICK g : g = [i \in 1..1 |-> ss[1]]
    OBVIOUS
  <2>2. ss[1] \in Seq(S) /\ 1 \in 1..n
    OBVIOUS
  <2>3. g \in [1..1 -> Seq(S)] /\ \A i \in 1..1 : i = 1 /\ g[i] = ss[i]
    BY <2>1, <2>2
  <2>4. Glued(g, 1)
    BY <2>3
  <2>. QED
    BY <2>2, <2>4
<1>2. ASSUME NEW m \in 1..n, m + 1 \in 1..n, m \in T PROVE m + 1 \in T
  <2>1. PICK f : Glued(f, m)
    BY <1>2
  <2>2. m \in Nat /\ m >= 1 /\ f[m] \in Seq(S) /\ ss[m + 1] \in Seq(S)
    BY <2>1, <1>2
  <2>3. f[m] \o ss[m + 1] \in Seq(S)
    BY <2>2, ConcatProperties
  <2>4. PICK g : g = [i \in 1..(m + 1) |-> IF i <= m THEN f[i] ELSE f[m] \o ss[m + 1]]
    OBVIOUS
  <2>5. g \in [1..(m + 1) -> Seq(S)]
    <3>1. \A i \in 1..(m + 1) : i <= m => i \in 1..m
      BY <2>2
    <3>. QED
      BY <2>1, <2>3, <2>4, <3>1
  <2>6. ASSUME NEW i \in 1..(m + 1) PROVE g[i] = IF i = 1 THEN ss[i] ELSE g[i - 1] \o ss[i]
    <3>1. CASE i <= m
      <4>1. i \in 1..m /\ g[i] = f[i]
        BY <2>2, <2>4, <3>1
      <4>2. i # 1 => i - 1 \in 1..(m + 1) /\ i - 1 <= m
        BY <2>2, <4>1
      <4>3. i # 1 => g[i - 1] = f[i - 1]
        BY <2>4, <4>2
      <4>. QED
        BY <2>1, <4>1, <4>3
    <3>2. CASE ~(i <= m)
      <4>1. i = m + 1 /\ i # 1 /\ i - 1 = m /\ m \in 1..(m + 1)
        BY <2>2, <3>2
      <4>2. m <= m /\ ~(m + 1 <= m) /\ m + 1 \in 1..(m + 1)
        BY <2>2
      <4>3. g[m + 1] = f[m] \o ss[m + 1] /\ g[m] = f[m]
        BY <2>4, <4>1, <4>2
      <4>. QED
        BY <4>1, <4>3
    <3>. QED
      BY <3>1, <3>2
  <2>7. Glued(g, m + 1)
    BY <2>5, <2>6
  <2>. QED
    BY <1>2, <2>7
<1>3. n \in T
  <2>1. \A i \in 1..n : i + 1 \in 1..n /\ i \in T => i + 1 \in T
    BY <1>2
  <2>2. 1..n \subseteq T
    <3>. HIDE DEF T
    <3>. QED
      BY <1>1, <2>1, CountUp
  <2>3. n \in 1..n
    OBVIOUS
  <2>. QED
    BY <2>2, <2>3
<1>4. Len(ss) = n
  BY AsSeq
<1> DEFINE Whole(g) == g = [i \in 1..n |-> IF i = 1 THEN ss[i] ELSE g[i - 1] \o ss[i]]
           f == CHOOSE g : Whole(g)
<1>5. Whole(f)
  <2>1. PICK g : Glued(g, n)
    BY <1>3
  <2>2. Whole(g)
    BY <2>1
  <2>. HIDE DEF Whole
  <2>. QED
    BY <2>2, Zenon
<1>6. FlattenSeq(ss) = f[n]
  BY <1>4 DEF FlattenSeq
<1>. HIDE DEF f, T
<1>7. f[1] = ss[1] /\ DOMAIN f = 1..n
  BY <1>5
<1>8. ASSUME NEW i \in 2..n PROVE f[i] = f[i - 1] \o ss[i]
  <2>1. i \in 1..n /\ i # 1
    OBVIOUS
  <2>. QED
    BY <1>5, <2>1
<1> DEFINE U == {m \in 1..n : f[m] \in Seq(S)}
<1>9. 1 \in U
  BY <1>7
<1>10. ASSUME NEW m \in 1..n, m + 1 \in 1..n, m \in U PROVE m + 1 \in U
  <2>1. m \in Nat /\ m + 1 \in 2..n /\ (m + 1) - 1 = m /\ ss[m + 1] \in Seq(S) /\ f[m] \in Seq(S)
    BY <1>10
  <2>2. f[m + 1] = f[m] \o ss[m + 1]
    BY <1>8, <2>1
  <2>3. f[m + 1] \in Seq(S)
    BY <2>1, <2>2, ConcatProperties
  <2>. QED
    BY <1>10, <2>3
<1>11. 1..n \subseteq U
  <2>1. \A i \in 1..n : i + 1 \in 1..n /\ i \in U => i + 1 \in U
    BY <1>10
  <2>. HIDE DEF U
  <2>. QED
    BY <1>9, <2>1, CountUp
<1>12. f \in [1..n -> Seq(S)]
  BY <1>5, <1>7, <1>11
<1>. QED
  BY <1>6, <1>7, <1>8, <1>12 DEF Joined
--------------------------------------------------------------------------------
\* The passes of the compiler
\* What the argument needs to know of a step, and of a plan.
Fields == {"key", "tool", "op", "fallback", "optional", "consequential", "depends_on", "uses",
           "names", "inputs", "vague", "narrative", "required_evidence"}

IsPlan(p) == /\ Len(p) \in Nat /\ DOMAIN p = 1..Len(p)
             /\ \A i \in DOMAIN p : DOMAIN p[i] = Fields /\ p[i].key \in Nat

\* The same steps one by one, whose other fields may have changed.
SameKeys(p, q) == /\ q = [i \in DOMAIN p |-> q[i]]
                  /\ \A i \in DOMAIN p : DOMAIN q[i] = DOMAIN p[i] /\ q[i].key = p[i].key

\* A draft or a recipe is a plan in this sense.
LEMMA PlanOf ==
  ASSUME NEW p \in Seq(PlanStep) PROVE IsPlan(p)
<1>1. Len(p) \in Nat /\ DOMAIN p = 1..Len(p) /\ \A i \in DOMAIN p : p[i] \in PlanStep
  BY LenProperties, ElementOfSeq
<1>2. \A s \in PlanStep : DOMAIN s = Fields /\ s.key \in Nat
  BY DEF PlanStep, Fields
<1>. QED
  BY <1>1, <1>2 DEF IsPlan

\* A pass that keeps the keys and only adds dependencies on earlier steps keeps the order.
LEMMA SameKeysKeep ==
  ASSUME NEW p, IsPlan(p), WellFormed(p), NEW q, SameKeys(p, q),
         \A i \in DOMAIN p : q[i].depends_on \subseteq Earlier(p, i)
  PROVE  IsPlan(q) /\ WellFormed(q) /\ \A i \in DOMAIN p : Earlier(q, i) = Earlier(p, i)
<1>1. Len(q) = Len(p)
  <2>1. PICK S : S = {q[i] : i \in DOMAIN p}
    OBVIOUS
  <2>2. q \in [1..Len(p) -> S] /\ Len(p) \in Nat
    BY <2>1 DEF IsPlan, SameKeys
  <2>. QED
    BY <2>2, AsSeq
<1>2. IsPlan(q)
  BY <1>1 DEF IsPlan, SameKeys
<1>3. ASSUME NEW i \in DOMAIN p PROVE Earlier(q, i) = Earlier(p, i)
  <2>1. \A j \in 1..(i - 1) : j \in DOMAIN p
    BY DEF IsPlan
  <2>. QED
    BY <2>1 DEF Earlier, SameKeys
<1>4. WellFormed(q)
  BY <1>1, <1>3 DEF WellFormed, SameKeys
<1>. QED
  BY <1>2, <1>3, <1>4

\* A reference that becomes a dependency is one to an earlier step.
LEMMA NormalizeGraphKeeps ==
  ASSUME NEW p, IsPlan(p), WellFormed(p)
  PROVE  IsPlan(NormalizeGraph(p)) /\ WellFormed(NormalizeGraph(p))
<1>1. PICK q : q = NormalizeGraph(p)
  OBVIOUS
<1>2. SameKeys(p, q)
  BY <1>1 DEF NormalizeGraph, SameKeys, IsPlan, Fields
<1>3. \A i \in DOMAIN p : q[i].depends_on \subseteq Earlier(p, i)
  BY <1>1 DEF NormalizeGraph, WellFormed, IsPlan, Fields
<1>. QED
  BY <1>1, <1>2, <1>3, SameKeysKeep

\* A tool that is filled in changes nothing else.
LEMMA AssignToolsKeeps ==
  ASSUME NEW p, IsPlan(p), WellFormed(p), NEW inv
  PROVE  IsPlan(AssignTools(p, inv)) /\ WellFormed(AssignTools(p, inv))
<1>1. PICK q : q = AssignTools(p, inv)
  OBVIOUS
<1>2. SameKeys(p, q) /\ \A i \in DOMAIN p : q[i].depends_on = p[i].depends_on
  BY <1>1 DEF AssignTools, SameKeys, IsPlan, Fields
<1>3. \A i \in DOMAIN p : q[i].depends_on \subseteq Earlier(p, i)
  BY <1>2 DEF WellFormed
<1>. QED
  BY <1>1, <1>2, <1>3, SameKeysKeep

\* The same step, that may wait for more and may have become consequential.
Grown(s, t) == /\ t.key = s.key /\ t.tool = s.tool /\ t.op = s.op /\ t.uses = s.uses
               /\ s.depends_on \subseteq t.depends_on /\ (s.consequential => t.consequential)

\* A backup changes neither the order nor what is marked.
LEMMA AddBackupsKeeps ==
  ASSUME NEW p, IsPlan(p), WellFormed(p), NEW inv, NEW r
  PROVE  LET q == AddBackups(r, inv, p) IN
         IsPlan(q) /\ WellFormed(q) /\ DOMAIN q = DOMAIN p /\ \A i \in DOMAIN p : Grown(p[i], q[i])
<1>1. PICK q : q = AddBackups(r, inv, p)
  OBVIOUS
<1>2. CASE q = p
  BY <1>1, <1>2 DEF Grown
<1>3. CASE q # p
  <2>1. q = [i \in DOMAIN p |-> IF Primary(p[i]) = Chat /\ p[i].fallback = NoCall
                                THEN [p[i] EXCEPT !.fallback = Backup] ELSE p[i]]
    BY <1>1, <1>3 DEF AddBackups
  <2>2. SameKeys(p, q) /\ \A i \in DOMAIN p : q[i].depends_on = p[i].depends_on
    BY <2>1 DEF SameKeys, IsPlan, Fields
  <2>3. \A i \in DOMAIN p : Grown(p[i], q[i])
    BY <2>1 DEF IsPlan, Fields, Grown
  <2>4. \A i \in DOMAIN p : q[i].depends_on \subseteq Earlier(p, i)
    BY <2>2 DEF WellFormed
  <2>. QED
    BY <1>1, <2>1, <2>2, <2>3, <2>4, SameKeysKeep
<1>. QED
  BY <1>2, <1>3

\* The reads that a step is made to wait for come before it.
LEMMA NormalizeStepsKeeps ==
  ASSUME NEW p, IsPlan(p), WellFormed(p)
  PROVE  IsPlan(NormalizeSteps(p)) /\ WellFormed(NormalizeSteps(p))
<1>1. PICK q : q = NormalizeSteps(p)
  OBVIOUS
<1>2. SameKeys(p, q)
  BY <1>1 DEF NormalizeSteps, SameKeys, IsPlan, Fields
<1>3. \A i \in DOMAIN p : q[i].depends_on \subseteq Earlier(p, i)
  BY <1>1 DEF NormalizeSteps, WellFormed, Earlier, IsPlan, Fields
<1>. QED
  BY <1>1, <1>2, <1>3, SameKeysKeep

\* Every write of a plan is shown, but for the export of a design that is shown.
WritesMarked(p) == \A s \in Steps(p) : IsWrite(s.op) => s.consequential \/ Derivative(p, s)

\* A pass that only grows the steps, and adds none that writes, keeps every write marked.
LEMMA MarksStay ==
  ASSUME NEW p, WritesMarked(p), NEW q,
         \A t \in Steps(q) : IsWrite(t.op) => \E s \in Steps(p) : Grown(s, t),
         \A s \in Steps(p) : \E t \in Steps(q) : Grown(s, t)
  PROVE  WritesMarked(q)
<1>1. SUFFICES ASSUME NEW t \in Steps(q), IsWrite(t.op), ~t.consequential PROVE Derivative(q, t)
  BY DEF WritesMarked
<1>2. PICK s \in Steps(p) : Grown(s, t)
  BY <1>1
<1>3. Derivative(p, s)
  BY <1>1, <1>2 DEF WritesMarked, Grown
<1>4. PICK a \in Steps(p) : /\ s.uses = {a.key} /\ s.uses \subseteq s.depends_on /\ a.consequential
                           /\ Primary(a) = Call("canva", "canva.presentation.create")
  BY <1>3 DEF Derivative
<1>5. PICK b \in Steps(q) : Grown(a, b)
  BY <1>4
<1>6. /\ t.uses = {b.key} /\ t.uses \subseteq t.depends_on /\ b.consequential
      /\ Primary(b) = Call("canva", "canva.presentation.create")
  BY <1>2, <1>4, <1>5 DEF Grown, Primary
<1>7. Primary(t) = Call("canva", "canva.export.create")
  BY <1>2, <1>3 DEF Grown, Primary, Derivative
<1>. QED
  BY <1>5, <1>6, <1>7 DEF Derivative

\* After normalisation every write is marked.
LEMMA NormalizeStepsMark ==
  ASSUME NEW p, IsPlan(p) PROVE WritesMarked(NormalizeSteps(p))
<1>1. PICK m : m = [i \in DOMAIN p |->
                     [p[i] EXCEPT !.consequential =
                        @ \/ (IsWrite(p[i].op) /\ p[i].op # "canva.export.create")]]
  OBVIOUS
<1>2. PICK q : q = NormalizeSteps(p)
  OBVIOUS
<1>3. \A i \in DOMAIN p : DOMAIN m[i] = Fields
  BY <1>1 DEF IsPlan
<1>4. DOMAIN q = DOMAIN p /\ DOMAIN m = DOMAIN p
  BY <1>1, <1>2 DEF NormalizeSteps
<1>5. ASSUME NEW i \in DOMAIN p
      PROVE  /\ q[i].key = m[i].key /\ q[i].tool = m[i].tool /\ q[i].op = m[i].op
             /\ q[i].uses = m[i].uses /\ m[i].depends_on \subseteq q[i].depends_on
             /\ q[i].consequential = CASE m[i].tool \in Plugins /\ ~IsWrite(m[i].op) -> FALSE
                                       [] IsWrite(m[i].op) /\ ~Derivative(m, m[i]) -> TRUE
                                       [] OTHER -> m[i].consequential
  BY <1>1, <1>2, <1>3 DEF NormalizeSteps, Fields
<1>6. ASSUME NEW a \in DOMAIN p, m[a].consequential,
             Primary(m[a]) = Call("canva", "canva.presentation.create")
      PROVE  q[a].consequential /\ Primary(q[a]) = Call("canva", "canva.presentation.create")
  <2>1. m[a].tool = "canva" /\ m[a].tool \notin Plugins
    BY <1>6, CatalogAssumption DEF Primary, Call, CatalogAssumption
  <2>. QED
    BY <1>5, <1>6, <2>1 DEF Primary
<1>7. ASSUME NEW i \in DOMAIN p, IsWrite(q[i].op), ~q[i].consequential
      PROVE  Derivative(q, q[i])
  <2>1. Derivative(m, m[i])
    BY <1>5, <1>7
  <2>2. PICK a \in DOMAIN p : 
          /\ m[i].uses = {m[a].key} /\ m[i].uses \subseteq m[i].depends_on /\ m[a].consequential
          /\ Primary(m[a]) = Call("canva", "canva.presentation.create")
    BY <1>4, <2>1 DEF Derivative, Steps
  <2>3. Primary(q[i]) = Call("canva", "canva.export.create")
    BY <1>5, <2>1 DEF Derivative, Primary
  <2>4. q[a] \in Steps(q)
    BY <1>4 DEF Steps
  <2>. QED
    BY <1>5, <1>6, <2>2, <2>3, <2>4 DEF Derivative
<1>. QED
  BY <1>2, <1>4, <1>7 DEF WritesMarked, Steps

\* The step itself, which may wait for more.
LEMMA WithBodyIs ==
  ASSUME NEW p, IsPlan(p), NEW i \in DOMAIN p
  PROVE  LET s == WithBody(p, i) IN
         /\ DOMAIN s = Fields /\ Grown(p[i], s)
         /\ s.depends_on \subseteq p[i].depends_on \cup BodiesRead(p, i)
<1>1. DOMAIN p[i] = Fields
  BY DEF IsPlan
<1>. QED
  BY <1>1 DEF WithBody, Fields, Grown

\* The step that reads a new document back.
LEMMA ReadbackIs ==
  ASSUME NEW doc, DOMAIN doc = Fields
  PROVE  LET s == Readback(doc) IN
         /\ DOMAIN s = Fields /\ s.key = ReadbackKey(doc.key)
         /\ s.depends_on = {doc.key} /\ s.op = "docs.get"
  BY DEF Readback, Fields

\* A part of a plan: no two steps have a key, and each waits for earlier ones.
Keys(a) == {s.key : s \in Steps(a)}
Tidy(a) == /\ Len(a) \in Nat /\ DOMAIN a = 1..Len(a)
           /\ \A i, j \in DOMAIN a : a[i].key = a[j].key => i = j
           /\ \A i \in DOMAIN a : a[i].depends_on \subseteq Earlier(a, i)

\* One more step, with a new key and earlier dependencies.
LEMMA Extend ==
  ASSUME NEW S, NEW a \in Seq(S), Tidy(a), NEW s \in S, s.key \notin Keys(a),
         s.depends_on \subseteq Keys(a)
  PROVE  LET b == Append(a, s) IN
         b \in Seq(S) /\ Tidy(b) /\ Len(b) = Len(a) + 1 /\ Steps(b) = Steps(a) \cup {s}
<1>1. PICK b : b = Append(a, s)
  OBVIOUS
<1>2. PICK n \in Nat : n = Len(a)
  BY DEF Tidy
<1>3. DOMAIN a = 1..n
  BY <1>2 DEF Tidy
<1>4. /\ b \in Seq(S) /\ Len(b) = n + 1 /\ DOMAIN b = 1..(n + 1) /\ b[n + 1] = s
      /\ \A i \in 1..n : b[i] = a[i]
  BY <1>1, <1>2, <1>3, AppendProperties, LenProperties
<1>5. Steps(b) = Steps(a) \cup {s}
  <2>1. \A i \in 1..(n + 1) : i \in 1..n \/ i = n + 1
    OBVIOUS
  <2>2. \A i \in 1..n : i \in 1..(n + 1)
    OBVIOUS
  <2>3. n + 1 \in 1..(n + 1)
    OBVIOUS
  <2>. QED
    BY <1>3, <1>4, <2>1, <2>2, <2>3 DEF Steps
<1>6. \A i \in 1..n : Earlier(b, i) = Earlier(a, i)
  <2>1. \A i \in 1..n : \A j \in 1..(i - 1) : j \in 1..n
    OBVIOUS
  <2>. QED
    BY <1>4, <2>1 DEF Earlier
<1>7. Earlier(b, n + 1) = Keys(a)
  <2>1. (n + 1) - 1 = n
    OBVIOUS
  <2>. QED
    BY <1>3, <1>4, <2>1 DEF Earlier, Keys, Steps
<1>8. \A i \in 1..n : a[i].key \in Keys(a)
  BY <1>3 DEF Keys, Steps
<1>9. ASSUME NEW i \in 1..(n + 1) PROVE b[i].depends_on \subseteq Earlier(b, i)
  <2>1. CASE i \in 1..n
    BY <1>3, <1>4, <1>6, <2>1 DEF Tidy
  <2>2. CASE i = n + 1
    BY <1>4, <1>7, <2>2
  <2>. QED
    BY <2>1, <2>2
<1>10. ASSUME NEW i \in 1..(n + 1), NEW j \in 1..(n + 1), b[i].key = b[j].key PROVE i = j
  <2>1. CASE i \in 1..n /\ j \in 1..n
    BY <1>3, <1>4, <1>10, <2>1 DEF Tidy
  <2>2. CASE i = n + 1 /\ j \in 1..n
    BY <1>4, <1>8, <1>10, <2>2
  <2>3. CASE i \in 1..n /\ j = n + 1
    BY <1>4, <1>8, <1>10, <2>3
  <2>. QED
    BY <2>1, <2>2, <2>3
<1>. QED
  BY <1>1, <1>2, <1>4, <1>5, <1>9, <1>10 DEF Tidy

\* The pieces of the plan with its reads, and what is whole after the first k of them.
ReadbackPieces(p) == [i \in DOMAIN p |-> IF i \in Unread(p) THEN <<WithBody(p, i), Readback(p[i])>>
                                                 ELSE <<WithBody(p, i)>>]
Before(p, k) == {u \in Unread(p) : u <= k}
PieceSteps(p) == {WithBody(p, i) : i \in DOMAIN p} \cup {Readback(p[i]) : i \in Unread(p)}

WholeUpto(p, a, k) ==
  /\ a \in Seq(PieceSteps(p)) /\ Tidy(a) /\ Len(a) = k + Cardinality(Before(p, k))
  /\ Keys(a) = {p[j].key : j \in 1..k} \cup {ReadbackKey(p[u].key) : u \in Before(p, k)}
  /\ \A j \in 1..k : WithBody(p, j) \in Steps(a)

\* The keys of the reads are new.
ReadsAreNew(p) == \A i \in Unread(p), s \in Steps(p) : s.key # ReadbackKey(p[i].key)

\* The next step of the plan, after what has been built so far.
LEMMA BodyComes ==
  ASSUME NEW p, IsPlan(p), WellFormed(p), ReadsAreNew(p), NEW i \in DOMAIN p,
         NEW a, WholeUpto(p, a, i - 1)
  PROVE  LET b == Append(a, WithBody(p, i)) IN
         /\ b \in Seq(PieceSteps(p)) /\ Tidy(b) /\ Len(b) = Len(a) + 1
         /\ Steps(b) = Steps(a) \cup {WithBody(p, i)}
<1>1. PICK n \in Nat : n = Len(p) /\ DOMAIN p = 1..n
  BY DEF IsPlan
<1>2. PICK s : s = WithBody(p, i)
  OBVIOUS
<1>3. /\ s.key = p[i].key /\ s.depends_on \subseteq p[i].depends_on \cup BodiesRead(p, i)
      /\ s \in PieceSteps(p)
  BY <1>2, WithBodyIs DEF Grown, PieceSteps
<1>4. i \in 1..n /\ \A j \in 1..(i - 1) : j \in 1..n /\ j # i
  BY <1>1
<1>5. Unread(p) \subseteq 1..n
  BY <1>1 DEF Unread
<1>6. s.key \notin Keys(a)
  <2>1. \A j \in 1..(i - 1) : p[j].key # p[i].key
    BY <1>1, <1>4 DEF WellFormed
  <2>2. \A u \in Before(p, i - 1) : p[i].key # ReadbackKey(p[u].key)
    BY <1>1, <1>4 DEF Before, ReadsAreNew, Steps
  <2>. QED
    BY <1>3, <2>1, <2>2 DEF WholeUpto
<1>7. p[i].depends_on \subseteq Keys(a)
  BY DEF WellFormed, Earlier, WholeUpto
<1>8. BodiesRead(p, i) \subseteq Keys(a)
  <2>1. Readers(p) \subseteq 1..n
    BY <1>1 DEF Readers, Reader
  <2>2. \A j \in Readers(p) : j < i => j \in 1..(i - 1)
    BY <1>4, <2>1
  <2>3. \A u \in Unread(p) : u < i => u \in Before(p, i - 1)
    BY <1>4, <1>5 DEF Before
  <2>. QED
    BY <2>2, <2>3 DEF BodiesRead, WholeUpto
<1>9. s.depends_on \subseteq Keys(a)
  BY <1>3, <1>7, <1>8
<1>. QED
  BY <1>2, <1>3, <1>6, <1>9, Extend DEF WholeUpto

\* A new document and the step that reads it back.
LEMMA ReadComes ==
  ASSUME NEW p, IsPlan(p), WellFormed(p), ReadsAreNew(p), NEW i \in Unread(p),
         NEW a, WholeUpto(p, a, i - 1)
  PROVE  LET b == Append(Append(a, WithBody(p, i)), Readback(p[i])) IN
         /\ b \in Seq(PieceSteps(p)) /\ Tidy(b) /\ Len(b) = Len(a) + 2
         /\ Steps(b) = Steps(a) \cup {WithBody(p, i), Readback(p[i])}
<1>1. PICK n \in Nat : n = Len(p) /\ DOMAIN p = 1..n
  BY DEF IsPlan
<1>2. Unread(p) \subseteq 1..n /\ i \in 1..n /\ DOMAIN p[i] = Fields
  BY <1>1 DEF Unread, IsPlan
<1>3. PICK m : m = Append(a, WithBody(p, i))
  OBVIOUS
<1>4. /\ m \in Seq(PieceSteps(p)) /\ Tidy(m) /\ Len(m) = Len(a) + 1
      /\ Steps(m) = Steps(a) \cup {WithBody(p, i)}
  BY <1>1, <1>2, <1>3, BodyComes
<1>5. PICK s : s = Readback(p[i])
  OBVIOUS
<1>6. s.key = ReadbackKey(p[i].key) /\ s.depends_on = {p[i].key} /\ s \in PieceSteps(p)
  BY <1>2, <1>5, ReadbackIs DEF PieceSteps
<1>7. WithBody(p, i).key = p[i].key
  BY <1>1, <1>2, WithBodyIs DEF Grown
<1>8. Keys(m) = Keys(a) \cup {p[i].key}
  BY <1>4, <1>7 DEF Keys
<1>9. s.key \notin Keys(m)
  <2>1. \A j \in 1..i : s.key # p[j].key
    BY <1>1, <1>2, <1>6 DEF ReadsAreNew, Steps
  <2>2. ASSUME NEW u \in Before(p, i - 1) PROVE s.key # ReadbackKey(p[u].key)
    <3>1. u \in 1..n /\ u # i /\ p[u].key \in Nat /\ p[i].key \in Nat
      BY <1>1, <1>2 DEF Before, IsPlan
    <3>2. p[u].key # p[i].key
      BY <1>1, <1>2, <3>1 DEF WellFormed
    <3>. QED
      BY <1>6, <3>1, <3>2 DEF ReadbackKey
  <2>3. \A j \in 1..(i - 1) : j \in 1..i
    BY <1>2
  <2>4. i \in 1..i
    BY <1>2
  <2>. QED
    BY <1>8, <2>1, <2>2, <2>3, <2>4 DEF WholeUpto
<1>10. s.depends_on \subseteq Keys(m)
  BY <1>6, <1>8
<1>11. PICK b : b = Append(m, s)
  OBVIOUS
<1>12. b \in Seq(PieceSteps(p)) /\ Tidy(b) /\ Len(b) = Len(m) + 1 /\ Steps(b) = Steps(m) \cup {s}
  BY <1>4, <1>6, <1>9, <1>10, <1>11, Extend
<1>13. Len(b) = Len(a) + 2
  BY <1>4, <1>12 DEF WholeUpto, Tidy
<1>. QED
  BY <1>3, <1>4, <1>5, <1>11, <1>12, <1>13

\* One piece more.
LEMMA NextPiece ==
  ASSUME NEW p, IsPlan(p), WellFormed(p), ReadsAreNew(p), NEW i \in DOMAIN p,
         NEW a, WholeUpto(p, a, i - 1)
  PROVE  WholeUpto(p, a \o ReadbackPieces(p)[i], i)
<1>1. PICK n \in Nat : n = Len(p) /\ DOMAIN p = 1..n
  BY DEF IsPlan
<1>2. i \in 1..n /\ Unread(p) \subseteq 1..n /\ 1..i = 1..(i - 1) \cup {i} /\ i - 1 \in Nat
  BY <1>1 DEF Unread
<1>3. IsFiniteSet(Before(p, i - 1)) /\ i \notin Before(p, i - 1)
  <2>1. Before(p, i - 1) \in SUBSET (1..n)
    BY <1>2 DEF Before
  <2>2. IsFiniteSet(1..n)
    <3>1. 1 \in Int /\ n \in Int
      OBVIOUS
    <3>. QED
      BY <3>1, FS_Interval
  <2>3. i \notin Before(p, i - 1)
    BY <1>2 DEF Before
  <2>. QED
    BY <2>1, <2>2, <2>3, FS_Subset
<1>4. PICK c \in Nat : c = Cardinality(Before(p, i - 1))
  BY <1>3, FS_CardinalityType
<1>5. Len(a) = (i - 1) + c
  BY <1>4 DEF WholeUpto
<1>6. PICK w : w = WithBody(p, i)
  OBVIOUS
<1>7. w.key = p[i].key /\ w \in PieceSteps(p)
  BY <1>6, WithBodyIs DEF Grown, PieceSteps
<1>8. CASE i \notin Unread(p)
  <2>1. Before(p, i) = Before(p, i - 1)
    BY <1>2, <1>8 DEF Before
  <2>2. PICK b : b = Append(a, w)
    OBVIOUS
  <2>3. b = a \o ReadbackPieces(p)[i]
    <3>1. ReadbackPieces(p)[i] = <<w>>
      BY <1>6, <1>8 DEF ReadbackPieces
    <3>2. Append(a, w) = a \o <<w>>
      BY <1>7, AppendIsConcat DEF WholeUpto
    <3>. QED
      BY <2>2, <3>1, <3>2
  <2>4. /\ b \in Seq(PieceSteps(p)) /\ Tidy(b) /\ Len(b) = Len(a) + 1
        /\ Steps(b) = Steps(a) \cup {w}
    BY <1>6, <2>2, BodyComes
  <2>5. Len(b) = i + Cardinality(Before(p, i))
    BY <1>2, <1>4, <1>5, <2>1, <2>4
  <2>6. Keys(b) = Keys(a) \cup {p[i].key}
    BY <1>7, <2>4 DEF Keys
  <2>7. Keys(b) = {p[j].key : j \in 1..i} \cup {ReadbackKey(p[u].key) : u \in Before(p, i)}
    BY <1>2, <2>1, <2>6 DEF WholeUpto
  <2>8. \A j \in 1..i : WithBody(p, j) \in Steps(b)
    BY <1>2, <1>6, <2>4 DEF WholeUpto
  <2>. QED
    BY <2>3, <2>4, <2>5, <2>7, <2>8 DEF WholeUpto
<1>9. CASE i \in Unread(p)
  <2>1. Before(p, i) = Before(p, i - 1) \cup {i}
    BY <1>2, <1>9 DEF Before
  <2>2. PICK r : r = Readback(p[i])
    OBVIOUS
  <2>3. PICK b : b = Append(Append(a, w), r)
    OBVIOUS
  <2>4. r.key = ReadbackKey(p[i].key) /\ r \in PieceSteps(p)
    <3>1. DOMAIN p[i] = Fields
      BY DEF IsPlan
    <3>. QED
      BY <1>9, <2>2, <3>1, ReadbackIs DEF PieceSteps
  <2>5. b = a \o ReadbackPieces(p)[i]
    <3>1. ReadbackPieces(p)[i] = <<w, r>>
      BY <1>6, <1>9, <2>2 DEF ReadbackPieces
    <3>2. a \in Seq(PieceSteps(p)) /\ <<w>> \in Seq(PieceSteps(p)) /\ <<r>> \in Seq(PieceSteps(p))
      BY <1>7, <2>4 DEF WholeUpto
    <3>3. Append(a, w) = a \o <<w>> /\ Append(a, w) \in Seq(PieceSteps(p))
      BY <1>7, <3>2, AppendIsConcat, AppendProperties
    <3>4. b = (a \o <<w>>) \o <<r>>
      BY <2>3, <2>4, <3>3, AppendIsConcat
    <3>5. <<w>> \o <<r>> = <<w, r>>
      BY PairIsConcat
    <3>6. (a \o <<w>>) \o <<r>> = a \o (<<w>> \o <<r>>)
      BY <3>2, ConcatAssociative
    <3>. QED
      BY <3>1, <3>4, <3>5, <3>6
  <2>6. /\ b \in Seq(PieceSteps(p)) /\ Tidy(b) /\ Len(b) = Len(a) + 2
        /\ Steps(b) = Steps(a) \cup {w, r}
    BY <1>6, <1>9, <2>2, <2>3, ReadComes
  <2>7. Cardinality(Before(p, i)) = c + 1
    BY <1>3, <1>4, <2>1, FS_AddElement
  <2>8. Len(b) = i + Cardinality(Before(p, i))
    BY <1>2, <1>5, <2>6, <2>7
  <2>9. Keys(b) = Keys(a) \cup {p[i].key, ReadbackKey(p[i].key)}
    BY <1>7, <2>4, <2>6 DEF Keys
  <2>10. Keys(b) = {p[j].key : j \in 1..i} \cup {ReadbackKey(p[u].key) : u \in Before(p, i)}
    BY <1>2, <2>1, <2>9 DEF WholeUpto
  <2>11. \A j \in 1..i : WithBody(p, j) \in Steps(b)
    BY <1>2, <1>6, <2>6 DEF WholeUpto
  <2>. QED
    BY <2>5, <2>6, <2>8, <2>10, <2>11 DEF WholeUpto
<1>. QED
  BY <1>8, <1>9

\* The plan with its reads, as a whole.
LEMMA EnsureReadbackKeeps ==
  ASSUME NEW p, IsPlan(p), WellFormed(p), NEW inv, CanReadBack(p, inv)
  PROVE  /\ IsPlan(EnsureReadback(p)) /\ WellFormed(EnsureReadback(p))
         /\ Steps(EnsureReadback(p)) \subseteq PieceSteps(p)
         /\ \A i \in DOMAIN p : WithBody(p, i) \in Steps(EnsureReadback(p))
<1>1. PICK n \in Nat \ {0} : n = Len(p) /\ DOMAIN p = 1..n /\ n <= MaxSteps
  <2>1. Len(p) \in Nat /\ DOMAIN p = 1..Len(p)
    BY DEF IsPlan
  <2>2. Len(p) \in 1..MaxSteps /\ MaxSteps \in Nat
    BY CatalogAssumption DEF WellFormed, CatalogAssumption
  <2>3. PICK n : n = Len(p)
    OBVIOUS
  <2>4. n \in Nat \ {0} /\ DOMAIN p = 1..n /\ n <= MaxSteps
    BY <2>1, <2>2, <2>3
  <2>. QED
    BY <2>3, <2>4
<1>2. ReadsAreNew(p)
  BY DEF CanReadBack, ReadsAreNew
<1>3. PICK ss : ss = ReadbackPieces(p)
  OBVIOUS
<1>4. ss \in [1..n -> Seq(PieceSteps(p))]
  <2>1. ASSUME NEW i \in 1..n PROVE ss[i] \in Seq(PieceSteps(p))
    <3>1. WithBody(p, i) \in PieceSteps(p) /\ (i \in Unread(p) => Readback(p[i]) \in PieceSteps(p))
      BY <1>1 DEF PieceSteps
    <3>. QED
      BY <1>1, <1>3, <3>1 DEF ReadbackPieces
  <2>. QED
    BY <1>1, <1>3, <2>1 DEF ReadbackPieces
<1>5. PICK f : Joined(PieceSteps(p), n, ss, f) /\ FlattenSeq(ss) = f[n]
  BY <1>4, Flatten
<1>6. EnsureReadback(p) = f[n]
  BY <1>3, <1>5 DEF EnsureReadback, ReadbackPieces
<1>. DEFINE T == {i \in 1..n : WholeUpto(p, f[i], i)}
<1>7. 1 \in T
  <2>1. WholeUpto(p, << >>, 0)
    <3>1. Before(p, 0) = {}
      BY <1>1 DEF Before, Unread
    <3>2. << >> \in Seq(PieceSteps(p)) /\ Len(<< >>) = 0 /\ DOMAIN << >> = {}
      BY EmptySeq
    <3>3. Keys(<< >>) = {}
      BY <3>2 DEF Keys, Steps
    <3>4. Len(<< >>) = 0 + Cardinality(Before(p, 0))
      BY <3>1, <3>2, FS_EmptySet
    <3>5. Tidy(<< >>)
      BY <3>2 DEF Tidy
    <3>6. Keys(<< >>) = {p[j].key : j \in 1..0} \cup {ReadbackKey(p[u].key) : u \in Before(p, 0)}
      BY <3>1, <3>3
    <3>7. \A j \in 1..0 : WithBody(p, j) \in Steps(<< >>)
      OBVIOUS
    <3>. QED
      BY <3>2, <3>4, <3>5, <3>6, <3>7 DEF WholeUpto
  <2>2. 1 \in DOMAIN p /\ 1 - 1 = 0 /\ ss[1] \in Seq(PieceSteps(p))
    BY <1>1, <1>4
  <2>3. WholeUpto(p, << >> \o ss[1], 1)
    BY <1>2, <1>3, <2>1, <2>2, NextPiece
  <2>4. << >> \o ss[1] = ss[1]
    BY <2>2, ConcatEmptySeq
  <2>. QED
    BY <1>1, <1>5, <2>2, <2>3, <2>4 DEF Joined
<1>8. ASSUME NEW i \in 1..n, i + 1 \in 1..n, i \in T PROVE i + 1 \in T
  <2>1. (i + 1) - 1 = i /\ i + 1 \in 2..n /\ i + 1 \in DOMAIN p
    BY <1>1, <1>8
  <2>2. f[i + 1] = f[i] \o ss[i + 1]
    BY <1>5, <2>1 DEF Joined
  <2>3. WholeUpto(p, f[i] \o ss[i + 1], i + 1)
    BY <1>2, <1>3, <1>8, <2>1, NextPiece
  <2>. QED
    BY <1>8, <2>2, <2>3
<1>9. WholeUpto(p, f[n], n)
  <2>1. \A i \in 1..n : i + 1 \in 1..n /\ i \in T => i + 1 \in T
    BY <1>8
  <2>2. 1..n \subseteq T
    <3>. HIDE DEF T
    <3>. QED
      BY <1>7, <2>1, CountUp
  <2>3. n \in 1..n
    OBVIOUS
  <2>. QED
    BY <2>2, <2>3
<1>10. PICK q : q = f[n]
  OBVIOUS
<1>11. Before(p, n) = Unread(p)
  BY <1>1 DEF Before, Unread
<1>12. q \in Seq(PieceSteps(p)) /\ Tidy(q) /\ Len(q) = n + Cardinality(Unread(p))
  BY <1>9, <1>10, <1>11 DEF WholeUpto
<1>13. Len(q) \in 1..MaxSteps
  <2>1. CASE Unread(p) = {}
    <3>1. Cardinality(Unread(p)) = 0
      BY <2>1, FS_EmptySet
    <3>. QED
      BY <1>1, <1>12, <3>1
  <2>2. CASE Unread(p) # {}
    <3>1. Len(q) <= MaxSteps
      BY <1>1, <1>12, <2>2 DEF CanReadBack
    <3>2. Cardinality(Unread(p)) \in Nat
      <4>1. 1 \in Int /\ n \in Int
        OBVIOUS
      <4>2. Unread(p) \in SUBSET (1..n)
        BY <1>1 DEF Unread
      <4>. QED
        BY <4>1, <4>2, FS_Interval, FS_Subset, FS_CardinalityType
    <3>3. MaxSteps \in Nat
      BY CatalogAssumption DEF CatalogAssumption
    <3>. QED
      BY <1>1, <1>12, <3>1, <3>2, <3>3
  <2>. QED
    BY <2>1, <2>2
<1>14. Steps(q) \subseteq PieceSteps(p)
  BY <1>12, LenProperties DEF Steps
<1>15. IsPlan(q)
  <2>1. \A s \in PieceSteps(p) : DOMAIN s = Fields /\ s.key \in Nat
    <3>1. ASSUME NEW i \in DOMAIN p
          PROVE  DOMAIN WithBody(p, i) = Fields /\ WithBody(p, i).key \in Nat
      BY WithBodyIs DEF IsPlan, Grown
    <3>2. ASSUME NEW i \in Unread(p)
          PROVE  DOMAIN Readback(p[i]) = Fields /\ Readback(p[i]).key \in Nat
      <4>1. DOMAIN p[i] = Fields /\ p[i].key \in Nat
        BY DEF IsPlan, Unread
      <4>. QED
        BY <4>1, ReadbackIs DEF ReadbackKey
    <3>. QED
      BY <3>1, <3>2 DEF PieceSteps
  <2>. QED
    BY <1>12, <1>14, <2>1 DEF IsPlan, Tidy, Steps
<1>16. WellFormed(q)
  BY <1>12, <1>13 DEF WellFormed, Tidy
<1>17. \A i \in DOMAIN p : WithBody(p, i) \in Steps(q)
  BY <1>1, <1>9, <1>10 DEF WholeUpto
<1>. QED
  BY <1>6, <1>10, <1>14, <1>15, <1>16, <1>17

\* A step waits for its dependencies.
LEMMA AncestorsHold ==
  ASSUME NEW p, IsPlan(p) PROVE \A i \in DOMAIN p : p[i].depends_on \subseteq Ancestors(p)[i]
<1>. DEFINE n == Len(p)
            Waits(f, i) ==
              IF i = 0 THEN {}
              ELSE p[i].depends_on \cup
                   UNION {f[j] : j \in {h \in 1..(i - 1) : p[h].key \in p[i].depends_on}}
            Upto(f, m) == \A i \in 0..m : f[i] = Waits(f, i)
            T == {m \in 1..(n + 1) : \E f : Upto(f, m - 1)}
<1>1. n \in Nat /\ DOMAIN p = 1..n
  BY DEF IsPlan
<1>2. 1 \in T
  <2>1. PICK f : f = [i \in 0..0 |-> {}]
    OBVIOUS
  <2>2. Upto(f, 0)
    BY <2>1
  <2>3. 1 \in 1..(n + 1) /\ 1 - 1 = 0
    BY <1>1
  <2>. QED
    BY <2>2, <2>3
<1>3. ASSUME NEW m \in 1..(n + 1), m + 1 \in 1..(n + 1), m \in T PROVE m + 1 \in T
  <2>1. PICK f : Upto(f, m - 1)
    BY <1>3
  <2>2. PICK g : g = [i \in 0..m |-> IF i < m THEN f[i] ELSE Waits(f, m)]
    OBVIOUS
  <2>3. m \in Nat /\ m >= 1
    OBVIOUS
  <2>4. ASSUME NEW i \in 0..m PROVE g[i] = Waits(g, i)
    <3>1. \A h \in 1..(i - 1) : h \in 0..m /\ h < m /\ g[h] = f[h]
      BY <2>2, <2>3
    <3>2. Waits(g, i) = Waits(f, i)
      <4>1. CASE i = 0
        BY <4>1
      <4>2. CASE i # 0
        <5>1. \A j \in {h \in 1..(i - 1) : p[h].key \in p[i].depends_on} : g[j] = f[j]
          BY <3>1
        <5>2. UNION {g[j] : j \in {h \in 1..(i - 1) : p[h].key \in p[i].depends_on}}
              = UNION {f[j] : j \in {h \in 1..(i - 1) : p[h].key \in p[i].depends_on}}
          BY <5>1
        <5>. QED
          BY <5>2
      <4>. QED
        BY <4>1, <4>2
    <3>3. CASE i = m
      <4>1. g[m] = Waits(f, m)
        BY <2>2, <2>3
      <4>. QED
        BY <3>2, <3>3, <4>1
    <3>4. CASE i < m
      <4>1. i \in 0..(m - 1) /\ g[i] = f[i]
        BY <2>2, <2>3, <3>4
      <4>2. f[i] = Waits(f, i)
        BY <2>1, <4>1
      <4>. QED
        BY <3>2, <4>1, <4>2
    <3>5. i = m \/ i < m
      BY <2>3
    <3>. QED
      BY <3>3, <3>4, <3>5
  <2>5. Upto(g, (m + 1) - 1)
    <3>1. (m + 1) - 1 = m
      BY <2>3
    <3>. QED
      BY <2>4, <3>1
  <2>. QED
    BY <1>3, <2>5
<1>4. n + 1 \in T
  <2>1. \A i \in 1..(n + 1) : i + 1 \in 1..(n + 1) /\ i \in T => i + 1 \in T
    BY <1>3
  <2>2. n + 1 \in Nat /\ n + 1 \in 1..(n + 1)
    BY <1>1
  <2>3. 1..(n + 1) \subseteq T
    <3>. HIDE DEF T
    <3>. QED
      BY <1>2, <2>1, <2>2, CountUp
  <2>. QED
    BY <2>2, <2>3
<1>5. PICK f : Upto(f, n)
  <2>1. PICK f : Upto(f, (n + 1) - 1)
    BY <1>4
  <2>2. (n + 1) - 1 = n
    BY <1>1
  <2>. QED
    BY <2>1, <2>2
<1> DEFINE Whole(g) == g = [i \in 0..n |-> Waits(g, i)]
           up == CHOOSE g : Whole(g)
<1>6. Whole(up)
  <2>1. PICK g : g = [i \in 0..n |-> f[i]]
    OBVIOUS
  <2>2. ASSUME NEW i \in 0..n PROVE Waits(g, i) = Waits(f, i)
    <3>1. \A h \in 1..(i - 1) : h \in 0..n /\ g[h] = f[h]
      BY <1>1, <2>1
    <3>2. CASE i = 0
      BY <3>2
    <3>3. CASE i # 0
      <4>1. \A j \in {h \in 1..(i - 1) : p[h].key \in p[i].depends_on} : g[j] = f[j]
        BY <3>1
      <4>2. UNION {g[j] : j \in {h \in 1..(i - 1) : p[h].key \in p[i].depends_on}}
            = UNION {f[j] : j \in {h \in 1..(i - 1) : p[h].key \in p[i].depends_on}}
        BY <4>1
      <4>. QED
        BY <4>2
    <3>. QED
      BY <3>2, <3>3
  <2>3. Whole(g)
    <3>1. \A i \in 0..n : f[i] = Waits(g, i)
      BY <1>5, <2>2
    <3>. HIDE DEF Waits
    <3>. QED
      BY <2>1, <3>1
  <2>. HIDE DEF Whole
  <2>. QED
    BY <2>3, Zenon
<1>7. Ancestors(p) = [i \in DOMAIN p |-> up[i]]
  BY DEF Ancestors
<1>. HIDE DEF up
<1>8. ASSUME NEW i \in DOMAIN p PROVE p[i].depends_on \subseteq up[i]
  <2>1. i \in 0..n /\ i # 0
    BY <1>1
  <2>2. up[i] = Waits(up, i)
    BY <1>6, <2>1
  <2>. QED
    BY <2>1, <2>2
<1>. QED
  BY <1>7, <1>8
--------------------------------------------------------------------------------
\* The answers to a prompt

\* A plan that is fit to be reviewed: it is in order, its writes are marked, and what
\* a step refers to is a dependency of it.
FitPlan(p) == /\ IsPlan(p) /\ WellFormed(p) /\ WritesMarked(p)
              /\ \A s \in Steps(p) : s.uses \subseteq s.depends_on /\ s.names = {}

\* What a step of a fit plan refers to comes before it, and it waits for that.
LEMMA FitIsOrdered ==
  ASSUME NEW p, FitPlan(p)
  PROVE  \A i \in DOMAIN p : p[i].uses \subseteq Ancestors(p)[i] \cap Earlier(p, i)
<1>1. \A i \in DOMAIN p : p[i].uses \subseteq p[i].depends_on
  BY DEF FitPlan, Steps
<1>2. \A i \in DOMAIN p : p[i].depends_on \subseteq Earlier(p, i)
  BY DEF FitPlan, WellFormed
<1>3. \A i \in DOMAIN p : p[i].depends_on \subseteq Ancestors(p)[i]
  BY AncestorsHold DEF FitPlan
<1>. QED
  BY <1>1, <1>2, <1>3

\* The passes that every plan goes through, a recipe too.
LEMMA RecipeKeeps ==
  ASSUME NEW p, IsPlan(p), WellFormed(p), NEW inv, NEW r
  PROVE  LET q == CompiledRecipe(r, inv, p) IN IsPlan(q) /\ WellFormed(q) /\ WritesMarked(q)
<1>1. PICK m : m = NormalizeSteps(p)
  OBVIOUS
<1>2. IsPlan(m) /\ WellFormed(m) /\ WritesMarked(m)
  BY <1>1, NormalizeStepsKeeps, NormalizeStepsMark
<1>3. PICK q : q = AddBackups(r, inv, m)
  OBVIOUS
<1>4. IsPlan(q) /\ WellFormed(q) /\ DOMAIN q = DOMAIN m /\ \A i \in DOMAIN m : Grown(m[i], q[i])
  BY <1>2, <1>3, AddBackupsKeeps
<1>5. WritesMarked(q)
  <2>1. \A t \in Steps(q) : \E s \in Steps(m) : Grown(s, t)
    BY <1>4 DEF Steps
  <2>2. \A s \in Steps(m) : \E t \in Steps(q) : Grown(s, t)
    BY <1>4 DEF Steps
  <2>. QED
    BY <1>2, <2>1, <2>2, MarksStay
<1>. QED
  BY <1>1, <1>3, <1>4, <1>5 DEF CompiledRecipe

\* The steps that read documents back write nothing.
LEMMA ReadbackMarks ==
  ASSUME NEW p, IsPlan(p), WellFormed(p), WritesMarked(p), NEW inv \in SUBSET Catalog,
         CanReadBack(p, inv)
  PROVE  WritesMarked(EnsureReadback(p))
<1>1. PICK q : q = EnsureReadback(p)
  OBVIOUS
<1>2. Steps(q) \subseteq PieceSteps(p) /\ \A i \in DOMAIN p : WithBody(p, i) \in Steps(q)
  BY <1>1, EnsureReadbackKeeps
<1>3. \A i \in DOMAIN p : Grown(p[i], WithBody(p, i)) /\ p[i] \in Steps(p)
  BY WithBodyIs DEF Steps
<1>4. ASSUME NEW i \in Unread(p) PROVE ~IsWrite(Readback(p[i]).op)
  <2>1. NeedsBody(p[i]) /\ p[i] \in Steps(p) /\ DOMAIN p[i] = Fields
    BY DEF Unread, Steps, IsPlan
  <2>2. Call(p[i].tool, "docs.get") \in Catalog
    BY <2>1 DEF CanReadBack
  <2>3. "docs.get" \in Ops
    BY <2>2 DEF Ops, Call
  <2>4. Scope["docs.get"] = "read"
    BY <2>3, CatalogAssumption DEF CatalogAssumption
  <2>. QED
    BY <2>1, <2>4, ReadbackIs DEF IsWrite
<1>5. \A t \in Steps(q) : IsWrite(t.op) => \E s \in Steps(p) : Grown(s, t)
  BY <1>2, <1>3, <1>4 DEF PieceSteps
<1>6. \A s \in Steps(p) : \E t \in Steps(q) : Grown(s, t)
  BY <1>2, <1>3 DEF Steps
<1>. QED
  BY <1>1, <1>5, <1>6, MarksStay

\* What the last check of a plan lets through refers only to dependencies.
LEMMA LinkedWhenAuthorized ==
  ASSUME NEW p, NEW inv, NEW r, Preflight(r, inv, p)
  PROVE  \A s \in Steps(p) : s.uses \subseteq s.depends_on /\ s.names = {}
  BY DEF Preflight, Authorized

\* A proposal that is accepted is compiled to a fit plan.
LEMMA ModelFit ==
  ASSUME NEW p, IsPlan(p), WellFormed(p), NEW r, NEW inv \in SUBSET Catalog, Accepted(r, inv, p)
  PROVE  FitPlan(Compiled(r, inv, p))
<1>1. PICK m : m = CompiledRecipe(r, inv, p)
  OBVIOUS
<1>2. IsPlan(m) /\ WellFormed(m) /\ WritesMarked(m)
  BY <1>1, RecipeKeeps
<1>3. CanReadBack(m, inv) /\ Preflight(r, inv, EnsureReadback(m))
  BY <1>1 DEF Accepted, Compiled
<1>4. IsPlan(EnsureReadback(m)) /\ WellFormed(EnsureReadback(m))
  BY <1>2, <1>3, EnsureReadbackKeeps
<1>5. WritesMarked(EnsureReadback(m))
  BY <1>2, <1>3, ReadbackMarks
<1>6. \A s \in Steps(EnsureReadback(m)) : s.uses \subseteq s.depends_on /\ s.names = {}
  BY <1>3, LinkedWhenAuthorized
<1>. QED
  BY <1>1, <1>4, <1>5, <1>6 DEF FitPlan, Compiled

\* So is an audited recipe.
LEMMA RecipeFit ==
  ASSUME NEW r \in Prompts, NEW p \in Recipes[r], NEW inv, AcceptedRecipe(r, inv, p)
  PROVE  FitPlan(CompiledRecipe(r, inv, p))
<1>1. p \in Seq(PlanStep) /\ WellFormed(p)
  BY PlanningAssumption DEF PlanningAssumption
<1>2. IsPlan(p)
  BY <1>1, PlanOf
<1>3. Preflight(r, inv, CompiledRecipe(r, inv, p))
  BY DEF AcceptedRecipe
<1>. QED
  BY <1>1, <1>2, <1>3, RecipeKeeps, LinkedWhenAuthorized DEF FitPlan

\* A plan of an earlier run, normalised again, is the same but for what it marks.
LEMMA SavedFit ==
  ASSUME NEW p, FitPlan(p), NEW r, NEW granted, Reusable(r, granted, p)
  PROVE  FitPlan(NormalizeGraph(p))
<1>1. PICK q : q = NormalizeGraph(p)
  OBVIOUS
<1>2. IsPlan(q) /\ WellFormed(q)
  BY <1>1, NormalizeGraphKeeps DEF FitPlan
<1>3. DOMAIN q = DOMAIN p /\ \A i \in DOMAIN p : Grown(p[i], q[i])
  <2>1. \A i \in DOMAIN p : DOMAIN p[i] = Fields /\ p[i].names = {}
    BY DEF FitPlan, IsPlan, Steps
  <2>. QED
    BY <1>1, <2>1 DEF NormalizeGraph, Fields, Grown
<1>4. \A t \in Steps(q) : \E s \in Steps(p) : Grown(s, t)
  BY <1>3 DEF Steps
<1>5. \A s \in Steps(p) : \E t \in Steps(q) : Grown(s, t)
  BY <1>3 DEF Steps
<1>6. WritesMarked(q)
  BY <1>4, <1>5, MarksStay DEF FitPlan
<1>7. \A s \in Steps(q) : s.uses \subseteq s.depends_on /\ s.names = {}
  BY <1>1, LinkedWhenAuthorized DEF Reusable
<1>. QED
  BY <1>1, <1>2, <1>6, <1>7 DEF FitPlan

\* The inventory a candidate is checked against is a part of the catalog.
LEMMA LeftInCatalog ==
  ASSUME NEW r, NEW as PROVE Left(r, as) \in SUBSET Catalog
<1>1. \A inv, routes : RouteBound(inv, routes) \subseteq inv
  BY DEF RouteBound
<1>2. \A inv : WithoutExcluded(r, inv) \subseteq inv /\ MailOnly(r, inv) \subseteq inv
  BY DEF WithoutExcluded, MailOnly
<1>3. \A inv, granted : WithoutDuplicates(r, inv, granted) \subseteq inv
  BY DEF WithoutDuplicates
<1>. QED
  BY <1>1, <1>2, <1>3 DEF Left, Bounded

\* A proposal is a well-formed plan before the compiler begins.
LEMMA ProposalIs ==
  ASSUME NEW r \in Prompts, NEW as, NEW d, NEW p \in Proposals(r, as, d)
  PROVE  IsPlan(p) /\ WellFormed(p)
<1>1. PICK draft \in Drafts[r] : /\ WellFormed(draft)
                                /\ \/ p = NormalizeGraph(draft)
                                   \/ p = AssignTools(NormalizeGraph(draft), Shown(r, as))
  BY DEF Proposals, DirectPlans, AgentPlans
<1>2. draft \in Seq(PlanStep)
  BY PlanningAssumption DEF PlanningAssumption
<1>3. IsPlan(NormalizeGraph(draft)) /\ WellFormed(NormalizeGraph(draft))
  BY <1>1, <1>2, PlanOf, NormalizeGraphKeeps
<1>. QED
  BY <1>1, <1>3, AssignToolsKeeps

\* An answer is a refusal or a fit plan, and a saved plan is never a refusal.
FitAnswer(a) == FitPlan(a.plan) \/ (a.plan = NoPlan /\ a.from # "saved")

\* The answers that are not of an earlier run.
LEMMA FreshAnswersFit ==
  ASSUME NEW r \in Prompts, NEW as, NEW d,
         NEW a \in RecipeAnswers(r, as) \cup ModelAnswers(r, as, d)
  PROVE  a.from # "saved" /\ (FitPlan(a.plan) \/ a.plan = NoPlan)
<1>1. CASE a \in RecipeAnswers(r, as)
  <2>1. PICK p \in Recipes[r] :
          a = [from |-> "recipe", saw |-> as,
               plan |-> IF AcceptedRecipe(r, Left(r, as), p)
                        THEN CompiledRecipe(r, Left(r, as), p) ELSE NoPlan]
    BY <1>1 DEF RecipeAnswers
  <2>. QED
    BY <2>1, RecipeFit
<1>2. CASE a \in ModelAnswers(r, as, d)
  <2>1. PICK p \in Proposals(r, as, d) :
          a = [from |-> "model", saw |-> as,
               plan |-> IF Accepted(r, Left(r, as), p) THEN Compiled(r, Left(r, as), p)
                        ELSE NoPlan]
    BY <1>2 DEF ModelAnswers
  <2>. QED
    BY <2>1, ProposalIs, LeftInCatalog, ModelFit
<1>. QED
  BY <1>1, <1>2

\* Every answer to every prompt.
LEMMA AnswersFit ==
  ASSUME NEW r \in Prompts, NEW d, NEW a \in Answers(r, d)
  PROVE  FitAnswer(a)
<1>1. PICK as \in SUBSET Accounts :
        a \in RecipeAnswers(r, as) \cup ModelAnswers(r, as, d) \cup SavedAnswers(r, as)
  BY DEF Answers
<1>2. CASE a \in RecipeAnswers(r, as) \cup ModelAnswers(r, as, d)
  BY <1>2, FreshAnswersFit DEF FitAnswer
<1>3. CASE a \in SavedAnswers(r, as)
  <2>1. PICK p : /\ a = [from |-> "saved", saw |-> as, plan |-> NormalizeGraph(p)]
                 /\ Reusable(r, Grants(as), p) /\ p # NoPlan
                 /\ \E bs \in SUBSET Accounts :
                      \E b \in RecipeAnswers(r, bs) \cup ModelAnswers(r, bs, FALSE) : p = b.plan
    BY <1>3 DEF SavedAnswers
  <2>2. FitPlan(p)
    BY <2>1, FreshAnswersFit
  <2>. QED
    BY <2>1, <2>2, SavedFit DEF FitAnswer
<1>. QED
  BY <1>1, <1>2, <1>3
--------------------------------------------------------------------------------
\* From the answers to the stored plan

\* What a delivery carries: a fit plan once it decides.
Carries(w) ==
  /\ DOMAIN w = {"pc", "saw", "plan"}
  /\ w.pc \in {"idle", "compiling", "repairing", "deciding", "failed"}
  /\ IF w.pc = "deciding" THEN FitPlan(w.plan) ELSE w.plan = NoPlan

\* The plans, wherever they are: in an answer, with a delivery, stored.
AsksFit    == prompt \in Prompts /\ direct \in BOOLEAN /\ \A a \in answers : FitAnswer(a)
StoredFit  == plan = NoPlan \/ FitPlan(plan)
CarriedFit == DOMAIN planner = Planners /\ \A p \in Planners : Carries(planner[p])
PlansInv   == AsksFit /\ StoredFit /\ CarriedFit

RunTyped   == status \in RunStatus /\ blocker \in Blockers /\ cancelReq \in BOOLEAN
RowsTyped  == /\ reqs \in [Caps -> {"none", "pending", "satisfied"}]
              /\ accounts \subseteq known /\ known \subseteq Accounts
              /\ holder \in Planners \cup {NoPlanner}
              /\ \A p \in Planners : planner[p].saw \subseteq Accounts
ReqTyped   == /\ req \in [Clients -> Requests \cup {NoRequest}]
              /\ \A c \in Clients : req[c] # NoRequest => req[c].seen # {}

\* The rounds left while the run may still be planned.
Rounded ==
  /\ attempts \in 0..(MaxRounds + 1) /\ restarts \in 0..MaxRestarts /\ later \in 0..1
  /\ status \in {"queued", "planning", "awaiting_approval"} \/ Pending # {}
       => attempts <= MaxRounds

RowsInv == RunTyped /\ RowsTyped /\ ReqTyped /\ Rounded

\* What a planner does to what its delivery carries.
LEMMA CarriedSteps ==
  ASSUME PlansInv, NEW p \in Planners, Plan(p) \/ Crash(p)
  PROVE  CarriedFit'
<1>1. DOMAIN planner = Planners /\ Carries(planner[p])
  BY DEF PlansInv, CarriedFit
<1>2. \A a \in answers : FitPlan(a.plan) \/ (a.plan = NoPlan /\ a.from # "saved")
  BY DEF PlansInv, AsksFit, FitAnswer
<1>3. CASE Leave(p)
  <2>1. planner' = [planner EXCEPT ![p] = Idle]
    BY <1>3 DEF Leave
  <2>2. Carries(Idle)
    BY DEF Carries, Idle
  <2>3. \A q \in Planners : planner'[q] = Idle \/ planner'[q] = planner[q]
    BY <1>1, <2>1
  <2>. QED
    BY <1>1, <2>1, <2>2, <2>3 DEF PlansInv, CarriedFit, Carries
<1>4. CASE UseSaved(p)
  <2>1. PICK a \in answers :
          /\ a.from = "saved"
          /\ planner' = [planner EXCEPT ![p].pc = "deciding", ![p].plan = a.plan]
    BY <1>4 DEF UseSaved
  <2>2. FitPlan(a.plan)
    BY <1>2, <2>1
  <2>3. Carries(planner'[p])
    BY <1>1, <2>1, <2>2 DEF Carries
  <2>4. \A q \in Planners \ {p} : planner'[q] = planner[q]
    BY <1>1, <2>1
  <2>. QED
    BY <1>1, <2>1, <2>3, <2>4 DEF PlansInv, CarriedFit, Carries
<1>5. CASE UseRecipe(p)
  <2>1. PICK a \in answers :
          /\ a.from = "recipe"
          /\ planner' = [planner EXCEPT ![p].pc = IF a.plan = NoPlan THEN "failed" ELSE "deciding",
                                        ![p].plan = a.plan]
    BY <1>5 DEF UseRecipe
  <2>2. FitPlan(a.plan) \/ a.plan = NoPlan
    BY <1>2, <2>1
  <2>3. Carries(planner'[p])
    BY <1>1, <2>1, <2>2 DEF Carries
  <2>4. \A q \in Planners \ {p} : planner'[q] = planner[q]
    BY <1>1, <2>1
  <2>. QED
    BY <1>1, <2>1, <2>3, <2>4 DEF PlansInv, CarriedFit, Carries
<1>6. CASE AskModel(p)
  <2>1. planner[p].pc \in {"compiling", "repairing"}
    BY <1>6 DEF AskModel
  <2>2. CASE \E a \in answers :
               planner' = [planner EXCEPT ![p].pc = IF a.plan = NoPlan THEN "repairing"
                                                    ELSE "deciding",
                                          ![p].plan = a.plan]
    <3>1. PICK a \in answers :
            planner' = [planner EXCEPT ![p].pc = IF a.plan = NoPlan THEN "repairing"
                                                 ELSE "deciding",
                                       ![p].plan = a.plan]
      BY <2>2
    <3>2. FitPlan(a.plan) \/ a.plan = NoPlan
      BY <1>2, <3>1
    <3>3. Carries(planner'[p])
      BY <1>1, <3>1, <3>2 DEF Carries
    <3>4. \A q \in Planners \ {p} : planner'[q] = planner[q]
      BY <1>1, <3>1
    <3>. QED
      BY <1>1, <3>1, <3>3, <3>4 DEF PlansInv, CarriedFit, Carries
  <2>3. CASE planner' = [planner EXCEPT ![p].pc = "failed"]
    <3>1. Carries(planner'[p])
      BY <1>1, <2>1, <2>3 DEF Carries
    <3>2. \A q \in Planners \ {p} : planner'[q] = planner[q]
      BY <1>1, <2>3
    <3>. QED
      BY <1>1, <2>3, <3>1, <3>2 DEF PlansInv, CarriedFit, Carries
  <2>. QED
    BY <1>6, <2>2, <2>3 DEF AskModel
<1>7. Leave(p) \/ UseSaved(p) \/ UseRecipe(p) \/ AskModel(p)
  BY DEF Plan, DecidePlan, AskForDetails, Lacks, FailPlanning, FailDelivery, Crash
<1>. QED
  BY <1>3, <1>4, <1>5, <1>6, <1>7

\* The plan that is stored is the one the delivery carries.
LEMMA StoredSteps ==
  ASSUME PlansInv, NEW p \in Planners, Plan(p) \/ Crash(p)
  PROVE  StoredFit'
<1>1. CASE DecidePlan(p)
  <2>1. planner[p].pc = "deciding" /\ plan' = planner[p].plan
    BY <1>1 DEF DecidePlan
  <2>2. FitPlan(planner[p].plan)
    BY <2>1 DEF PlansInv, CarriedFit, Carries
  <2>3. FitPlan(plan')
    BY <2>1, <2>2
  <2>. QED
    BY <2>3 DEF StoredFit, FitPlan
<1>2. CASE ~DecidePlan(p)
  <2>1. plan' = plan
    BY <1>2 DEF Plan, UseSaved, UseRecipe, AskModel, AskForDetails, Lacks, FailPlanning,
                FailDelivery, Crash, run
  <2>. QED
    BY <2>1 DEF PlansInv, StoredFit, FitPlan
<1>. QED
  BY <1>1, <1>2

\* The request and its answers are settled when the run is created.
LEMMA AskStays ==
  ASSUME [Next]_vars PROVE UNCHANGED ask
<1>1. ASSUME NEW p \in Planners, Plan(p) \/ Crash(p) PROVE UNCHANGED ask
  BY <1>1 DEF Plan, UseSaved, UseRecipe, AskModel, DecidePlan, AskForDetails, Lacks,
              FailPlanning, FailDelivery, Crash, run
<1>2. ASSUME Deliver \/ Elapse \/ RecoverStale \/ Start \/ Cancel PROVE UNCHANGED ask
  BY <1>2 DEF Deliver, BeginPlanning, MissLock, Elapse, RecoverStale, Start, Cancel, run
<1>3. ASSUME NEW a \in Accounts, NEW c \in Clients, ReadResume(c, a) PROVE UNCHANGED ask
  BY <1>3 DEF ReadResume, run
<1>4. ASSUME NEW a \in Accounts, Connect(a) \/ Disconnect(a) PROVE UNCHANGED ask
  BY <1>4 DEF Connect, Disconnect, run
<1>5. ASSUME NEW c \in Clients, WriteResume(c) PROVE UNCHANGED ask
  BY <1>5 DEF WriteResume
<1>6. ASSUME UNCHANGED vars PROVE UNCHANGED ask
  BY <1>6 DEF vars, ask
<1>. QED
  BY <1>1, <1>2, <1>3, <1>4, <1>5, <1>6 DEF Next

\* A plan reaches a run only through a delivery that carries it, however deliveries,
\* requests and crashes interleave.
LEMMA PlansKept ==
  ASSUME PlansInv, [Next]_vars PROVE PlansInv'
<1>1. UNCHANGED ask
  BY AskStays
<1>2. AsksFit'
  BY <1>1 DEF PlansInv, AsksFit, FitAnswer, FitPlan, ask
<1>3. CASE \E p \in Planners : Plan(p) \/ Crash(p)
  BY <1>2, <1>3, CarriedSteps, StoredSteps DEF PlansInv
<1>4. CASE \E p \in Planners : BeginPlanning(p)
  <2>1. PICK p \in Planners : BeginPlanning(p)
    BY <1>4
  <2>2. /\ planner[p].pc = "idle" /\ plan' = plan
        /\ \/ planner' = [planner EXCEPT ![p].pc = "compiling", ![p].saw = accounts]
           \/ planner' = planner
    BY <2>1 DEF BeginPlanning
  <2>3. DOMAIN planner = Planners /\ \A q \in Planners : Carries(planner[q])
    BY DEF PlansInv, CarriedFit
  <2>4. Carries(planner'[p])
    BY <2>2, <2>3 DEF Carries
  <2>5. \A q \in Planners \ {p} : planner'[q] = planner[q]
    BY <2>2, <2>3
  <2>6. CarriedFit'
    BY <2>2, <2>3, <2>4, <2>5 DEF CarriedFit, Carries
  <2>. QED
    BY <1>2, <2>2, <2>6 DEF PlansInv, StoredFit, FitPlan
<1>5. CASE UNCHANGED <<plan, planner>>
  BY <1>2, <1>5 DEF PlansInv, StoredFit, CarriedFit, Carries, FitPlan
<1>6. \/ \E p \in Planners : Plan(p) \/ Crash(p)
      \/ \E p \in Planners : BeginPlanning(p)
      \/ UNCHANGED <<plan, planner>>
  BY DEF Next, vars, run, Deliver, MissLock, Elapse, RecoverStale, Start, Cancel, Connect,
         Disconnect, ReadResume, WriteResume
<1>. QED
  BY <1>3, <1>4, <1>5, <1>6

\* A failed attempt that is repaired leaves the run a round, or ends its planning.
LEMMA RecoverTypes ==
  ASSUME NEW category, Recover(category), attempts <= MaxRounds, RowsInv
  PROVE  /\ status' \in RunStatus /\ blocker' \in Blockers
         /\ attempts' \in 0..(MaxRounds + 1) /\ later' \in 0..1
         /\ status' = "planning" => attempts' <= MaxRounds
         /\ status' \in {"planning", "waiting_for_action", "blocked"}
<1>1. MaxRounds \in Nat /\ attempts \in 0..(MaxRounds + 1) /\ later \in 0..1 /\ blocker \in Blockers
  BY PlanningAssumption DEF PlanningAssumption, RowsInv, Rounded, RunTyped
<1>2. Rounds(category) <= MaxRounds
  BY <1>1 DEF Rounds
<1>3. attempts' = attempts + 1 /\ attempts' \in 0..(MaxRounds + 1)
  BY <1>1 DEF Recover
<1>4. CASE Transition("waiting_for_action", "operator_billing_required") /\ later' = later
  BY <1>1, <1>3, <1>4 DEF Transition, RunStatus, Blockers
<1>5. CASE /\ attempts + 1 <= Rounds(category) /\ Transition("planning", "same")
           /\ later' = 1 \/ later' = later
  <2>1. status' = "planning" /\ blocker' = blocker
    BY <1>5 DEF Transition
  <2>2. Rounds(category) \in Nat
    BY <1>1 DEF Rounds
  <2>3. attempts' <= MaxRounds
    BY <1>1, <1>2, <1>3, <1>5, <2>2
  <2>. QED
    BY <1>1, <1>3, <1>5, <2>1, <2>3 DEF RunStatus
<1>6. CASE Transition("blocked", "same") /\ later' = later
  BY <1>1, <1>3, <1>6 DEF Transition, RunStatus
<1>. QED
  BY <1>4, <1>5, <1>6 DEF Recover

\* A requirement that is added is a row like the others.
LEMMA RequireTypes ==
  ASSUME RowsInv, NEW cs, Require(cs)
  PROVE  reqs' \in [Caps -> {"none", "pending", "satisfied"}]
  BY DEF RowsInv, RowsTyped, Require

\* A planner works on a run that has rounds left.
LEMMA RoundsLeft ==
  ASSUME Inv, RowsInv, NEW p \in Planners, planner[p].pc # "idle"
  PROVE  status = "planning" /\ Pending = {} /\ attempts <= MaxRounds
  BY Alone DEF RowsInv, Rounded

\* A planner leaves the rows of its run in shape.
LEMMA PlanTypes ==
  ASSUME Inv, RowsInv, NEW p \in Planners, Plan(p) \/ Crash(p)
  PROVE  RunTyped' /\ Rounded' /\ reqs' \in [Caps -> {"none", "pending", "satisfied"}]
<1>1. status = "planning" /\ Pending = {} /\ attempts <= MaxRounds
  <2>1. planner[p].pc # "idle"
    BY DEF Plan, UseSaved, UseRecipe, AskModel, DecidePlan, AskForDetails, Lacks, FailPlanning,
           FailDelivery, Crash
  <2>. QED
    BY <2>1, RoundsLeft
<1>2. /\ cancelReq \in BOOLEAN /\ blocker \in Blockers /\ status \in RunStatus
      /\ attempts \in 0..(MaxRounds + 1) /\ restarts \in 0..MaxRestarts /\ later \in 0..1
      /\ reqs \in [Caps -> {"none", "pending", "satisfied"}]
  BY DEF RowsInv, RunTyped, Rounded, RowsTyped
<1>3. restarts' = restarts /\ cancelReq' = cancelReq
  BY DEF Plan, UseSaved, UseRecipe, AskModel, DecidePlan, AskForDetails, Lacks, FailPlanning,
         FailDelivery, Crash, run
\* The run stays where it is, waits, or is offered, and the rounds are what they were.
<1>4. ASSUME attempts' = attempts, later' = later, status' \in RunStatus, blocker' \in Blockers,
             reqs' \in [Caps -> {"none", "pending", "satisfied"}]
      PROVE  RunTyped' /\ Rounded' /\ reqs' \in [Caps -> {"none", "pending", "satisfied"}]
  BY <1>1, <1>2, <1>3, <1>4 DEF RunTyped, Rounded
<1>5. ASSUME NEW category, Recover(category), reqs' = reqs
      PROVE  RunTyped' /\ Rounded' /\ reqs' \in [Caps -> {"none", "pending", "satisfied"}]
  <2>1. /\ status' \in RunStatus /\ blocker' \in Blockers
        /\ attempts' \in 0..(MaxRounds + 1) /\ later' \in 0..1
        /\ status' = "planning" => attempts' <= MaxRounds
        /\ status' \in {"planning", "waiting_for_action", "blocked"}
    BY <1>1, <1>5, RecoverTypes
  <2>2. Pending' = {}
    BY <1>1, <1>5 DEF Pending
  <2>. QED
    BY <1>2, <1>3, <1>5, <2>1, <2>2 DEF RunTyped, Rounded
<1>6. ASSUME NEW target \in RunStatus, NEW why \in Blockers \cup {"same"}, Transition(target, why)
      PROVE  status' \in RunStatus /\ blocker' \in Blockers
  BY <1>2, <1>6 DEF Transition
<1>7. CASE UseSaved(p) \/ UseRecipe(p) \/ AskModel(p) \/ Crash(p)
  <2>1. UNCHANGED <<attempts, later, status, blocker, reqs>>
    BY <1>7 DEF UseSaved, UseRecipe, AskModel, Crash, run
  <2>. QED
    BY <1>2, <1>4, <2>1
<1>8. CASE DecidePlan(p)
  <2>1. /\ UNCHANGED <<attempts, later>> /\ \E missing : Require(missing)
        /\ \/ Transition("awaiting_approval", "plan_approval_required")
           \/ Transition("waiting_for_action", "connection_required")
    BY <1>8 DEF DecidePlan
  <2>2. status' \in RunStatus /\ blocker' \in Blockers
    BY <1>6, <2>1 DEF RunStatus, Blockers
  <2>. QED
    BY <1>4, <2>1, <2>2, RequireTypes
<1>9. CASE AskForDetails(p)
  <2>1. /\ UNCHANGED <<attempts, later, reqs>>
        /\ Transition("waiting_for_action", "pilot_details_required")
    BY <1>9 DEF AskForDetails
  <2>2. status' \in RunStatus /\ blocker' \in Blockers
    BY <1>6, <2>1 DEF RunStatus, Blockers
  <2>. QED
    BY <1>2, <1>4, <2>1, <2>2
<1>10. CASE Lacks(p)
  <2>1. \/ Recover("planner_runtime") /\ reqs' = reqs
        \/ /\ \E missing : Require(missing)
           /\ Transition("waiting_for_action", "connection_required")
           /\ UNCHANGED <<attempts, later>>
    BY <1>10 DEF Lacks
  <2>2. CASE Recover("planner_runtime") /\ reqs' = reqs
    BY <1>5, <2>2
  <2>3. CASE ~(Recover("planner_runtime") /\ reqs' = reqs)
    <3>1. status' \in RunStatus /\ blocker' \in Blockers
      BY <1>6, <2>1, <2>3 DEF RunStatus, Blockers
    <3>. QED
      BY <1>4, <2>1, <2>3, <3>1, RequireTypes
  <2>. QED
    BY <2>2, <2>3
<1>11. CASE FailPlanning(p)
  <2>1. \/ \E category : Recover(category) /\ reqs' = reqs
        \/ /\ \E missing : Require(missing)
           /\ Transition("waiting_for_action", "connection_required")
           /\ UNCHANGED <<attempts, later>>
        \/ PauseDirect /\ reqs' = reqs
    BY <1>11 DEF FailPlanning
  <2>2. CASE \E category : Recover(category) /\ reqs' = reqs
    BY <1>5, <2>2
  <2>3. CASE /\ \E missing : Require(missing)
             /\ Transition("waiting_for_action", "connection_required")
             /\ UNCHANGED <<attempts, later>>
    <3>1. status' \in RunStatus /\ blocker' \in Blockers
      BY <1>6, <2>3 DEF RunStatus, Blockers
    <3>. QED
      BY <1>4, <2>3, <3>1, RequireTypes
  <2>4. CASE PauseDirect /\ reqs' = reqs
    <3>1. status' \in RunStatus /\ blocker' \in Blockers
      BY <1>6, <2>4 DEF PauseDirect, RunStatus, Blockers
    <3>. QED
      BY <1>2, <1>4, <2>4, <3>1 DEF PauseDirect
  <2>. QED
    BY <2>1, <2>2, <2>3, <2>4
<1>12. CASE FailDelivery(p)
  <2>1. /\ reqs' = reqs
        /\ \/ PauseDirect
           \/ \E category : Recover(category)
           \/ UNCHANGED <<status, blocker, attempts, later>>
    BY <1>12 DEF FailDelivery
  <2>2. CASE \E category : Recover(category)
    BY <1>5, <2>1, <2>2
  <2>3. CASE PauseDirect
    <3>1. status' \in RunStatus /\ blocker' \in Blockers
      BY <1>6, <2>3 DEF PauseDirect, RunStatus, Blockers
    <3>. QED
      BY <1>2, <1>4, <2>1, <2>3, <3>1 DEF PauseDirect
  <2>4. CASE UNCHANGED <<status, blocker, attempts, later>>
    BY <1>2, <1>4, <2>1, <2>4
  <2>. QED
    BY <2>1, <2>2, <2>3, <2>4
<1>. QED
  BY <1>7, <1>8, <1>9, <1>10, <1>11, <1>12 DEF Plan

\* The sessions of the other planners stay, and so does what they have seen.
LEMMA SawKept ==
  ASSUME PlansInv, RowsInv, NEW p \in Planners, NEW as \in SUBSET Accounts,
         DOMAIN planner' = Planners, \A q \in Planners \ {p} : planner'[q] = planner[q],
         planner'[p].saw = planner[p].saw \/ planner'[p].saw = as
  PROVE  \A q \in Planners : planner'[q].saw \subseteq Accounts
  BY DEF RowsInv, RowsTyped

\* A planner keeps the rows, the inventories and the requests.
LEMMA PlanKeepsRows ==
  ASSUME Inv, PlansInv, RowsInv, NEW p \in Planners, Plan(p) \/ Crash(p)
  PROVE  RowsInv'
<1>1. DOMAIN planner = Planners /\ Carries(planner[p]) /\ holder \in Planners \cup {NoPlanner}
  BY DEF PlansInv, CarriedFit, RowsInv, RowsTyped
<1>2. ReqTyped'
  <2>1. req' = req
    BY DEF Plan, UseSaved, UseRecipe, AskModel, DecidePlan, AskForDetails, Lacks, FailPlanning,
           FailDelivery, Crash
  <2>. QED
    BY <2>1 DEF RowsInv, ReqTyped
<1>3. accounts' \subseteq known' /\ known' \subseteq Accounts
  <2>1. accounts \subseteq known /\ known \subseteq Accounts
    BY DEF RowsInv, RowsTyped
  <2>2. CASE DecidePlan(p)
    <3>1. PICK reused \in SUBSET Accounts :
            accounts' = accounts \cup reused /\ known' = known \cup reused
      BY <2>2, PlanningAssumption DEF DecidePlan, Retrievable, PlanningAssumption
    <3>. QED
      BY <2>1, <3>1
  <2>3. CASE ~DecidePlan(p)
    <3>1. UNCHANGED <<accounts, known>>
      BY <2>3 DEF Plan, UseSaved, UseRecipe, AskModel, AskForDetails, Lacks, FailPlanning,
                  FailDelivery, Crash, rows
    <3>. QED
      BY <2>1, <3>1
  <2>. QED
    BY <2>2, <2>3
<1>4. /\ holder' \in Planners \cup {NoPlanner}
      /\ \A q \in Planners : planner'[q].saw \subseteq Accounts
  <2>1. CASE Leave(p)
    <3>1. planner' = [planner EXCEPT ![p] = Idle] /\ holder' = NoPlanner
      BY <2>1 DEF Leave
    <3>2. /\ planner'[p].saw = {} /\ DOMAIN planner' = Planners
          /\ \A q \in Planners \ {p} : planner'[q] = planner[q]
      BY <1>1, <3>1 DEF Idle
    <3>. QED
      BY <3>1, <3>2, SawKept
  <2>2. CASE UseSaved(p) \/ UseRecipe(p) \/ AskModel(p)
    <3>1. holder' = holder
      BY <2>2 DEF UseSaved, UseRecipe, AskModel
    <3>2. /\ planner'[p].saw = planner[p].saw /\ DOMAIN planner' = Planners
          /\ \A q \in Planners \ {p} : planner'[q] = planner[q]
      <4>1. CASE UseSaved(p)
        BY <1>1, <4>1 DEF UseSaved, Carries
      <4>2. CASE UseRecipe(p)
        BY <1>1, <4>2 DEF UseRecipe, Carries
      <4>3. CASE AskModel(p)
        BY <1>1, <4>3 DEF AskModel, Carries
      <4>. QED
        BY <2>2, <4>1, <4>2, <4>3
    <3>. QED
      BY <1>1, <3>1, <3>2, SawKept
  <2>3. Leave(p) \/ UseSaved(p) \/ UseRecipe(p) \/ AskModel(p)
    BY DEF Plan, DecidePlan, AskForDetails, Lacks, FailPlanning, FailDelivery, Crash
  <2>. QED
    BY <2>1, <2>2, <2>3
<1>5. RunTyped' /\ Rounded' /\ reqs' \in [Caps -> {"none", "pending", "satisfied"}]
  BY PlanTypes
<1>. QED
  BY <1>2, <1>3, <1>4, <1>5 DEF RowsInv, RowsTyped

\* A delivery keeps them.
LEMMA DeliveryKeepsRows ==
  ASSUME PlansInv, RowsInv, NEW p \in Planners, BeginPlanning(p) \/ MissLock(p)
  PROVE  RowsInv'
<1>1. /\ UNCHANGED <<reqs, rows, attempts, restarts, later, req, cancelReq>>
      /\ DOMAIN planner = Planners /\ Carries(planner[p])
  BY DEF BeginPlanning, MissLock, run, PlansInv, CarriedFit
<1>2. ReqTyped'
  BY <1>1 DEF RowsInv, ReqTyped
<1>3. CASE BeginPlanning(p) /\ status \in Plannable
  <2>1. /\ holder' = p /\ status' = "planning" /\ blocker' = blocker
        /\ planner' = [planner EXCEPT ![p].pc = "compiling", ![p].saw = accounts]
    BY <1>3 DEF BeginPlanning, Transition
  <2>2. accounts \in SUBSET Accounts
    BY DEF RowsInv, RowsTyped
  <2>3. /\ planner'[p].saw = accounts /\ DOMAIN planner' = Planners
        /\ \A q \in Planners \ {p} : planner'[q] = planner[q]
    BY <1>1, <2>1 DEF Carries
  <2>4. \A q \in Planners : planner'[q].saw \subseteq Accounts
    BY <2>2, <2>3, SawKept
  <2>5. RunTyped' /\ RowsTyped' /\ Rounded'
    BY <1>1, <1>3, <2>1, <2>4 DEF RowsInv, RunTyped, RowsTyped, Rounded, RunStatus, Plannable, rows,
                                  Pending
  <2>. QED
    BY <1>2, <2>5 DEF RowsInv
<1>4. CASE (BeginPlanning(p) /\ status \notin Plannable) \/ MissLock(p)
  <2>1. UNCHANGED <<holder, planner, status, blocker>>
    BY <1>4 DEF BeginPlanning, MissLock, run
  <2>. QED
    BY <1>1, <1>2, <2>1 DEF RowsInv, RunTyped, RowsTyped, Rounded, rows, Pending
<1>. QED
  BY <1>3, <1>4

\* What is neither planned nor resumed: the rounds do not change.
LEMMA ApartKeepsRows ==
  ASSUME RowsInv, UNCHANGED <<planner, holder, attempts>>,
         RunTyped', ReqTyped',
         reqs' \in [Caps -> {"none", "pending", "satisfied"}],
         accounts' \subseteq known', known' \subseteq Accounts,
         restarts' \in 0..MaxRestarts, later' \in 0..1,
         \/ attempts <= MaxRounds
         \/ Pending' = Pending /\ status' = status
         \/ Pending' = {} /\ status' \notin {"queued", "planning", "awaiting_approval"}
         \/ Pending' = Pending /\ status' \notin {"queued", "planning", "awaiting_approval"}
  PROVE  RowsInv'
  BY DEF RowsInv, RowsTyped, Rounded

\* The sweep, a start and a cancellation keep them.
LEMMA RunKeepsRows ==
  ASSUME Inv, RowsInv, RecoverStale \/ Start \/ Cancel
  PROVE  RowsInv'
<1>1. /\ status \in RunStatus /\ blocker \in Blockers /\ cancelReq \in BOOLEAN
      /\ reqs \in [Caps -> {"none", "pending", "satisfied"}]
      /\ accounts \subseteq known /\ known \subseteq Accounts
      /\ restarts \in 0..MaxRestarts /\ later \in 0..1 /\ MaxRestarts \in Nat
  BY PlanningAssumption DEF RowsInv, RunTyped, RowsTyped, Rounded, PlanningAssumption
<1>2. CASE RecoverStale
  <2>1. /\ UNCHANGED <<planner, holder, attempts, cancelReq, reqs, rows, later, req>>
        /\ status \in {"queued", "planning"} /\ blocker' = blocker
        /\ status' \in {"queued", "waiting_for_action"}
    BY <1>2 DEF RecoverStale, Plannable, Transition
  <2>2. attempts <= MaxRounds
    BY <2>1 DEF RowsInv, Rounded
  <2>3. restarts' \in 0..MaxRestarts
    BY <1>1, <1>2 DEF RecoverStale
  <2>4. RunTyped' /\ ReqTyped'
    BY <1>1, <2>1 DEF RowsInv, RunTyped, ReqTyped, RunStatus
  <2>. QED
    BY <1>1, <2>1, <2>2, <2>3, <2>4, ApartKeepsRows DEF rows
<1>3. CASE Start
  <2>1. /\ UNCHANGED <<planner, holder, attempts, cancelReq, rows, restarts, later, req>>
        /\ status = "awaiting_approval" /\ blocker' \in Blockers
        /\ status' \in {"running", "waiting_for_action", "cancelled"}
        /\ reqs' = reqs \/ \E cs : Require(cs)
    BY <1>1, <1>3 DEF Start, Transition, Blockers
  <2>2. attempts <= MaxRounds
    BY <2>1 DEF RowsInv, Rounded
  <2>3. reqs' \in [Caps -> {"none", "pending", "satisfied"}]
    BY <1>1, <2>1, RequireTypes
  <2>4. RunTyped' /\ ReqTyped'
    BY <1>1, <2>1 DEF RowsInv, RunTyped, ReqTyped, RunStatus
  <2>. QED
    BY <1>1, <2>1, <2>2, <2>3, <2>4, ApartKeepsRows DEF rows
<1>4. CASE Cancel
  <2>1. /\ UNCHANGED <<planner, holder, attempts, reqs, rows, restarts, later, req>>
        /\ status' = status \/ status' = "cancelled"
        /\ cancelReq' = TRUE /\ blocker' = blocker
    BY <1>4 DEF Cancel, Transition
  <2>2. RunTyped' /\ ReqTyped' /\ Pending' = Pending
    BY <1>1, <2>1 DEF RowsInv, RunTyped, ReqTyped, RunStatus, Pending
  <2>. QED
    BY <1>1, <2>1, <2>2, ApartKeepsRows DEF rows
<1>. QED
  BY <1>2, <1>3, <1>4

\* A request keeps them: only a run with rounds left has a requirement to satisfy.
LEMMA RequestKeepsRows ==
  ASSUME Inv, RowsInv, NEW c \in Clients,
         WriteResume(c) \/ \E a \in Accounts : ReadResume(c, a)
  PROVE  RowsInv'
<1>1. /\ status \in RunStatus /\ blocker \in Blockers /\ cancelReq \in BOOLEAN
      /\ reqs \in [Caps -> {"none", "pending", "satisfied"}]
      /\ accounts \subseteq known /\ known \subseteq Accounts
      /\ restarts \in 0..MaxRestarts /\ later \in 0..1
      /\ req \in [Clients -> Requests \cup {NoRequest}]
      /\ \A d \in Clients : req[d] # NoRequest => req[d].seen # {}
  BY DEF RowsInv, RunTyped, RowsTyped, Rounded, ReqTyped
<1>2. CASE \E a \in Accounts : ReadResume(c, a)
  <2>1. PICK a \in Accounts : ReadResume(c, a)
    BY <1>2
  <2>2. /\ UNCHANGED <<planner, holder, attempts, cancelReq, reqs, rows, restarts,
                       later, status, blocker>>
        /\ req' = [req EXCEPT ![c] = [seen |-> Pending, account |-> a]] /\ Pending # {}
    BY <2>1 DEF ReadResume, run
  <2>3. [seen |-> Pending, account |-> a] \in Requests
    BY DEF Requests, Pending
  <2>4. ReqTyped'
    BY <1>1, <2>2, <2>3 DEF ReqTyped
  <2>5. RunTyped' /\ Pending' = Pending
    BY <1>1, <2>2 DEF RunTyped, Pending
  <2>. QED
    BY <1>1, <2>2, <2>4, <2>5, ApartKeepsRows DEF rows
<1>3. CASE WriteResume(c)
  <2>1. /\ UNCHANGED <<planner, holder, attempts, cancelReq, rows, restarts, later>>
        /\ req[c] # NoRequest /\ req' = [req EXCEPT ![c] = NoRequest]
        /\ \E matched \in SUBSET Caps :
             reqs' = [n \in Caps |-> IF n \in matched THEN "satisfied" ELSE reqs[n]]
        /\ ResumeAfterConnections \/ UNCHANGED <<status, blocker>>
    <3>1. req[c] # NoRequest => req[c].seen \subseteq Caps
      BY <1>1 DEF Requests
    <3>. QED
      BY <1>3, <3>1 DEF WriteResume
  <2>2. attempts <= MaxRounds
    <3>1. Pending # {}
      BY <1>1, <2>1 DEF Inv, Fresh
    <3>. QED
      BY <3>1 DEF RowsInv, Rounded
  <2>3. status' \in RunStatus /\ blocker' \in Blockers
    BY <1>1, <2>1 DEF ResumeAfterConnections, StoreStatus, RunStatus, Blockers
  <2>4. RunTyped' /\ ReqTyped'
    BY <1>1, <2>1, <2>3 DEF RunTyped, ReqTyped
  <2>5. reqs' \in [Caps -> {"none", "pending", "satisfied"}]
    BY <1>1, <2>1
  <2>. QED
    BY <1>1, <2>1, <2>2, <2>4, <2>5, ApartKeepsRows DEF rows
<1>. QED
  BY <1>2, <1>3

\* A run that has just been created has no plan yet.
LEMMA PlansInit ==
  ASSUME Init PROVE PlansInv
<1>1. AsksFit
  BY AnswersFit DEF Init, AsksFit
<1>2. CarriedFit
  BY DEF Init, CarriedFit, Carries, Idle
<1>. QED
  BY <1>1, <1>2 DEF Init, PlansInv, StoredFit

\* Its rows have their shape.
LEMMA RowsInit ==
  ASSUME Init PROVE RowsInv
<1>1. MaxRounds \in Nat /\ MaxRestarts \in Nat
  BY PlanningAssumption DEF PlanningAssumption
<1>2. RunTyped /\ RowsTyped
  BY DEF Init, RunTyped, RowsTyped, RunStatus, Blockers, Idle
<1>3. Rounded
  BY <1>1 DEF Init, Rounded
<1>4. ReqTyped
  BY DEF Init, ReqTyped
<1>. QED
  BY <1>2, <1>3, <1>4 DEF RowsInv

\* Every step keeps the rows in shape and the rounds within their budget.
LEMMA RowsKept ==
  ASSUME Inv, PlansInv, RowsInv, [Next]_vars PROVE RowsInv'
<1>1. CASE Deliver
  BY <1>1, DeliveryKeepsRows DEF Deliver
<1>2. CASE \E p \in Planners : Plan(p) \/ Crash(p)
  BY <1>2, PlanKeepsRows
<1>3. CASE RecoverStale \/ Start \/ Cancel
  BY <1>3, RunKeepsRows
<1>4. CASE \E c \in Clients : WriteResume(c) \/ \E a \in Accounts : ReadResume(c, a)
  BY <1>4, RequestKeepsRows
<1>5. CASE Elapse \/ (\E a \in Accounts : Connect(a) \/ Disconnect(a)) \/ UNCHANGED vars
  <2>1. UNCHANGED <<planner, holder, attempts, status, blocker, cancelReq, reqs, req, restarts>>
    BY <1>5 DEF Elapse, Connect, Disconnect, vars, run, ask
  <2>2. RunTyped' /\ ReqTyped' /\ Pending' = Pending
    BY <2>1 DEF RowsInv, RunTyped, ReqTyped, Pending
  <2>3. /\ accounts \subseteq known /\ known \subseteq Accounts /\ later \in 0..1
        /\ restarts \in 0..MaxRestarts /\ reqs \in [Caps -> {"none", "pending", "satisfied"}]
    BY DEF RowsInv, RowsTyped, Rounded
  <2>4. accounts' \subseteq known' /\ known' \subseteq Accounts /\ later' \in 0..1
    BY <1>5, <2>3 DEF Elapse, Connect, Disconnect, vars, rows
  <2>. QED
    BY <2>1, <2>2, <2>3, <2>4, ApartKeepsRows
<1>. QED
  BY <1>1, <1>2, <1>3, <1>4, <1>5 DEF Next

\* A fit plan is what the review needs.
LEMMA PlansAreReviewable ==
  ASSUME PlansInv PROVE WritesAreShown /\ ResultsAreThere
<1>1. WritesAreShown
  BY DEF PlansInv, StoredFit, FitPlan, WritesAreShown, WritesMarked
<1>2. ResultsAreThere
  BY FitIsOrdered DEF PlansInv, StoredFit, ResultsAreThere
<1>. QED
  BY <1>1, <1>2

\* The rows and the plans have their shape.
LEMMA RowsAreTyped ==
  ASSUME PlansInv, RowsInv PROVE TypeOK
<1>1. plan = NoPlan \/ WellFormed(plan)
  BY DEF PlansInv, StoredFit, FitPlan
<1>2. \A p \in Planners :
        /\ planner[p].pc \in {"idle", "compiling", "repairing", "deciding", "failed"}
        /\ IF planner[p].pc = "deciding" THEN WellFormed(planner[p].plan)
                                        ELSE planner[p].plan = NoPlan
  BY DEF PlansInv, CarriedFit, Carries, FitPlan
<1>. QED
  BY <1>1, <1>2 DEF PlansInv, RowsInv, TypeOK, AsksFit, RunTyped, RowsTyped, ReqTyped, Rounded

\* Every write of a stored plan is shown to a person before it runs (orchestrator.py:434-437),
\* and whatever a step refers to is done before it (schemas.py, validate_execution_graph):
\* for any catalog, any drafts and recipes, and however planners, requests, repairs and
\* crashes interleave.
THEOREM StoredPlansReviewable ==
  Spec => [](WritesAreShown /\ ResultsAreThere)
<1>1. Init => PlansInv
  BY PlansInit
<1>2. PlansInv /\ [Next]_vars => PlansInv'
  BY PlansKept
<1>3. PlansInv => WritesAreShown /\ ResultsAreThere
  BY PlansAreReviewable
<1>. QED
  BY <1>1, <1>2, <1>3, PTL DEF Spec

\* While the requests that bring a connection come one after the other, a plan that is
\* stored is fit to be reviewed and every row has its shape: the steps the compiler adds
\* keep the plan within its bound and in order, and the supervisor's rounds of planning
\* (run_supervisor.py, recover_planning_failure) stay within their budget.
THEOREM PlansAreFit ==
  ASSUME OneClient PROVE Spec => []PlanIsFit
<1>1. Init => Inv /\ PlansInv /\ RowsInv
  BY InitEstablishes, PlansInit, RowsInit
<1>2. Inv /\ PlansInv /\ RowsInv /\ [Next]_vars => (Inv /\ PlansInv /\ RowsInv)'
  BY NextKeeps, PlansKept, RowsKept
<1>3. PlansInv /\ RowsInv => PlanIsFit
  BY PlansAreReviewable, RowsAreTyped DEF PlanIsFit
<1>. QED
  BY <1>1, <1>2, <1>3, PTL DEF Spec
--------------------------------------------------------------------------------
\* What a plan asks to be connected

\* The calls of a plan, in the inventory its checks were made against or connected.
CallsIn(p, inv) == \A s \in Steps(p) : CallsOf(s) \subseteq inv

\* What an answer or a delivery carries calls what the request has left of the
\* catalog, for the accounts it has seen, or what those accounts grant.
Within(r, as, p) == CallsIn(p, Left(r, as)) \/ CallsIn(p, Grants(as))

\* A plan that passes its preflight calls what it was checked against.
LEMMA PreflightBounds ==
  ASSUME NEW r, NEW inv, NEW p, Preflight(r, inv, p) PROVE CallsIn(p, inv)
  BY DEF Preflight, Authorized, CallsIn, CallsOf

\* Every answer calls what was left to it.
LEMMA AnswersWithin ==
  ASSUME NEW r, NEW d, NEW a \in Answers(r, d), a.plan # NoPlan \/ a.from = "saved"
  PROVE  Within(r, a.saw, a.plan)
<1>1. PICK as \in SUBSET Accounts :
        a \in RecipeAnswers(r, as) \cup ModelAnswers(r, as, d) \cup SavedAnswers(r, as)
  BY DEF Answers
<1>2. CASE a \in RecipeAnswers(r, as)
  <2>1. PICK p \in Recipes[r] :
          a = [from |-> "recipe", saw |-> as,
               plan |-> IF AcceptedRecipe(r, Left(r, as), p)
                        THEN CompiledRecipe(r, Left(r, as), p) ELSE NoPlan]
    BY <1>2 DEF RecipeAnswers
  <2>2. a.saw = as /\ Preflight(r, Left(r, as), a.plan)
    BY <2>1 DEF AcceptedRecipe
  <2>. QED
    BY <2>2, PreflightBounds DEF Within
<1>3. CASE a \in ModelAnswers(r, as, d)
  <2>1. PICK p \in Proposals(r, as, d) :
          a = [from |-> "model", saw |-> as,
               plan |-> IF Accepted(r, Left(r, as), p) THEN Compiled(r, Left(r, as), p)
                        ELSE NoPlan]
    BY <1>3 DEF ModelAnswers
  <2>2. a.saw = as /\ Preflight(r, Left(r, as), a.plan)
    BY <2>1 DEF Accepted
  <2>. QED
    BY <2>2, PreflightBounds DEF Within
<1>4. CASE a \in SavedAnswers(r, as)
  <2>1. PICK p : /\ a = [from |-> "saved", saw |-> as, plan |-> NormalizeGraph(p)]
                 /\ Reusable(r, Grants(as), p)
    BY <1>4 DEF SavedAnswers
  <2>2. a.saw = as /\ Preflight(r, Grants(as), a.plan)
    BY <2>1 DEF Reusable
  <2>. QED
    BY <2>2, PreflightBounds DEF Within
<1>. QED
  BY <1>1, <1>2, <1>3, <1>4

\* The answers stay, and what a delivery is about to store was made for the
\* accounts it has seen.
AskedWithin == \A a \in answers :
                 a.plan # NoPlan \/ a.from = "saved" => Within(prompt, a.saw, a.plan)
Bounds(w)   == w.pc = "deciding" => Within(prompt, w.saw, w.plan)
CallsInv    == AskedWithin /\ \A p \in Planners : Bounds(planner[p])

\* A delivery takes a plan from the answers for what it has seen, and no other.
LEMMA CallsKept ==
  ASSUME PlansInv, CallsInv, [Next]_vars PROVE CallsInv'
<1>. USE DEF PlansInv, CarriedFit
<1>1. UNCHANGED ask
  BY AskStays
<1>2. AskedWithin'
  BY <1>1 DEF CallsInv, AskedWithin, Within, CallsIn, ask
<1>3. DOMAIN planner = Planners /\ \A p \in Planners : DOMAIN planner[p] = {"pc", "saw", "plan"}
  BY DEF Carries
<1>4. ASSUME NEW p \in Planners, \A q \in Planners \ {p} : planner'[q] = planner[q],
             planner'[p].pc # "deciding" \/ planner'[p] = planner[p]
             \/ \E a \in answers : /\ a.plan # NoPlan \/ a.from = "saved"
                                   /\ planner'[p].plan = a.plan /\ planner'[p].saw = a.saw
      PROVE  \A q \in Planners : Bounds(planner[q])'
  <2>1. prompt' = prompt
    BY <1>1 DEF ask
  <2>2. \A q \in Planners : planner'[q] = planner[q] => Bounds(planner[q])'
    BY <2>1 DEF CallsInv, Bounds, Within, CallsIn
  <2>3. Bounds(planner[p])'
    BY <1>4, <2>1, <2>2 DEF CallsInv, AskedWithin, Bounds, Within, CallsIn
  <2>. QED
    BY <1>4, <2>2, <2>3
<1>5. ASSUME NEW p \in Planners, Plan(p) \/ Crash(p) \/ BeginPlanning(p)
      PROVE  \A q \in Planners : Bounds(planner[q])'
  <2>1. CASE Leave(p)
    <3>1. planner' = [planner EXCEPT ![p] = Idle]
      BY <2>1 DEF Leave
    <3>. QED
      BY <1>3, <1>4, <3>1 DEF Idle
  <2>2. CASE UseSaved(p)
    <3>1. PICK a \in answers :
            /\ a.from = "saved" /\ a.saw = planner[p].saw
            /\ planner' = [planner EXCEPT ![p].pc = "deciding", ![p].plan = a.plan]
      BY <2>2 DEF UseSaved
    <3>2. /\ \A q \in Planners \ {p} : planner'[q] = planner[q]
          /\ planner'[p].plan = a.plan /\ planner'[p].saw = a.saw
      BY <1>3, <3>1
    <3>. QED
      BY <1>4, <3>1, <3>2
  <2>3. CASE UseRecipe(p)
    <3>1. PICK a \in answers :
            /\ a.saw = planner[p].saw
            /\ planner' = [planner EXCEPT ![p].pc = IF a.plan = NoPlan THEN "failed" ELSE "deciding",
                                          ![p].plan = a.plan]
      BY <2>3 DEF UseRecipe
    <3>2. /\ \A q \in Planners \ {p} : planner'[q] = planner[q]
          /\ planner'[p].plan = a.plan /\ planner'[p].saw = a.saw
          /\ a.plan = NoPlan => planner'[p].pc = "failed"
      BY <1>3, <3>1
    <3>. QED
      BY <1>4, <3>2
  <2>4. CASE AskModel(p)
    <3>1. CASE planner' = [planner EXCEPT ![p].pc = "failed"]
      <4>1. /\ \A q \in Planners \ {p} : planner'[q] = planner[q]
            /\ planner'[p].pc = "failed"
        BY <1>3, <3>1
      <4>. QED
        BY <1>4, <4>1
    <3>2. CASE \E a \in answers :
                 /\ a.saw = planner[p].saw
                 /\ planner' = [planner EXCEPT ![p].pc = IF a.plan = NoPlan THEN "repairing"
                                                         ELSE "deciding",
                                               ![p].plan = a.plan]
      <4>1. PICK a \in answers :
              /\ a.saw = planner[p].saw
              /\ planner' = [planner EXCEPT ![p].pc = IF a.plan = NoPlan THEN "repairing"
                                                      ELSE "deciding",
                                            ![p].plan = a.plan]
        BY <3>2
      <4>2. /\ \A q \in Planners \ {p} : planner'[q] = planner[q]
            /\ planner'[p].plan = a.plan /\ planner'[p].saw = a.saw
            /\ a.plan = NoPlan => planner'[p].pc = "repairing"
        BY <1>3, <4>1
      <4>. QED
        BY <1>4, <4>2
    <3>. QED
      BY <2>4, <3>1, <3>2 DEF AskModel
  <2>5. CASE BeginPlanning(p)
    <3>1. \/ planner' = [planner EXCEPT ![p].pc = "compiling", ![p].saw = accounts]
          \/ planner' = planner
      BY <2>5 DEF BeginPlanning
    <3>2. /\ \A q \in Planners \ {p} : planner'[q] = planner[q]
          /\ planner'[p].pc = "compiling" \/ planner'[p] = planner[p]
      BY <1>3, <3>1
    <3>. QED
      BY <1>4, <3>2
  <2>6. Leave(p) \/ UseSaved(p) \/ UseRecipe(p) \/ AskModel(p) \/ BeginPlanning(p)
    BY <1>5 DEF Plan, DecidePlan, AskForDetails, Lacks, FailPlanning, FailDelivery, Crash
  <2>. QED
    BY <2>1, <2>2, <2>3, <2>4, <2>5, <2>6
<1>6. CASE planner' = planner
  <2>1. prompt' = prompt
    BY <1>1 DEF ask
  <2>. QED
    BY <1>2, <1>6, <2>1 DEF CallsInv, Bounds, Within, CallsIn
<1>7. (\E p \in Planners : Plan(p) \/ Crash(p) \/ BeginPlanning(p)) \/ planner' = planner
  BY DEF Next, vars, Deliver, MissLock, Elapse, RecoverStale, Start, Cancel, Connect,
         Disconnect, ReadResume, WriteResume
<1>. QED
  BY <1>2, <1>5, <1>6, <1>7 DEF CallsInv

\* Of an app with a preferred route, what is left of the catalog has that route only.
LEMMA PreferredIsLeft ==
  ASSUME NEW r, NEW as, NEW family \in {"sheets", "docs"}, NEW t \in Tools,
         Ready(r, RouteBound(Catalog, r.routes), Grants(as), family) = {t},
         \A c \in RouteBound(Catalog, r.routes) :
           c.op \in r.exact /\ Family[c.op] = family => c.tool = t,
         NEW c \in Left(r, as), family \in {Family[c.tool], Family[c.op]}
  PROVE  c.tool = t
<1>. DEFINE routed == RouteBound(Catalog, r.routes)
            q      == [family |-> family, tool |-> t]
<1>2. q \in Preferred(r, routed, Grants(as))
  BY DEF Preferred
<1>3. c \in RouteBound(routed, Preferred(r, routed, Grants(as)))
  BY DEF Left, Bounded, WithoutDuplicates, MailOnly, WithoutExcluded
<1>4. Routed(c, q)
  BY <1>2, <1>3 DEF RouteBound
<1>. QED
  BY <1>4 DEF Routed

\* A ready route is connected.
LEMMA ReadyIsGranted ==
  ASSUME NEW r, NEW inv, NEW as, NEW family, NEW t \in Ready(r, inv, Grants(as), family)
  PROVE  t \in Builtin \cup Granted(as)
  BY DEF Ready, Grants

\* What is stored asks for no account of an app whose one connected route will do.
LEMMA StoresNoNeedless ==
  ASSUME CallsInv, NEW p \in Planners, planner[p].pc = "deciding", plan' = planner[p].plan
  PROVE  LET granted == Grants(planner[p].saw)
             asked   == RouteBound(Catalog, prompt.routes)
             calls   == UNION {CallsOf(s) : s \in Steps(plan')}
         IN \A family \in {"sheets", "docs"}, t \in Tools :
              /\ Ready(prompt, asked, granted, family) = {t}
              /\ \A c \in asked : c.op \in prompt.exact /\ Family[c.op] = family => c.tool = t
              => \A c \in calls : family \in {Family[c.tool], Family[c.op]} =>
                   c.tool \in Builtin \cup Granted(planner[p].saw)
<1> DEFINE granted == Grants(planner[p].saw)
           asked   == RouteBound(Catalog, prompt.routes)
<1>1. SUFFICES ASSUME NEW family \in {"sheets", "docs"}, NEW t \in Tools,
                      Ready(prompt, asked, granted, family) = {t},
                      \A c \in asked : c.op \in prompt.exact /\ Family[c.op] = family
                                         => c.tool = t,
                      NEW s \in Steps(plan'), NEW c \in CallsOf(s),
                      family \in {Family[c.tool], Family[c.op]}
               PROVE  c.tool \in Builtin \cup Granted(planner[p].saw)
  OBVIOUS
<1>2. Within(prompt, planner[p].saw, plan')
  BY DEF CallsInv, Bounds
<1>3. CASE c \in Left(prompt, planner[p].saw)
  <2>1. c.tool = t
    BY <1>1, <1>3, PreferredIsLeft
  <2>2. t \in Builtin \cup Granted(planner[p].saw)
    BY <1>1, ReadyIsGranted
  <2>. QED
    BY <2>1, <2>2
<1>4. CASE c \in granted
  BY <1>4 DEF Grants
<1>. QED
  BY <1>1, <1>2, <1>3, <1>4 DEF Within, CallsIn

\* A plan never asks for an account where one connected route can do all that the request
\* wants of Sheets or Docs (plan_connection_routes.py, prefer_connected_app_routes),
\* whether it comes from a recipe, a model or an earlier run, for any catalog and accounts.
THEOREM OnlyNeededConnections ==
  Spec => NoNeedlessConnection
<1>1. Init => PlansInv /\ CallsInv
  <2>1. ASSUME Init PROVE CallsInv
    <3>1. AskedWithin
      BY <2>1, AnswersWithin DEF Init, AskedWithin
    <3>. QED
      BY <2>1, <3>1 DEF Init, CallsInv, Bounds, Idle
  <2>. QED
    BY <2>1, PlansInit
<1>2. PlansInv /\ CallsInv /\ [Next]_vars => (PlansInv /\ CallsInv)'
  BY PlansKept, CallsKept
<1>. DEFINE Needed ==
       \A p \in Planners : planner[p].pc = "deciding" /\ plan' = planner[p].plan =>
         LET granted == Grants(planner[p].saw)
             asked   == RouteBound(Catalog, prompt.routes)
             calls   == UNION {CallsOf(s) : s \in Steps(plan')}
         IN \A family \in {"sheets", "docs"}, t \in Tools :
              /\ Ready(prompt, asked, granted, family) = {t}
              /\ \A c \in asked : c.op \in prompt.exact /\ Family[c.op] = family => c.tool = t
              => \A c \in calls : family \in {Family[c.tool], Family[c.op]} =>
                   c.tool \in Builtin \cup Granted(planner[p].saw)
<1>3. PlansInv /\ CallsInv /\ [Next]_vars => [Needed]_vars
  BY StoresNoNeedless
<1>. HIDE DEF Needed
<1>4. Spec => [][Needed]_vars
  BY <1>1, <1>2, <1>3, PTL DEF Spec
<1>. QED
  BY <1>4 DEF Needed, NoNeedlessConnection
================================================================================
