-------------------------- MODULE RunExecutionProofs --------------------------
(***************************************************************************)
(* Safety of RunExecution, for every plan and any number of deliveries,    *)
(* requests, attempts and argument values.                                 *)
(*                                                                         *)
(* Typing.  TypeOK alone is not inductive: a worker that writes the row of *)
(* its current step, or its attempt, needs that step and that row to       *)
(* exist, and one that spends an attempt needs one left.  Typed adds this  *)
(* for every session (WorkerTyped).  The lemmas follow the module: what a  *)
(* session and a row are, what the commits shared by the actions do, then  *)
(* one lemma for each group of actions.                                    *)
(*                                                                         *)
(* What the advisory lock buys, as long as its connection lives            *)
(* (LockMayDrop = FALSE), is Once, on top of the typing: the owner of the  *)
(* lock is the only session alive; a write that has called its provider    *)
(* has a dispatched row in the ledger; a session on its way to that call   *)
(* has seen no such row, and has one attempt to spend.  On it rest, in     *)
(* this order:                                                             *)
(*   Receipts   the receipts a session has loaded are those of the rows    *)
(*   Budgets    what is spent of a read, with what a session has left      *)
(*   Authority  whose authority a write goes out with (KeepsPromise)       *)
(*   Standing   the approval a session goes by is the stored one           *)
(* Overlap is about a lock that may drop: it counts the sessions that may  *)
(* still make a call.                                                      *)
(***************************************************************************)
EXTENDS RunExecution, FiniteSetTheorems, SequenceTheorems, TLAPS

\* From "call" to "error" a worker is at a step of the plan, and while its
\* attempt is on record (HasRow) it holds the number of an attempt row.
CallPoints == {"call", "attempt", "insert", "inserted", "marked", "sent", "review", "error"}
HasRow     == {"inserted", "marked", "sent"}

WorkerTyped(w, v) ==
  /\ v.pc \in CallPoints => v.at \in Steps
  /\ v.pc \in {"attempt", "insert"} => v.left > 0
  /\ v.pc \in HasRow => v.number \in 1..Len(ledger[v.at])
Typed == TypeOK /\ \A w \in Workers : WorkerTyped(w, wk[w])
-------------------------------------------------------------------------------
\* A session that begins is a session, and idle.
LEMMA BlankType == Blank \in Session /\ Blank.pc = "idle"
BY StepAssumption, PlanAssumption
   DEF Blank, Session, PlannedRow, Steps, Points, RunStatus, StepRow, StepStatus, Receipt

\* So is one that has just saved its step.
LEMMA AtType ==
  ASSUME NEW v \in Session, NEW w, wk[w] = v, NEW point \in Points, NEW n \in 1..(NSteps + 1),
         NEW seen \in [Steps -> StepRow]
  PROVE  /\ At(w, point, n, seen) \in Session
         /\ At(w, point, n, seen).pc = point /\ At(w, point, n, seen).at = n
BY BlankType DEF At, Session, Blank

\* Merging rows gives a row.
LEMMA MergeType ==
  ASSUME NEW stored \in StepRow, NEW loaded, NEW new \in StepRow
  PROVE  Merge(stored, loaded, new) \in StepRow
BY DEF Merge, StepRow

\* A transition the supervisor allows stores a status.
LEMMA StoredStatus ==
  ASSUME NEW stored \in RunStatus, NEW loaded, NEW target \in RunStatus
  PROVE  StoreStatus(stored, loaded, target) \in RunStatus
BY DEF StoreStatus

\* A session that becomes another one of the right shape keeps Typed's part
\* about workers as long as no ledger loses a row.
LEMMA Becoming ==
  ASSUME Typed, NEW w \in Workers, NEW v \in Session, Become(w, v),
         v.pc \in CallPoints => v.at \in Steps,
         v.pc \in {"attempt", "insert"} => v.left > 0,
         v.pc \in HasRow => v.number \in 1..Len(ledger'[v.at]),
         ledger' \in [Steps -> Seq(Attempt)],
         \A s \in Steps : Len(ledger[s]) <= Len(ledger'[s])
  PROVE  /\ wk' \in [Workers -> Session]
         /\ \A u \in Workers : WorkerTyped(u, wk[u])'
<1>1. wk' \in [Workers -> Session]
  BY DEF Typed, TypeOK, Become
<1>2. ASSUME NEW u \in Workers PROVE WorkerTyped(u, wk[u])'
  <2>1. CASE u = w
    <3>1. wk'[u] = v
      BY <2>1 DEF Become, Typed, TypeOK
    <3>. QED BY <3>1 DEF WorkerTyped
  <2>2. CASE u # w
    <3>1. wk'[u] = wk[u] /\ wk[u] \in Session
      BY <2>2 DEF Become, Typed, TypeOK
    <3>2. wk[u].pc \in HasRow => wk[u].at \in Steps
      BY DEF Typed, WorkerTyped, HasRow, CallPoints
    <3>3. wk[u].pc \in HasRow => wk[u].number \in 1..Len(ledger'[wk[u].at])
      BY <3>2, LenProperties DEF Typed, TypeOK, WorkerTyped
    <3>. QED BY <3>1, <3>3 DEF Typed, WorkerTyped
  <2>. QED BY <2>1, <2>2
<1>. QED BY <1>1, <1>2
-------------------------------------------------------------------------------
\* What the commits of a worker do to the rows and to its session

Sessions == wk \in [Workers -> Session] /\ \A u \in Workers : WorkerTyped(u, wk[u])

\* The typing of everything but the sessions.
Stored ==
  /\ status \in RunStatus /\ cancelReq \in BOOLEAN
  /\ step \in [Steps -> StepRow] /\ approval \in [Writes -> ApprovalRow]
  /\ ledger \in [Steps -> Seq(Attempt)] /\ aside \in [Steps -> SUBSET Nat]
  /\ holder \in Workers \cup {NoWorker}
  /\ req \in [Clients -> Request \cup {NoRequest}]
  /\ authorised \in [Steps -> SUBSET Actions] /\ sent \in [Steps -> SUBSET Actions]
  /\ calls \in [Steps -> Nat] /\ late \in Nat

\* Typed is the typing of the stored rows and of the sessions.
LEMMA Split == (Typed <=> Stored /\ Sessions) /\ (Typed' <=> Stored' /\ Sessions')
BY DEF Typed, TypeOK, Stored, Sessions

\* A worker at a step of the plan holds a row of it.
LEMMA RowType ==
  ASSUME Typed, NEW w \in Workers
  PROVE  /\ wk[w] \in Session /\ wk[w].status \in RunStatus /\ wk[w].cancel \in BOOLEAN
         /\ wk[w].steps \in [Steps -> StepRow] /\ wk[w].arg \in Actions
         /\ wk[w].at \in Steps => Row(w) \in StepRow
BY DEF Typed, TypeOK, Session, Row

\* A step that leaves the ledger alone takes no attempt row away.
LEMMA SameLedger ==
  ASSUME Typed, UNCHANGED ledger
  PROVE  ledger' \in [Steps -> Seq(Attempt)] /\ \A s \in Steps : Len(ledger[s]) <= Len(ledger'[s])
BY LenProperties DEF Typed, TypeOK

Plain == Points \ {"attempt", "insert", "inserted", "marked", "sent"}

\* Saving a step keeps rows and sessions typed.
LEMMA SaveStepTyped ==
  ASSUME Typed, NEW w \in Workers, wk[w].at \in Steps, NEW row \in StepRow, NEW point \in Plain,
         SaveStep(w, row, point), UNCHANGED ledger
  PROVE  step' \in [Steps -> StepRow] /\ Sessions'
<1>. DEFINE s == wk[w].at
            seen == [wk[w].steps EXCEPT ![s] = row]
            v == At(w, point, s, seen)
<1>1. seen \in [Steps -> StepRow]
  BY RowType
<1>2. v \in Session /\ v.pc = point /\ v.at = s
  BY <1>1, AtType, RowType, StepAssumption DEF Steps, Plain
<1>3. Become(w, v)
  BY DEF SaveStep
<1>4. Sessions'
  BY <1>2, <1>3, SameLedger, Becoming DEF Plain, HasRow, Sessions
<1>5. step' \in [Steps -> StepRow]
  BY MergeType DEF SaveStep, Typed, TypeOK
<1>. QED BY <1>4, <1>5

\* So does saving it and moving on.
LEMMA SaveAndAdvanceTyped ==
  ASSUME Typed, NEW w \in Workers, wk[w].at \in Steps, NEW row \in StepRow,
         SaveAndAdvance(w, row), UNCHANGED ledger
  PROVE  step' \in [Steps -> StepRow] /\ Sessions'
<1>. DEFINE s == wk[w].at
            seen == [wk[w].steps EXCEPT ![s] = row]
            v == At(w, "steps", s + 1, seen)
<1>1. seen \in [Steps -> StepRow]
  BY RowType
<1>2. s + 1 \in 1..(NSteps + 1) /\ "steps" \in Points
  BY StepAssumption DEF Steps, Points
<1>3. v \in Session /\ v.pc = "steps"
  BY <1>1, <1>2, AtType, RowType
<1>4. Become(w, v)
  BY DEF SaveAndAdvance
<1>5. Sessions'
  BY <1>3, <1>4, SameLedger, Becoming DEF HasRow, Sessions, CallPoints
<1>6. step' \in [Steps -> StepRow]
  BY MergeType DEF SaveAndAdvance, Typed, TypeOK
<1>. QED BY <1>5, <1>6

\* A session that starts again outside the plan is typed.
LEMMA IdleTyped ==
  ASSUME Typed, NEW w \in Workers, UNCHANGED ledger,
         NEW point \in {"idle", "recover"}, Become(w, [Blank EXCEPT !.pc = point])
  PROVE  Sessions'
<1>. DEFINE v == [Blank EXCEPT !.pc = point]
<1>1. v \in Session /\ v.pc = point
  BY BlankType DEF Session, Points
<1>. QED BY <1>1, SameLedger, Becoming DEF HasRow, CallPoints, Sessions

\* Giving the lock back keeps the lock and the sessions typed.
LEMMA ReleaseTyped ==
  ASSUME Typed, NEW w \in Workers, UNCHANGED ledger, Release(w)
  PROVE  Sessions' /\ holder' \in Workers \cup {NoWorker}
<1>1. Blank = [Blank EXCEPT !.pc = "idle"]
  BY DEF Blank
<1>. QED BY <1>1, IdleTyped DEF Release, Typed, TypeOK

\* Parking the run keeps its status and the sessions typed.
LEMMA ParkTyped ==
  ASSUME Typed, NEW w \in Workers, NEW target \in RunStatus, UNCHANGED ledger, Park(w, target)
  PROVE  status' \in RunStatus /\ Sessions'
BY IdleTyped, StoredStatus DEF Park, Typed, TypeOK

\* So does parking it together with the step at hand.
LEMMA SaveAndParkTyped ==
  ASSUME Typed, NEW w \in Workers, wk[w].at \in Steps, NEW row \in StepRow,
         NEW target \in RunStatus, UNCHANGED ledger, SaveAndPark(w, row, target)
  PROVE  status' \in RunStatus /\ Sessions' /\ step' \in [Steps -> StepRow]
<1>1. step' \in [Steps -> StepRow]
  BY MergeType DEF SaveAndPark, Typed, TypeOK
<1>. QED BY <1>1, ParkTyped DEF SaveAndPark
-------------------------------------------------------------------------------
\* Typing: every action

\* The approved plan is typed.
LEMMA InitTyped == Init => Typed
<1>. SUFFICES ASSUME Init PROVE Typed
  OBVIOUS
<1>1. step \in [Steps -> StepRow] /\ approval \in [Writes -> ApprovalRow]
  BY PlanAssumption DEF Init, PlannedRow, StepRow, StepStatus, Receipt, ApprovalRow
<1>2. ledger \in [Steps -> Seq(Attempt)]
  BY DEF Init
<1>3. Stored
  BY <1>1, <1>2 DEF Init, Stored, RunStatus
<1>4. Sessions
  BY BlankType DEF Init, Sessions, WorkerTyped, CallPoints, HasRow
<1>. QED BY <1>3, <1>4, Split

\* Taking the run keeps Typed.
LEMMA BeginTyped ==
  ASSUME Typed, NEW w \in Workers, Begin(w) PROVE Typed'
<1>. DEFINE v == [Blank EXCEPT !.pc = "loaded", !.status = status, !.cancel = cancelReq,
                              !.steps = step]
<1>1. v \in Session /\ v.pc = "loaded"
  BY BlankType DEF Session, Points, Typed, TypeOK
<1>2. Sessions'
  BY <1>1, SameLedger, Becoming DEF Begin, ledgers, HasRow, CallPoints, Sessions
<1>. QED BY <1>2, Split DEF Stored, Begin, rows, ledgers, history

\* Starting the run keeps Typed.
LEMMA StartRunTyped ==
  ASSUME Typed, NEW w \in Workers, StartRun(w) PROVE Typed'
<1>. DEFINE v == [wk[w] EXCEPT !.status = "running", !.pc = "steps"]
<1>1. v \in Session /\ v.pc = "steps"
  BY RowType DEF Session, Points, RunStatus
<1>2. Sessions'
  BY <1>1, SameLedger, Becoming DEF StartRun, ledgers, HasRow, CallPoints, Sessions
<1>3. status' \in RunStatus
  BY StoredStatus DEF StartRun, Typed, TypeOK, RunStatus
<1>. QED BY <1>2, <1>3, Split DEF Stored, StartRun, ledgers, history

\* Parking the run with no step at hand keeps Typed.
LEMMA EndingTyped ==
  ASSUME Typed, NEW w \in Workers,
         \/ ObserveCancellation(w) \/ FailPreflight(w) \/ SupervisorPauses(w)
         \/ FailIncomplete(w) \/ FinishRun(w)
  PROVE  Typed'
<1>1. PICK target \in RunStatus : Park(w, target)
  BY DEF ObserveCancellation, FailPreflight, SupervisorPauses, FailIncomplete, FinishRun, RunStatus
<1>2. UNCHANGED <<cancelReq, step, approval, ledgers, holder, req, history>>
  BY DEF ObserveCancellation, FailPreflight, SupervisorPauses, FailIncomplete, FinishRun
<1>. QED BY <1>1, <1>2, ParkTyped, Split DEF ledgers, history, Stored

\* Settling or skipping a step keeps Typed.
LEMMA WalkTyped ==
  ASSUME Typed, NEW w \in Workers,
         SettleRecorded(w) \/ SkipStep(w)
  PROVE  Typed'
<1>1. CASE SettleRecorded(w)
  <2>1. [Row(w) EXCEPT !.status = "completed"] \in StepRow /\ wk[w].at \in Steps
    BY <1>1, RowType DEF SettleRecorded, AtStep, StepRow, StepStatus
  <2>. QED BY <1>1, <2>1, SaveAndAdvanceTyped, Split DEF SettleRecorded, ledgers, history, Stored
<1>2. CASE SkipStep(w)
  <2>1. [Row(w) EXCEPT !.status = "skipped"] \in StepRow /\ wk[w].at \in Steps
    BY <1>2, RowType DEF SkipStep, Open, AtStep, StepRow, StepStatus
  <2>. QED BY <1>2, <2>1, SaveAndAdvanceTyped, Split DEF SkipStep, ledgers, history, Stored
<1>. QED BY <1>1, <1>2

\* A stored approval is an approval row.
LEMMA StoreApprovalTyped ==
  ASSUME Typed, NEW s \in Writes, NEW loaded, NEW target \in {"pending", "approved"},
         NEW ready \in BOOLEAN, NEW a \in Actions, StoreApproval(s, loaded, target, ready, a)
  PROVE  approval' \in [Writes -> ApprovalRow]
BY DEF StoreApproval, Typed, TypeOK, ApprovalRow

\* Once loaded, the approval of a session is a row.
LEMMA LoadedApproval ==
  ASSUME Typed, NEW w \in Workers, wk[w].approval # Unread
  PROVE  wk[w].approval \in ApprovalRow
BY DEF Typed, TypeOK, Session

\* Stopping the walk at a step keeps Typed.
LEMMA StopTyped ==
  ASSUME Typed, NEW w \in Workers, ParkUnresolved(w) \/ ParkUngoverned(w) PROVE Typed'
<1>1. wk[w].at \in Steps /\ Row(w) \in StepRow
  BY RowType DEF ParkUnresolved, ParkUngoverned, Startable, Open, AtStep
<1>2. PICK target \in {"waiting_for_action", "blocked"}, outcome \in StepStatus :
        SaveAndPark(w, [Row(w) EXCEPT !.status = outcome], target)
  BY <1>1 DEF ParkUnresolved, ParkUngoverned, StepStatus, StepRow
<1>3. UNCHANGED <<cancelReq, approval, ledgers, holder, req, history>>
  BY DEF ParkUnresolved, ParkUngoverned
<1>4. [Row(w) EXCEPT !.status = outcome] \in StepRow /\ target \in RunStatus
  BY <1>1 DEF StepRow, RunStatus
<1>5. status' \in RunStatus /\ Sessions' /\ step' \in [Steps -> StepRow]
  BY <1>1, <1>2, <1>3, <1>4, SaveAndParkTyped DEF ledgers
<1>. QED BY <1>3, <1>5, Split DEF ledgers, history, Stored

\* Stopping it while an action is prepared, with its approval, keeps Typed.
LEMMA ParkUnpreparedTyped ==
  ASSUME Typed, NEW w \in Workers, ParkUnprepared(w) PROVE Typed'
<1>1. wk[w].at \in Steps /\ Row(w) \in StepRow
  BY RowType DEF ParkUnprepared, NeedsApproval, Open, AtStep
<1>2. approval' \in [Writes -> ApprovalRow]
  <2>1. CASE AsksAnew(w)
    BY <2>1, LoadedApproval, StoreApprovalTyped
       DEF ParkUnprepared, AsksAnew, NeedsApproval, ApprovalRow
  <2>2. CASE ~AsksAnew(w)
    BY <2>2 DEF ParkUnprepared, Typed, TypeOK
  <2>. QED BY <2>1, <2>2
<1>3. PICK outcome \in StepStatus :
        SaveAndPark(w, [Row(w) EXCEPT !.status = outcome], "waiting_for_action")
  BY DEF ParkUnprepared, StepStatus
<1>4. [Row(w) EXCEPT !.status = outcome] \in StepRow /\ "waiting_for_action" \in RunStatus
  BY <1>1 DEF StepRow, RunStatus
<1>5. status' \in RunStatus /\ Sessions' /\ step' \in [Steps -> StepRow]
  BY <1>1, <1>3, <1>4, SaveAndParkTyped DEF ParkUnprepared, ledgers
<1>. QED BY <1>2, <1>5, Split DEF ParkUnprepared, ledgers, history, Stored

\* Loading, proposing or missing an approval keeps Typed.
LEMMA ReviewTyped ==
  ASSUME Typed, NEW w \in Workers, LoadApproval(w) \/ ProposeAction(w) \/ ApprovalMissing(w)
  PROVE  Typed'
<1>1. wk[w].at \in Steps /\ wk[w].at \in Writes /\ Row(w) \in StepRow /\ Point(w) = "steps"
  BY RowType DEF LoadApproval, ProposeAction, ApprovalMissing, NeedsApproval, Open, AtStep
<1>2. CASE LoadApproval(w)
  <2>. DEFINE v == [wk[w] EXCEPT !.approval = approval[wk[w].at], !.arg = Row(w).args]
  <2>1. v \in Session /\ v.pc = "steps"
    BY <1>1, RowType DEF Session, Typed, TypeOK, StepRow, Point
  <2>2. Sessions'
    BY <1>2, <2>1, SameLedger, Becoming
       DEF LoadApproval, ledgers, HasRow, CallPoints, Sessions
  <2>. QED BY <1>2, <2>2, Split DEF Stored, LoadApproval, rows, ledgers, history
<1>3. CASE ProposeAction(w)
  <2>1. [Row(w) EXCEPT !.status = "awaiting_approval"] \in StepRow
    BY <1>1 DEF StepRow, StepStatus
  <2>2. status' \in RunStatus /\ Sessions' /\ step' \in [Steps -> StepRow]
    BY <1>1, <1>3, <2>1, SaveAndParkTyped DEF ProposeAction, ledgers, RunStatus
  <2>3. approval' \in [Writes -> ApprovalRow]
    BY <1>1, <1>3, StoreApprovalTyped DEF ProposeAction
  <2>. QED BY <1>3, <2>2, <2>3, Split DEF Stored, ProposeAction, ledgers, history
<1>4. CASE ApprovalMissing(w)
  <2>1. [Row(w) EXCEPT !.status = "failed"] \in StepRow
    BY <1>1 DEF StepRow, StepStatus
  <2>2. status' \in RunStatus /\ Sessions' /\ step' \in [Steps -> StepRow]
    BY <1>1, <1>4, <2>1, SaveAndParkTyped DEF ApprovalMissing, ledgers, RunStatus
  <2>. QED BY <1>4, <2>2, Split DEF Stored, ApprovalMissing, ledgers, history
<1>. QED BY <1>2, <1>3, <1>4

\* Approval by the start of the plan keeps Typed.
LEMMA AuthorizeTyped ==
  ASSUME Typed, NEW w \in Workers, AuthorizeByStart(w) PROVE Typed'
<1>. DEFINE s == wk[w].at
<1>1. s \in Steps /\ s \in Writes /\ Row(w) \in StepRow /\ Point(w) = "steps"
  BY RowType DEF AuthorizeByStart, NeedsApproval, Open, AtStep
<1>2. PICK a \in Actions :
        /\ StoreApproval(s, wk[w].approval, "approved", TRUE, a)
        /\ authorised' = [authorised EXCEPT ![s] = @ \cup {a}]
        /\ step' = [step EXCEPT ![s] = Merge(@, Row(w), [Row(w) EXCEPT !.status = "pending"])]
        /\ Become(w, [wk[w] EXCEPT !.steps[s].status = "pending", !.arg = a,
                         !.approval = [status |-> "approved", ready |-> TRUE, args |-> a]])
  BY DEF AuthorizeByStart
<1>3. [Row(w) EXCEPT !.status = "pending"] \in StepRow
  BY <1>1 DEF StepRow, StepStatus
<1>4. approval' \in [Writes -> ApprovalRow] /\ authorised' \in [Steps -> SUBSET Actions]
      /\ step' \in [Steps -> StepRow]
  BY <1>1, <1>2, <1>3, StoreApprovalTyped, MergeType DEF Typed, TypeOK
<1>5. Sessions'
  <2>. DEFINE ar == [status |-> "approved", ready |-> TRUE, args |-> a]
              sr == [wk[w].steps EXCEPT ![s].status = "pending"]
              v == [wk[w] EXCEPT !.steps[s].status = "pending", !.arg = a, !.approval = ar]
  <2>1. ar \in ApprovalRow
    BY DEF ApprovalRow
  <2>2. sr \in [Steps -> StepRow]
    BY <1>1, RowType DEF StepRow, StepStatus
  <2>3. v = [wk[w] EXCEPT !.steps = sr, !.arg = a, !.approval = ar]
    BY RowType DEF Session
  <2>4. v \in Session /\ v.pc = "steps"
    <3>. HIDE DEF sr, ar
    <3>. QED BY <1>1, <2>1, <2>2, <2>3, RowType DEF Session, Point
  <2>5. UNCHANGED ledger /\ Become(w, v)
    BY <1>2 DEF AuthorizeByStart, ledgers
  <2>. HIDE DEF v
  <2>. QED BY <2>4, <2>5, SameLedger, Becoming DEF HasRow, CallPoints, Sessions
<1>. QED BY <1>4, <1>5, Split DEF Stored, AuthorizeByStart, ledgers

\* Starting a step keeps Typed.
LEMMA StartStepTyped ==
  ASSUME Typed, NEW w \in Workers, StartStep(w) PROVE Typed'
<1>. DEFINE s == wk[w].at
            row == [Row(w) EXCEPT !.status = "running"]
            seen == [wk[w].steps EXCEPT ![s] = row]
            a == IF wk[w].approval = Unread THEN row.args ELSE wk[w].arg
            v == [wk[w] EXCEPT !.pc = "call", !.steps[s] = row, !.arg = a]
<1>1. s \in Steps /\ Row(w) \in StepRow
  BY RowType DEF StartStep, Startable, Open, AtStep
<1>2. row \in StepRow
  BY <1>1 DEF StepRow, StepStatus
<1>3. step' \in [Steps -> StepRow]
  <2>. HIDE DEF row
  <2>1. step' = [step EXCEPT ![s] = Merge(@, Row(w), row)]
    BY DEF StartStep, Startable, row
  <2>. QED BY <1>1, <1>2, <2>1, MergeType DEF Typed, TypeOK
<1>4. seen \in [Steps -> StepRow] /\ a \in Actions
  BY <1>2, RowType DEF StepRow
<1>5. v = [wk[w] EXCEPT !.pc = "call", !.steps = seen, !.arg = a]
  BY RowType DEF Session
<1>6. v \in Session /\ v.pc = "call" /\ v.at = s
  <2>. HIDE DEF seen, a
  <2>. QED BY <1>1, <1>4, <1>5, RowType DEF Session, Points
<1>7. UNCHANGED ledger /\ Become(w, v)
  BY DEF StartStep, Startable, ledgers
<1>8. Sessions'
  <2>. HIDE DEF v
  <2>. QED BY <1>1, <1>6, <1>7, SameLedger, Becoming DEF HasRow, Sessions
<1>. QED BY <1>3, <1>8, Split DEF Stored, StartStep, ledgers, history

\* The ledger of a step counts a natural number of spent attempts.
LEMMA SpentNatural ==
  ASSUME Typed, NEW s \in Steps
  PROVE  /\ Spent(s) \in Nat /\ Len(ledger[s]) \in Nat
         /\ CurrentCycle(s) = {} => Spent(s) = 0
<1>1. Len(ledger[s]) \in Nat
  BY LenProperties DEF Typed, TypeOK
<1>2. IsFiniteSet(1..Len(ledger[s]))
  BY <1>1, FS_Interval
<1>3. CurrentCycle(s) \subseteq 1..Len(ledger[s])
  BY DEF CurrentCycle, Dispatched
<1>4. IsFiniteSet(CurrentCycle(s))
  BY <1>2, <1>3, FS_Subset
<1>. QED BY <1>1, <1>4, FS_CardinalityType, FS_EmptySet DEF Spent

\* Admitting a call keeps Typed: there is an attempt left.
LEMMA AdmitTyped ==
  ASSUME Typed, NEW w \in Workers, AdmitCall(w) PROVE Typed'
<1>. DEFINE s == wk[w].at
            v == [wk[w] EXCEPT !.pc = "attempt", !.left = Budget(s) - Spent(s),
                               !.number = Len(ledger[s]) + 1]
<1>1. s \in Steps
  BY DEF AdmitCall, Point, CallPoints, Typed, WorkerTyped
<1>2. Budget(s) - Spent(s) \in Nat /\ Budget(s) - Spent(s) > 0 /\ Len(ledger[s]) + 1 \in Nat
  BY <1>1, SpentNatural, StepAssumption DEF AdmitCall, Budget
<1>3. v \in Session /\ v.pc = "attempt" /\ v.at = s /\ v.left > 0
  BY <1>2, RowType DEF Session, Points
<1>4. Sessions'
  BY <1>1, <1>3, SameLedger, Becoming DEF AdmitCall, ledgers, HasRow, Sessions
<1>. QED BY <1>4, Split DEF Stored, AdmitCall, rows, ledgers, history

\* A worker in a call that keeps the place of its attempt.
LEMMA MoveTyped ==
  ASSUME Typed, NEW w \in Workers, Point(w) \in CallPoints, UNCHANGED ledger,
         NEW point \in CallPoints, NEW c \in BOOLEAN,
         Become(w, [wk[w] EXCEPT !.cancel = c, !.pc = point]),
         point \in {"attempt", "insert"} => wk[w].left > 0,
         point \in HasRow => Point(w) \in HasRow
  PROVE  Sessions'
<1>. DEFINE v == [wk[w] EXCEPT !.cancel = c, !.pc = point]
<1>1. /\ v \in Session /\ v.pc = point /\ v.at = wk[w].at /\ v.left = wk[w].left
      /\ v.number = wk[w].number
  BY RowType DEF Session, CallPoints, Points
<1>2. wk[w].at \in Steps
  BY DEF Point, Typed, WorkerTyped
<1>3. point \in HasRow => wk[w].number \in 1..Len(ledger'[wk[w].at])
  BY DEF Point, Typed, WorkerTyped
<1>. HIDE DEF v
<1>4. Become(w, v)
  BY DEF v
<1>. QED BY <1>1, <1>2, <1>3, <1>4, SameLedger, Becoming DEF Sessions

\* A session that only moves stays typed.
LEMMA GotoTyped ==
  ASSUME Typed, NEW w \in Workers, Point(w) \in CallPoints, UNCHANGED ledger,
         NEW point \in CallPoints \ {"attempt", "insert"}, Goto(w, point),
         point \in HasRow => Point(w) \in HasRow
  PROVE  Sessions'
<1>1. [wk[w] EXCEPT !.pc = point] = [wk[w] EXCEPT !.cancel = wk[w].cancel, !.pc = point]
  BY RowType DEF Session
<1>2. Become(w, [wk[w] EXCEPT !.cancel = wk[w].cancel, !.pc = point])
  BY <1>1 DEF Goto
<1>. QED BY <1>2, RowType, MoveTyped

\* Refusing a call keeps Typed.
LEMMA RefuseTyped ==
  ASSUME Typed, NEW w \in Workers, RefuseCall(w) PROVE Typed'
<1>1. Sessions'
  BY GotoTyped DEF RefuseCall, CallPoints, HasRow, ledgers
<1>. QED BY <1>1, Split DEF Stored, RefuseCall, rows, ledgers, history

\* Reading the cancellation flag again keeps Typed.
LEMMA RefreshTyped ==
  ASSUME Typed, NEW w \in Workers, RefreshCancellation(w) PROVE Typed'
<1>. DEFINE point == IF cancelReq THEN "error" ELSE "insert"
<1>1. wk[w].left > 0
  BY DEF RefreshCancellation, Point, Typed, WorkerTyped
<1>2. cancelReq \in BOOLEAN /\ UNCHANGED ledger /\ point \in CallPoints /\ point \notin HasRow
      /\ Point(w) \in CallPoints
  BY DEF RefreshCancellation, ledgers, Typed, TypeOK, CallPoints, HasRow
<1>3. Become(w, [wk[w] EXCEPT !.cancel = cancelReq, !.pc = point])
  BY DEF RefreshCancellation
<1>4. Sessions'
  <2>. HIDE DEF point
  <2>. QED BY <1>1, <1>2, <1>3, MoveTyped
<1>. QED BY <1>4, Split DEF Stored, RefreshCancellation, rows, ledgers, history

\* Inserting an attempt keeps Typed.
LEMMA InsertTyped ==
  ASSUME Typed, NEW w \in Workers, InsertAttempt(w) PROVE Typed'
<1>. DEFINE s == wk[w].at
            row == [dispatched |-> FALSE, error |-> "none"]
            left == wk[w].left - 1
            v == [wk[w] EXCEPT !.pc = "inserted", !.left = left]
<1>1. s \in Steps /\ wk[w].left > 0 /\ wk[w].left \in Nat
  BY DEF InsertAttempt, Point, CallPoints, Typed, TypeOK, WorkerTyped, Session
<1>2. row \in Attempt /\ ledger[s] \in Seq(Attempt)
  BY <1>1 DEF Attempt, Error, Typed, TypeOK
<1>3. /\ Append(ledger[s], row) \in Seq(Attempt)
      /\ Len(Append(ledger[s], row)) = Len(ledger[s]) + 1
      /\ Len(ledger[s]) \in Nat
  BY <1>2, AppendProperties, LenProperties
<1>4. ledger' = [ledger EXCEPT ![s] = Append(@, row)]
  BY DEF InsertAttempt
<1>. HIDE DEF row
<1>5. /\ ledger' \in [Steps -> Seq(Attempt)] /\ Len(ledger'[s]) = Len(ledger[s]) + 1
      /\ \A r \in Steps : Len(ledger[r]) <= Len(ledger'[r])
  BY <1>1, <1>3, <1>4, LenProperties DEF Typed, TypeOK
<1>6. /\ v \in Session /\ v.pc = "inserted" /\ v.at = s
      /\ v.number = Len(ledger[s]) + 1
  <2>1. left \in Nat /\ wk[w].number = Len(ledger[s]) + 1
    BY <1>1 DEF InsertAttempt
  <2>. HIDE DEF left
  <2>. QED BY <2>1, RowType DEF Session, Points
<1>7. Become(w, v)
  BY DEF InsertAttempt
<1>8. Sessions'
  <2>. HIDE DEF v
  <2>1. v.number \in 1..Len(ledger'[v.at])
    BY <1>3, <1>5, <1>6
  <2>. QED BY <1>1, <1>5, <1>6, <1>7, <2>1, Becoming DEF Sessions
<1>. QED BY <1>5, <1>8, Split DEF Stored, InsertAttempt, rows, history

\* An attempt whose mark or error is set is an attempt.
LEMMA AttemptUpdate ==
  ASSUME NEW old \in Attempt, NEW e \in Error
  PROVE  [old EXCEPT !.dispatched = TRUE] \in Attempt /\ [old EXCEPT !.error = e] \in Attempt
BY DEF Attempt

\* Updating one row of one ledger changes no length.
LEMMA UpdateRow ==
  ASSUME Typed, NEW s \in Steps, NEW n \in 1..Len(ledger[s]), NEW row \in Attempt,
         ledger' = [ledger EXCEPT ![s] = [@ EXCEPT ![n] = row]]
  PROVE  /\ ledger' \in [Steps -> Seq(Attempt)]
         /\ \A r \in Steps : Len(ledger'[r]) = Len(ledger[r]) /\ Len(ledger[r]) \in Nat
<1>1. ledger[s] \in Seq(Attempt)
  BY DEF Typed, TypeOK
<1>2. [ledger[s] EXCEPT ![n] = row] \in Seq(Attempt)
      /\ Len([ledger[s] EXCEPT ![n] = row]) = Len(ledger[s])
  BY <1>1, ExceptSeq
<1>. QED BY <1>1, <1>2, LenProperties DEF Typed, TypeOK

\* Marking an attempt dispatched keeps Typed.
LEMMA MarkTyped ==
  ASSUME Typed, NEW w \in Workers, MarkDispatched(w) PROVE Typed'
<1>. DEFINE s == wk[w].at
            n == wk[w].number
            row == [ledger[s][n] EXCEPT !.dispatched = TRUE]
            v == [wk[w] EXCEPT !.pc = "marked"]
<1>1. s \in Steps /\ n \in 1..Len(ledger[s])
  BY DEF MarkDispatched, Point, CallPoints, HasRow, Typed, WorkerTyped
<1>2. ledger[s] \in Seq(Attempt)
  BY <1>1 DEF Typed, TypeOK
<1>3. row \in Attempt
  BY <1>1, <1>2, ElementOfSeq, AttemptUpdate DEF Error
<1>4. ledger' = [ledger EXCEPT ![s] = [@ EXCEPT ![n] = row]]
  BY <1>1 DEF MarkDispatched, Typed, TypeOK
<1>. HIDE DEF row
<1>5. /\ ledger' \in [Steps -> Seq(Attempt)]
      /\ \A r \in Steps : Len(ledger'[r]) = Len(ledger[r]) /\ Len(ledger[r]) \in Nat
  BY <1>1, <1>3, <1>4, UpdateRow
<1>6. v \in Session /\ v.pc = "marked" /\ v.at = s /\ v.number = n
  BY RowType DEF Session, Points
<1>7. Become(w, v)
  BY DEF MarkDispatched, Goto
<1>8. Sessions'
  <2>. HIDE DEF v
  <2>. QED BY <1>1, <1>5, <1>6, <1>7, Becoming DEF Sessions
<1>. QED BY <1>5, <1>8, Split DEF Stored, MarkDispatched, rows, history

\* A failed attempt keeps Typed.
LEMMA FailTyped ==
  ASSUME Typed, NEW w \in Workers, FailAttempt(w) PROVE Typed'
<1>. DEFINE s == wk[w].at
            n == wk[w].number
            next == n + 1
            retry == [wk[w] EXCEPT !.pc = "attempt", !.number = next]
            stop == At(w, "error", s, wk[w].steps)
<1>1. s \in Steps /\ n \in 1..Len(ledger[s]) /\ Len(ledger[s]) \in Nat
  BY LenProperties DEF FailAttempt, Point, CallPoints, HasRow, Typed, TypeOK, WorkerTyped
<1>2. ledger[s] \in Seq(Attempt)
  BY <1>1 DEF Typed, TypeOK
<1>3. PICK e \in {"final", "transient"}, again \in BOOLEAN :
        /\ again => e = "transient" /\ wk[w].left > 0
        /\ ledger' = [ledger EXCEPT ![s][n] = [@ EXCEPT !.error = e]]
        /\ Become(w, IF again THEN retry ELSE stop)
  BY DEF FailAttempt
<1>. DEFINE row == [ledger[s][n] EXCEPT !.error = e]
<1>4. row \in Attempt
  BY <1>1, <1>2, ElementOfSeq, AttemptUpdate DEF Error
<1>5. ledger' = [ledger EXCEPT ![s] = [@ EXCEPT ![n] = row]]
  BY <1>1, <1>3 DEF Typed, TypeOK
<1>. HIDE DEF row
<1>6. /\ ledger' \in [Steps -> Seq(Attempt)]
      /\ \A r \in Steps : Len(ledger'[r]) = Len(ledger[r]) /\ Len(ledger[r]) \in Nat
  BY <1>1, <1>4, <1>5, UpdateRow
<1>7. Sessions'
  <2>1. CASE again
    <3>1. retry \in Session /\ retry.pc = "attempt" /\ retry.at = s /\ retry.left > 0
      <4>1. next \in Nat /\ wk[w].left > 0
        BY <1>1, <1>3, <2>1
      <4>. HIDE DEF next
      <4>. QED BY <1>1, <4>1, RowType DEF Session, Points
    <3>2. Become(w, retry)
      BY <1>3, <2>1
    <3>. HIDE DEF retry
    <3>. QED BY <1>1, <1>6, <3>1, <3>2, Becoming DEF Sessions, HasRow
  <2>2. CASE ~again
    <3>1. stop \in Session /\ stop.pc = "error" /\ stop.at = s
      BY <1>1, AtType, RowType, StepAssumption DEF Steps, Points
    <3>2. Become(w, stop)
      BY <1>3, <2>2
    <3>. HIDE DEF stop
    <3>. QED BY <1>1, <1>6, <3>1, <3>2, Becoming DEF Sessions, HasRow
  <2>. QED BY <2>1, <2>2
<1>. QED BY <1>6, <1>7, Split DEF Stored, FailAttempt, rows, history

\* The provider call, its result, a read-back and giving up keep Typed.
LEMMA CallTyped ==
  ASSUME Typed, NEW w \in Workers,
         CallProvider(w) \/ CallSucceeds(w) \/ ReconcileWrite(w) \/ GiveUpCall(w)
  PROVE  Typed'
<1>. DEFINE s == wk[w].at
<1>1. s \in Steps /\ Row(w) \in StepRow
  BY RowType DEF CallProvider, CallSucceeds, ReconcileWrite, GiveUpCall, Point, CallPoints,
                 Typed, WorkerTyped
<1>2. CASE CallProvider(w)
  <2>1. Sessions'
    BY <1>2, GotoTyped DEF CallProvider, CallPoints, HasRow, ledgers
  <2>2. /\ calls' \in [Steps -> Nat] /\ sent' \in [Steps -> SUBSET Actions] /\ late' \in Nat
    BY <1>1, <1>2, RowType DEF CallProvider, Typed, TypeOK
  <2>. QED BY <1>2, <2>1, <2>2, Split DEF Stored, CallProvider, rows, ledgers
<1>3. CASE CallSucceeds(w) \/ ReconcileWrite(w)
  <2>1. [Row(w) EXCEPT !.receipt = "review"] \in StepRow /\ "review" \in Plain
    BY <1>1 DEF StepRow, Receipt, Plain, Points
  <2>2. step' \in [Steps -> StepRow] /\ Sessions'
    BY <1>1, <1>3, <2>1, SaveStepTyped DEF CallSucceeds, ReconcileWrite, ledgers
  <2>. QED BY <1>3, <2>2, Split DEF Stored, CallSucceeds, ReconcileWrite, ledgers, history
<1>4. CASE GiveUpCall(w)
  <2>. DEFINE target == IF wk[w].cancel THEN "cancelled" ELSE "waiting_for_action"
  <2>1. [Row(w) EXCEPT !.status = "failed"] \in StepRow /\ target \in RunStatus
    BY <1>1 DEF StepRow, StepStatus, RunStatus
  <2>2. UNCHANGED ledger /\ SaveAndPark(w, [Row(w) EXCEPT !.status = "failed"], target)
    BY <1>4 DEF GiveUpCall, ledgers
  <2>3. status' \in RunStatus /\ Sessions' /\ step' \in [Steps -> StepRow]
    <3>. HIDE DEF target
    <3>. QED BY <1>1, <2>1, <2>2, SaveAndParkTyped
  <2>. QED BY <1>4, <2>3, Split DEF Stored, GiveUpCall, ledgers, history
<1>. QED BY <1>2, <1>3, <1>4

\* Reviewing a recorded result keeps Typed.
LEMMA ResultTyped ==
  ASSUME Typed, NEW w \in Workers, AcceptResult(w) \/ DeferReview(w) \/ RejectResult(w)
  PROVE  Typed'
<1>1. wk[w].at \in Steps /\ Row(w) \in StepRow
  BY RowType DEF AcceptResult, DeferReview, RejectResult, Reviewing, AtStep, Point, CallPoints,
                 Typed, WorkerTyped
<1>2. CASE AcceptResult(w)
  <2>1. [Row(w) EXCEPT !.status = "completed", !.receipt = "accepted"] \in StepRow
    BY <1>1 DEF StepRow, StepStatus, Receipt
  <2>2. step' \in [Steps -> StepRow] /\ Sessions'
    BY <1>1, <1>2, <2>1, SaveAndAdvanceTyped DEF AcceptResult, ledgers
  <2>. QED BY <1>2, <2>2, Split DEF Stored, AcceptResult, ledgers, history
<1>3. CASE DeferReview(w)
  <2>1. PICK outcome \in StepStatus : SaveAndPark(w, [Row(w) EXCEPT !.status = outcome], "running")
    BY <1>1, <1>3 DEF DeferReview, StepStatus, StepRow
  <2>2. [Row(w) EXCEPT !.status = outcome] \in StepRow /\ "running" \in RunStatus
    BY <1>1 DEF StepRow, RunStatus
  <2>3. status' \in RunStatus /\ Sessions' /\ step' \in [Steps -> StepRow]
    BY <1>1, <1>3, <2>1, <2>2, SaveAndParkTyped DEF DeferReview, ledgers
  <2>. QED BY <1>3, <2>3, Split DEF Stored, DeferReview, ledgers, history
<1>4. CASE RejectResult(w)
  <2>1. PICK r \in Receipt : SaveAndPark(w, [Row(w) EXCEPT !.status = "failed", !.receipt = r],
                                         "waiting_for_action")
    BY <1>4 DEF RejectResult, Receipt
  <2>2. [Row(w) EXCEPT !.status = "failed", !.receipt = r] \in StepRow
        /\ "waiting_for_action" \in RunStatus
    BY <1>1 DEF StepRow, StepStatus, RunStatus
  <2>3. status' \in RunStatus /\ Sessions' /\ step' \in [Steps -> StepRow]
    BY <1>1, <1>4, <2>1, <2>2, SaveAndParkTyped DEF RejectResult, ledgers
  <2>. QED BY <1>4, <2>3, Split DEF Stored, RejectResult, ledgers, history
<1>. QED BY <1>2, <1>3, <1>4

\* The recovery that ends a delivery keeps Typed.
LEMMA RecoveryTyped ==
  ASSUME Typed, NEW w \in Workers, ReadRecovery(w) \/ ScheduleRecovery(w) \/ HandOff(w)
  PROVE  Typed'
<1>1. CASE ReadRecovery(w)
  <2>1. Sessions' /\ holder' \in Workers \cup {NoWorker}
    <3>1. CASE status \in {"failed", "waiting_for_action"}
      <4>. DEFINE v == [Blank EXCEPT !.pc = "recovering", !.status = status,
                                     !.cancel = cancelReq, !.steps = step]
      <4>1. v \in Session /\ v.pc = "recovering"
        BY BlankType DEF Session, Points, Typed, TypeOK
      <4>2. Become(w, v) /\ UNCHANGED ledger /\ UNCHANGED holder
        BY <1>1, <3>1 DEF ReadRecovery, ledgers
      <4>. QED BY <4>1, <4>2, SameLedger, Becoming
             DEF HasRow, CallPoints, Sessions, Typed, TypeOK
    <3>2. CASE status \notin {"failed", "waiting_for_action"}
      BY <1>1, <3>2, ReleaseTyped DEF ReadRecovery, ledgers
    <3>. QED BY <3>1, <3>2
  <2>. QED BY <1>1, <2>1, Split DEF Stored, ReadRecovery, rows, ledgers, history
<1>2. CASE ScheduleRecovery(w)
  <2>1. PICK s \in Steps, reset \in BOOLEAN :
          LET row == wk[w].steps[s] IN
          /\ step' = [step EXCEPT ![s] = Merge(@, row, [row EXCEPT !.status =
                IF Awaited(s, row) /\ ~KeepsReceiptOrReadsBack(s, row)
                THEN "awaiting_approval" ELSE "pending"])]
          /\ aside' = IF reset THEN [aside EXCEPT ![s] = Dispatched(s)] ELSE aside
    BY <1>2 DEF ScheduleRecovery
  <2>. DEFINE row == wk[w].steps[s]
              new == [row EXCEPT !.status =
                        IF Awaited(s, row) /\ ~KeepsReceiptOrReadsBack(s, row)
                        THEN "awaiting_approval" ELSE "pending"]
  <2>2. row \in StepRow
    BY RowType
  <2>3. new \in StepRow
    <3>. HIDE DEF row
    <3>. QED BY <2>2 DEF StepRow, StepStatus
  <2>4. step' = [step EXCEPT ![s] = Merge(@, row, new)]
    BY <2>1
  <2>5. step' \in [Steps -> StepRow]
    <3>. HIDE DEF row, new
    <3>. QED BY <2>2, <2>3, <2>4, MergeType DEF Typed, TypeOK
  <2>6. aside' \in [Steps -> SUBSET Nat]
    <3>1. Dispatched(s) \in SUBSET Nat
      BY LenProperties DEF Dispatched, Typed, TypeOK
    <3>. QED BY <2>1, <3>1 DEF Typed, TypeOK
  <2>7. status' \in RunStatus
    BY <1>2, StoredStatus DEF ScheduleRecovery, Typed, TypeOK, RunStatus
  <2>8. Sessions' /\ holder' \in Workers \cup {NoWorker}
    BY <1>2, ReleaseTyped DEF ScheduleRecovery
  <2>. QED BY <1>2, <2>5, <2>6, <2>7, <2>8, Split DEF Stored, ScheduleRecovery, history
<1>3. CASE HandOff(w)
  <2>1. status' \in RunStatus
    <3>1. PICK target \in {"waiting_for_action", wk[w].status} :
            status' = StoreStatus(status, wk[w].status, target)
      BY <1>3 DEF HandOff
    <3>2. wk[w].status \in RunStatus
      BY DEF Typed, TypeOK, Session
    <3>3. target \in RunStatus
      BY <3>1, <3>2 DEF RunStatus
    <3>. QED BY <3>1, <3>2, <3>3, StoredStatus DEF Typed, TypeOK
  <2>. QED BY <1>3, <2>1, ReleaseTyped, Split DEF Stored, HandOff, ledgers, history
<1>. QED BY <1>1, <1>2, <1>3

\* Crashes, a lost lock, a collision and the stale sweep keep Typed.
LEMMA EnvironmentTyped ==
  ASSUME Typed,
         \/ \E w \in Workers : Crash(w) \/ DropLock(w) \/ CollideAttempt(w)
         \/ RecoverStale
  PROVE  Typed'
<1>1. ASSUME NEW w \in Workers, Crash(w) \/ CollideAttempt(w) PROVE Typed'
  BY <1>1, ReleaseTyped, Split DEF Stored, Crash, CollideAttempt, rows, ledgers, history
<1>2. ASSUME NEW w \in Workers, DropLock(w) PROVE Typed'
  BY <1>2, Split DEF Stored, Sessions, WorkerTyped, DropLock, rows, ledgers, history
<1>3. ASSUME RecoverStale PROVE Typed'
  BY <1>3, Split DEF Stored, Sessions, WorkerTyped, RecoverStale, ledgers, history, RunStatus
<1>. QED BY <1>1, <1>2, <1>3

\* A request leaves ledgers, the lock and every session alone.
LEMMA RequestFrame ==
  ASSUME Typed, UNCHANGED <<ledger, wk>> PROVE Sessions'
BY Split DEF Sessions, WorkerTyped

\* A request that reads keeps Typed.
LEMMA LoadTyped ==
  ASSUME Typed, NEW c \in Clients, NEW request \in Request, Load(c, request) PROVE Typed'
<1>1. req' \in [Clients -> Request \cup {NoRequest}]
  BY DEF Load, Typed, TypeOK
<1>. QED BY <1>1, RequestFrame, Split DEF Stored, Load, rows, ledgers, history

\* A request that reads the run keeps Typed.
LEMMA LoadRunTyped ==
  ASSUME Typed, NEW c \in Clients, NEW k \in {"cancel", "abandon", "recheck"}, LoadRun(c, k)
  PROVE  Typed'
<1>1. [kind |-> k, status |-> status] \in Request
  BY DEF Request, Typed, TypeOK
<1>. QED BY <1>1, LoadTyped DEF LoadRun

\* A request that reads a step keeps Typed.
LEMMA LoadStepTyped ==
  ASSUME Typed, NEW c \in Clients, NEW k \in {"retry", "skip", "approve", "reject"},
         NEW s \in Steps, NEW a \in Actions, LoadStep(c, k, s, a)
  PROVE  Typed'
<1>. DEFINE seen == IF s \in Writes THEN approval[s] ELSE Unread
<1>1. seen \in ApprovalRow \cup {Unread} /\ step[s] \in StepRow /\ status \in RunStatus
  BY DEF Typed, TypeOK
<1>2. [kind |-> k, status |-> status, step |-> s, row |-> step[s], arg |-> a, approval |-> seen]
        \in Request
  <2>. HIDE DEF seen
  <2>. QED BY <1>1 DEF Request
<1>. QED BY <1>2, LoadTyped DEF LoadStep

\* Every request that reads keeps Typed.
LEMMA ReadTyped ==
  ASSUME Typed, NEW c \in Clients,
         \/ ReadCancel(c) \/ ReadAbandon(c) \/ ReadRetry(c) \/ ReadRecheck(c)
         \/ ReadSkip(c) \/ ReadDecision(c)
  PROVE  Typed'
<1>1. CASE ReadCancel(c) \/ ReadAbandon(c) \/ ReadRecheck(c)
  BY <1>1, LoadRunTyped DEF ReadCancel, ReadAbandon, ReadRecheck
<1>2. CASE ReadRetry(c)
  BY <1>2, LoadStepTyped, PlanAssumption DEF ReadRetry
<1>3. CASE ReadSkip(c)
  BY <1>3, LoadStepTyped, PlanAssumption DEF ReadSkip
<1>4. CASE ReadDecision(c)
  BY <1>4, LoadStepTyped, PlanAssumption DEF ReadDecision
<1>. QED BY <1>1, <1>2, <1>3, <1>4

\* What a request about a step has in its hands.
LEMMA AskedTyped ==
  ASSUME Typed, NEW c \in Clients
  PROVE  /\ \A k \in {"retry", "skip", "approve", "reject"} : Asked(c, k) =>
              /\ req[c].status \in RunStatus /\ req[c].step \in Steps
              /\ req[c].row \in StepRow /\ req[c].arg \in Actions
              /\ req[c].approval \in ApprovalRow \cup {Unread}
         /\ Done(c) => req' \in [Clients -> Request \cup {NoRequest}]
<1>1. req[c] \in Request \cup {NoRequest}
  BY DEF Typed, TypeOK
<1>2. ASSUME NEW k \in {"retry", "skip", "approve", "reject"}, Asked(c, k)
      PROVE  req[c] \in [kind : {"retry", "skip", "approve", "reject"}, status : RunStatus,
                         step : Steps, row : StepRow, arg : Actions,
                         approval : ApprovalRow \cup {Unread}]
  BY <1>1, <1>2 DEF Asked, Request
<1>3. Done(c) => req' \in [Clients -> Request \cup {NoRequest}]
  BY DEF Done, Typed, TypeOK
<1>. QED BY <1>2, <1>3

\* A request that writes the run alone keeps Typed.
LEMMA RunRequestTyped ==
  ASSUME Typed, NEW c \in Clients,
         WriteCancel(c) \/ WriteAbandon(c) \/ WriteRecheck(c) \/ RefuseDecision(c)
  PROVE  Typed'
<1>1. req' \in [Clients -> Request \cup {NoRequest}]
  BY AskedTyped DEF WriteCancel, WriteAbandon, WriteRecheck, RefuseDecision
<1>2. status' \in RunStatus
  <2>1. \/ status' = status
        \/ \E target \in {"cancelled", "recovering"} :
             status' = StoreStatus(status, req[c].status, target)
    BY DEF WriteCancel, WriteAbandon, WriteRecheck, RefuseDecision, rows
  <2>. QED BY <2>1, StoredStatus DEF RunStatus, Typed, TypeOK
<1>. QED BY <1>1, <1>2, RequestFrame, Split
     DEF Stored, WriteCancel, WriteAbandon, WriteRecheck, RefuseDecision, rows, ledgers, history

\* A request that retries or skips a step keeps Typed.
LEMMA StepRequestTyped ==
  ASSUME Typed, NEW c \in Clients, WriteRetry(c) \/ WriteSkip(c)
  PROVE  Typed'
<1>. DEFINE s == req[c].step
            row == req[c].row
            target == IF WriteSkip(c) THEN "skipped"
                      ELSE IF s \in Writes /\ req[c].approval.status = "pending"
                           THEN "awaiting_approval" ELSE "pending"
            new == [row EXCEPT !.status = target]
<1>1. s \in Steps /\ row \in StepRow /\ req' \in [Clients -> Request \cup {NoRequest}]
  BY AskedTyped DEF WriteRetry, WriteSkip
<1>2. new \in StepRow
  <2>1. target \in StepStatus
    BY DEF StepStatus
  <2>. HIDE DEF target, row
  <2>. QED BY <1>1, <2>1 DEF StepRow
<1>3. ~(WriteRetry(c) /\ WriteSkip(c))
  BY DEF WriteRetry, WriteSkip, Asked
<1>4. step' = [step EXCEPT ![s] = Merge(@, row, new)]
  BY <1>3 DEF WriteRetry, WriteSkip
<1>5. step' \in [Steps -> StepRow]
  <2>. HIDE DEF s, row, new
  <2>. QED BY <1>1, <1>2, <1>4, MergeType DEF Typed, TypeOK
<1>6. aside' \in [Steps -> SUBSET Nat]
  <2>1. Dispatched(s) \in SUBSET Nat
    BY <1>1, LenProperties DEF Dispatched, Typed, TypeOK
  <2>. QED BY <1>1, <2>1 DEF WriteRetry, WriteSkip, ledgers, Typed, TypeOK
<1>7. status' \in RunStatus
  BY StoredStatus DEF WriteRetry, WriteSkip, RunStatus, Typed, TypeOK
<1>. QED BY <1>1, <1>5, <1>6, <1>7, RequestFrame, Split
     DEF Stored, WriteRetry, WriteSkip, ledgers, history

\* A decision on an approval keeps Typed.
LEMMA DecisionTyped ==
  ASSUME Typed, NEW c \in Clients, WriteApproval(c) \/ WriteRejection(c)
  PROVE  Typed'
<1>. DEFINE s == req[c].step
            row == req[c].row
            a == req[c].arg
            new == IF WriteApproval(c) THEN [row EXCEPT !.status = "pending", !.args = a]
                   ELSE [row EXCEPT !.status = "skipped"]
<1>1. /\ s \in Steps /\ row \in StepRow /\ a \in Actions
      /\ req' \in [Clients -> Request \cup {NoRequest}]
  BY AskedTyped DEF WriteApproval, WriteRejection
<1>2. new \in StepRow
  <2>. HIDE DEF row, a
  <2>. QED BY <1>1 DEF StepRow, StepStatus
<1>3. ~(WriteApproval(c) /\ WriteRejection(c))
  BY DEF WriteApproval, WriteRejection, Asked
<1>4. step' = [step EXCEPT ![s] = Merge(@, row, new)]
  BY <1>3 DEF WriteApproval, WriteRejection
<1>5. step' \in [Steps -> StepRow]
  <2>. HIDE DEF s, row, new
  <2>. QED BY <1>1, <1>2, <1>4, MergeType DEF Typed, TypeOK
<1>6. approval' \in [Writes -> ApprovalRow]
  <2>1. ASSUME NEW z \in Writes
        PROVE  /\ [approval[z] EXCEPT !.status = "rejected"] \in ApprovalRow
               /\ approval[z].args \in Actions
    <3>1. approval[z] \in ApprovalRow
      BY DEF Typed, TypeOK
    <3>. QED BY <3>1 DEF ApprovalRow
  <2>2. CASE WriteApproval(c)
    <3>1. ASSUME NEW z \in Writes
          PROVE  [status |-> "approved", ready |-> TRUE,
                  args |-> IF a = row.args /\ a = req[c].approval.args
                           THEN approval[z].args ELSE a] \in ApprovalRow
      BY <1>1, <2>1 DEF ApprovalRow
    <3>. QED BY <2>2, <3>1 DEF WriteApproval, Typed, TypeOK
  <2>3. CASE WriteRejection(c)
    BY <2>1, <2>3 DEF WriteRejection, Typed, TypeOK
  <2>. QED BY <2>2, <2>3
<1>7. status' \in RunStatus
  BY StoredStatus DEF WriteApproval, WriteRejection, RunStatus, Typed, TypeOK
<1>8. authorised' \in [Steps -> SUBSET Actions]
  <2>1. authorised' = [authorised EXCEPT ![s] = @ \cup {a}] \/ authorised' = authorised
    BY DEF WriteApproval, WriteRejection, history
  <2>2. authorised \in [Steps -> SUBSET Actions] /\ authorised[s] \cup {a} \in SUBSET Actions
    BY <1>1 DEF Typed, TypeOK
  <2>. HIDE DEF s, a
  <2>. QED BY <1>1, <2>1, <2>2
<1>. QED BY <1>1, <1>5, <1>6, <1>7, <1>8, RequestFrame, Split
     DEF Stored, WriteApproval, WriteRejection, ledgers, history

\* Typed is inductive.
LEMMA StepTyped == Typed /\ [Next]_vars => Typed'
<1>. SUFFICES ASSUME Typed, [Next]_vars PROVE Typed'
  OBVIOUS
<1>1. ASSUME NEW w \in Workers, Work(w) PROVE Typed'
  BY <1>1, BeginTyped, StartRunTyped, EndingTyped, WalkTyped, StopTyped, ParkUnpreparedTyped,
     ReviewTyped, AuthorizeTyped, StartStepTyped, AdmitTyped, RefuseTyped, RefreshTyped,
     InsertTyped, MarkTyped, FailTyped, CallTyped, ResultTyped, RecoveryTyped, EnvironmentTyped
     DEF Work
<1>2. ASSUME NEW c \in Clients, Ask(c) PROVE Typed'
  BY <1>2, ReadTyped, RunRequestTyped, StepRequestTyped, DecisionTyped DEF Ask
<1>3. CASE RecoverStale
  BY <1>3, EnvironmentTyped
<1>4. CASE UNCHANGED vars
  BY <1>4, Split DEF vars, Stored, Sessions, WorkerTyped
<1>. QED BY <1>1, <1>2, <1>3, <1>4 DEF Next

\* Every variable keeps its type, whether or not the lock is reliable.
THEOREM Typing == Spec => []TypeOK
<1>1. Init => Typed
  BY InitTyped
<1>2. Typed /\ [Next]_vars => Typed'
  BY StepTyped
<1>3. Typed => TypeOK
  BY DEF Typed
<1>. QED BY <1>1, <1>2, <1>3, PTL DEF Spec
-------------------------------------------------------------------------------
\* The lock

\* A session is alive only under the lock.
Exclusive == \A w \in Workers : Point(w) # "idle" => holder = w

\* A called write shows in the ledger.
CalledAfterSpent == \A s \in Writes : calls[s] <= 1 /\ (calls[s] # 0 => Dispatched(s) # {})

\* A session in the call of a write has one attempt, and the only one.
FreshWrite(v) ==
  v.at \in Writes =>
    /\ v.pc \in {"attempt", "insert"} => v.left = 1
    /\ v.pc \in HasRow => v.left = 0
    /\ v.pc \in {"attempt", "insert", "inserted"} => Dispatched(v.at) = {}
    /\ v.pc = "marked" => calls[v.at] = 0 /\ Dispatched(v.at) # {}

\* After a late call no session is past its last look at the flag.
OneLate == /\ late <= 1
           /\ late = 1 => /\ cancelReq
                          /\ \A w \in Workers : Point(w) \notin {"insert", "inserted", "marked"}

Once == Exclusive /\ CalledAfterSpent /\ OneLate /\ \A w \in Workers : FreshWrite(wk[w])
-------------------------------------------------------------------------------
\* With a reliable lock: one session at a time, one call per write, one late
\* call per run

InCall == {"attempt", "insert", "inserted", "marked", "sent"}

\* The owner of the lock is the only worker that is not idle.
LEMMA Alone ==
  ASSUME Typed, Once, NEW w \in Workers,
         Point(w) # "idle" \/ holder = w \/ holder = NoWorker
  PROVE  \A u \in Workers : u # w => Point(u) = "idle"
BY ActorAssumption DEF Once, Exclusive

\* Late calls are counted zero or one, and zero while a call is being prepared.
LEMMA LateBits ==
  ASSUME Typed, Once
  PROVE  /\ late = 0 \/ late = 1
         /\ \A w \in Workers : Point(w) \in {"insert", "inserted", "marked"} => late = 0
BY DEF Once, OneLate, Typed, TypeOK

\* A step of the owner that stays out of the provider call.
LEMMA Quiet ==
  ASSUME Typed, Once, NEW w \in Workers, NEW v, Become(w, v), v.pc \notin InCall,
         UNCHANGED <<ledger, calls, late, cancelReq>>,
         Point(w) # "idle" \/ holder = w \/ holder = NoWorker,
         v.pc # "idle" => holder' = w
  PROVE  Once'
<1>1. /\ wk'[w] = v /\ \A u \in Workers : u # w => wk'[u] = wk[u] /\ wk[u].pc = "idle"
  BY Alone DEF Become, Typed, TypeOK, Point
<1>2. Exclusive'
  BY <1>1 DEF Exclusive, Point
<1>3. CalledAfterSpent'
  BY DEF Once, CalledAfterSpent, Dispatched
<1>4. OneLate'
  BY <1>1 DEF Once, OneLate, Point, InCall
<1>5. \A u \in Workers : FreshWrite(wk[u])'
  BY <1>1 DEF FreshWrite, InCall, HasRow
<1>. QED BY <1>2, <1>3, <1>4, <1>5 DEF Once

\* Where a session stands after saving its step.
LEMMA AtPoint == \A w, point, n, seen : At(w, point, n, seen).pc = point
BY DEF At, Blank

\* Where a session stands at its beginning and at its recovery.
LEMMA BlankPoint == Blank.pc = "idle" /\ [Blank EXCEPT !.pc = "recover"].pc = "recover"
BY DEF Blank

\* A worker in the middle of its delivery owns the lock.
LEMMA Owner ==
  ASSUME Once, NEW w \in Workers, Point(w) # "idle" PROVE holder = w
BY DEF Once, Exclusive

\* A step that leaves the provider call, or stays out of it.
Rests(w) == \E v : Become(w, v) /\ v.pc \notin InCall

\* Saving a step, or parking, leaves the call.
LEMMA SavingRests ==
  ASSUME NEW w, NEW row,
         \/ \E point \in Plain : SaveStep(w, row, point)
         \/ SaveAndAdvance(w, row)
         \/ \E target : Park(w, target)
         \/ \E target : SaveAndPark(w, row, target)
  PROVE  Rests(w)
<1>1. ASSUME NEW point \in Plain, SaveStep(w, row, point) PROVE Rests(w)
  <2>1. PICK v : Become(w, v) /\ v.pc = point
    BY <1>1, AtPoint DEF SaveStep
  <2>. QED BY <2>1 DEF Rests, Plain, InCall
<1>2. CASE SaveAndAdvance(w, row)
  <2>1. PICK v : Become(w, v) /\ v.pc = "steps"
    BY <1>2, AtPoint DEF SaveAndAdvance
  <2>. QED BY <2>1 DEF Rests, InCall
<1>3. ASSUME NEW target, Park(w, target) PROVE Rests(w)
  <2>1. PICK v : Become(w, v) /\ v.pc = "recover"
    BY <1>3, BlankPoint DEF Park
  <2>. QED BY <2>1 DEF Rests, InCall
<1>4. ASSUME NEW target, SaveAndPark(w, row, target) PROVE Rests(w)
  BY <1>3, <1>4 DEF SaveAndPark
<1>. QED BY <1>1, <1>2, <1>3, <1>4

\* Starting a run, parking it and walking its plan.
Walks(w) ==
  \/ ObserveCancellation(w) \/ StartRun(w) \/ FailPreflight(w) \/ SupervisorPauses(w)
  \/ SettleRecorded(w) \/ SkipStep(w)
  \/ ParkUnresolved(w) \/ ParkUnprepared(w) \/ ParkUngoverned(w)
  \/ ProposeAction(w) \/ ApprovalMissing(w) \/ FailIncomplete(w) \/ FinishRun(w)

LEMMA WalkRests ==
  ASSUME Typed, NEW w \in Workers, Walks(w) PROVE Rests(w)
<1>1. CASE \/ ObserveCancellation(w) \/ FailPreflight(w) \/ SupervisorPauses(w)
           \/ FailIncomplete(w) \/ FinishRun(w)
  <2>1. \E target : Park(w, target)
    BY <1>1 DEF ObserveCancellation, FailPreflight, SupervisorPauses, FailIncomplete, FinishRun
  <2>. QED BY <2>1, SavingRests
<1>2. CASE StartRun(w)
  <2>. DEFINE v == [wk[w] EXCEPT !.status = "running", !.pc = "steps"]
  <2>1. v.pc = "steps"
    BY RowType DEF Session
  <2>2. Become(w, v)
    BY <1>2 DEF StartRun
  <2>. QED BY <2>1, <2>2 DEF InCall, Rests
<1>3. CASE SettleRecorded(w) \/ SkipStep(w)
  BY <1>3, SavingRests DEF SettleRecorded, SkipStep
<1>4. CASE \/ ParkUnresolved(w) \/ ParkUnprepared(w) \/ ParkUngoverned(w) \/ ProposeAction(w)
           \/ ApprovalMissing(w)
  <2>1. \E target, row : SaveAndPark(w, row, target)
    BY <1>4 DEF ParkUnresolved, ParkUnprepared, ParkUngoverned, ProposeAction, ApprovalMissing
  <2>. QED BY <2>1, SavingRests
<1>. QED BY <1>1, <1>2, <1>3, <1>4 DEF Walks

\* Loading, authorising, starting and refusing an action.
Reviews(w) == LoadApproval(w) \/ AuthorizeByStart(w) \/ StartStep(w) \/ RefuseCall(w)

LEMMA ReviewRests ==
  ASSUME Typed, NEW w \in Workers, Reviews(w) PROVE Rests(w)
<1>1. PICK v : Become(w, v) /\ v.pc \in {"steps", "call", "error"}
  <2>1. CASE LoadApproval(w)
    <3>1. [wk[w] EXCEPT !.approval = approval[wk[w].at], !.arg = Row(w).args].pc = "steps"
      BY <2>1, RowType DEF LoadApproval, NeedsApproval, Open, AtStep, Point, Session
    <3>. QED BY <2>1, <3>1 DEF LoadApproval
  <2>2. CASE AuthorizeByStart(w)
    <3>1. PICK a \in Actions :
            Become(w, [wk[w] EXCEPT !.steps[wk[w].at].status = "pending", !.arg = a,
                          !.approval = [status |-> "approved", ready |-> TRUE, args |-> a]])
      BY <2>2 DEF AuthorizeByStart
    <3>2. [wk[w] EXCEPT !.steps[wk[w].at].status = "pending", !.arg = a,
             !.approval = [status |-> "approved", ready |-> TRUE, args |-> a]].pc = "steps"
      BY <2>2, RowType DEF AuthorizeByStart, NeedsApproval, Open, AtStep, Point, Session
    <3>. QED BY <3>1, <3>2
  <2>3. CASE StartStep(w)
    <3>. DEFINE row == [Row(w) EXCEPT !.status = "running"]
                arg == IF wk[w].approval = Unread THEN row.args ELSE wk[w].arg
                v == [wk[w] EXCEPT !.pc = "call", !.steps[wk[w].at] = row, !.arg = arg]
    <3>1. v.pc = "call"
      BY RowType DEF Session
    <3>2. Become(w, v)
      BY <2>3, RowType DEF StartStep, Startable, Session
    <3>. QED BY <3>1, <3>2
  <2>4. CASE RefuseCall(w)
    <3>1. [wk[w] EXCEPT !.pc = "error"].pc = "error"
      BY RowType DEF Session
    <3>. QED BY <2>4, <3>1 DEF RefuseCall, Goto
  <2>. QED BY <2>1, <2>2, <2>3, <2>4 DEF Reviews
<1>. QED BY <1>1 DEF InCall, Rests

\* Recording a result, reviewing it, giving up.
Answers(w) ==
  \/ ReconcileWrite(w) \/ CallSucceeds(w) \/ GiveUpCall(w)
  \/ AcceptResult(w) \/ DeferReview(w) \/ RejectResult(w)

LEMMA AnswerRests ==
  ASSUME NEW w \in Workers, Answers(w) PROVE Rests(w)
<1>1. CASE ReconcileWrite(w) \/ CallSucceeds(w)
  <2>1. "review" \in Plain
    BY DEF Plain, Points
  <2>. QED BY <1>1, <2>1, SavingRests DEF ReconcileWrite, CallSucceeds
<1>2. CASE AcceptResult(w)
  BY <1>2, SavingRests DEF AcceptResult
<1>3. CASE GiveUpCall(w) \/ DeferReview(w) \/ RejectResult(w)
  <2>1. \E target, row : SaveAndPark(w, row, target)
    BY <1>3 DEF GiveUpCall, DeferReview, RejectResult
  <2>. QED BY <2>1, SavingRests
<1>. QED BY <1>1, <1>2, <1>3 DEF Answers

\* The beginning of a delivery and its ends.
Ends(w) ==
  \/ Begin(w) \/ ReadRecovery(w) \/ ScheduleRecovery(w) \/ HandOff(w) \/ Crash(w)
  \/ CollideAttempt(w)

LEMMA EndRests ==
  ASSUME NEW w \in Workers, Ends(w) PROVE Rests(w)
<1>1. \/ Release(w)
      \/ \E point \in {"loaded", "recovering"} :
           Become(w, [Blank EXCEPT !.pc = point, !.status = status, !.cancel = cancelReq,
                                   !.steps = step])
  BY DEF Ends, Begin, ReadRecovery, ScheduleRecovery, HandOff, Crash, CollideAttempt
<1>2. \A point : [Blank EXCEPT !.pc = point, !.status = status, !.cancel = cancelReq,
                               !.steps = step].pc = point
  BY DEF Blank
<1>. QED BY <1>1, <1>2, BlankPoint DEF Release, Rests, InCall

\* Everything a worker does but the call itself and the way to it.
Apart(w) == Walks(w) \/ Reviews(w) \/ Answers(w) \/ Ends(w)

LEMMA ApartRests ==
  ASSUME Typed, NEW w \in Workers, Apart(w)
  PROVE  /\ Rests(w)
         /\ UNCHANGED <<ledger, calls, late, cancelReq>>
         /\ aside' = aside \/ ScheduleRecovery(w)
         /\ \/ Begin(w)
            \/ Point(w) # "idle" /\ (holder' = holder \/ Release(w))
<1>1. CASE Walks(w)
  BY <1>1, WalkRests
     DEF Walks, ObserveCancellation, StartRun, FailPreflight, SupervisorPauses, SettleRecorded,
         SkipStep, ParkUnresolved, ParkUnprepared, ParkUngoverned, Startable, ProposeAction,
         ApprovalMissing, FailIncomplete, FinishRun, AtEnd, AtStep, Open, NeedsApproval, ledgers,
         history
<1>2. CASE Reviews(w)
  BY <1>2, ReviewRests
     DEF Reviews, LoadApproval, AuthorizeByStart, StartStep, Startable, RefuseCall,
         NeedsApproval, Open, AtStep, Point, rows, ledgers, history
<1>3. CASE Answers(w)
  BY <1>3, AnswerRests
     DEF Answers, ReconcileWrite, CallSucceeds, GiveUpCall, AcceptResult, DeferReview,
         RejectResult, Reviewing, AtStep, ledgers, history
<1>4. CASE Ends(w)
  BY <1>4, EndRests
     DEF Ends, Begin, ReadRecovery, ScheduleRecovery, HandOff, Crash, CollideAttempt, rows,
         ledgers, history
<1>. QED BY <1>1, <1>2, <1>3, <1>4 DEF Apart

\* The rest of a worker's steps.
LEMMA WorkParts ==
  ASSUME NEW w \in Workers, Work(w)
  PROVE  \/ Apart(w) \/ DropLock(w)
         \/ AdmitCall(w) \/ RefreshCancellation(w) \/ InsertAttempt(w)
         \/ MarkDispatched(w) \/ CallProvider(w) \/ FailAttempt(w)
BY DEF Work, Apart, Walks, Reviews, Answers, Ends

\* All of this keeps Once.
LEMMA ApartOnce ==
  ASSUME Typed, Once, NEW w \in Workers, Apart(w) PROVE Once'
<1>1. PICK v : Become(w, v) /\ v.pc \notin InCall
  BY ApartRests DEF Rests
<1>2. wk'[w] = v
  BY <1>1 DEF Become, Typed, TypeOK
<1>3. CASE Begin(w)
  <2>1. holder = NoWorker /\ holder' = w
    BY <1>3 DEF Begin
  <2>. QED BY <1>1, <2>1, ApartRests, Quiet
<1>4. CASE Point(w) # "idle" /\ holder' = holder
  BY <1>1, <1>4, ApartRests, Owner, Quiet
<1>5. CASE Point(w) # "idle" /\ Release(w)
  <2>1. v.pc = "idle"
    BY <1>2, <1>5, BlankPoint DEF Release, Become, Typed, TypeOK
  <2>. QED BY <1>1, <1>5, <2>1, ApartRests, Quiet
<1>. QED BY <1>3, <1>4, <1>5, ApartRests
-------------------------------------------------------------------------------
\* The provider call

\* A step of the owner inside the call: only its own session, the ledger and
\* the calls have to be looked at again.
LEMMA Calling ==
  ASSUME Typed, Once, NEW w \in Workers, Point(w) # "idle", NEW v, Become(w, v),
         UNCHANGED <<holder, cancelReq>>,
         CalledAfterSpent', FreshWrite(wk[w])',
         late' = late \/ (late = 0 /\ late' = 1 /\ cancelReq),
         late' = 1 => v.pc \notin {"insert", "inserted", "marked"}
  PROVE  Once'
<1>1. /\ wk'[w] = v /\ \A u \in Workers : u # w => wk'[u] = wk[u] /\ wk[u].pc = "idle"
  BY Alone DEF Become, Typed, TypeOK, Point
<1>2. Exclusive'
  BY <1>1, Owner DEF Exclusive, Point
<1>3. OneLate'
  BY <1>1, LateBits DEF Once, OneLate, Point
<1>4. \A u \in Workers : FreshWrite(wk[u])'
  BY <1>1 DEF FreshWrite, HasRow
<1>. QED BY <1>2, <1>3, <1>4 DEF Once

\* A write is admitted with one attempt and no dispatched row.
LEMMA AdmitOnce ==
  ASSUME Typed, Once, NEW w \in Workers, AdmitCall(w) PROVE Once'
<1>. DEFINE s == wk[w].at
            left == Budget(s) - Spent(s)
            next == Len(ledger[s]) + 1
            v == [wk[w] EXCEPT !.pc = "attempt", !.left = left, !.number = next]
<1>1. s \in Steps /\ Point(w) = "call"
  BY DEF AdmitCall, Point, CallPoints, Typed, WorkerTyped
<1>2. s \in Writes => left = 1 /\ Dispatched(s) = {}
  BY <1>1, SpentNatural DEF AdmitCall, Budget, CurrentCycle
<1>3. v.pc = "attempt" /\ v.at = s /\ v.left = left
  <2>. HIDE DEF left, next
  <2>. QED BY RowType DEF Session
<1>4. Become(w, v) /\ UNCHANGED <<ledger, calls, late, holder, cancelReq>>
  BY DEF AdmitCall, rows, ledgers, history
<1>. HIDE DEF left, next, v
<1>5. CalledAfterSpent'
  BY <1>4 DEF Once, CalledAfterSpent, Dispatched
<1>6. wk'[w] = v
  BY <1>4 DEF Become, Typed, TypeOK
<1>7. FreshWrite(wk[w])'
  BY <1>2, <1>3, <1>4, <1>6 DEF FreshWrite, HasRow, Dispatched
<1>. QED BY <1>1, <1>3, <1>4, <1>5, <1>7, Calling

\* A session that goes on after reading the flag has seen no cancellation.
LEMMA RefreshOnce ==
  ASSUME Typed, Once, NEW w \in Workers, RefreshCancellation(w) PROVE Once'
<1>. DEFINE point == IF cancelReq THEN "error" ELSE "insert"
            v == [wk[w] EXCEPT !.cancel = cancelReq, !.pc = point]
<1>1. v.pc = point /\ v.at = wk[w].at /\ v.left = wk[w].left /\ Point(w) = "attempt"
  BY RowType DEF Session, RefreshCancellation
<1>2. Become(w, v) /\ UNCHANGED <<ledger, calls, late, holder, cancelReq>>
  BY DEF RefreshCancellation, rows, ledgers, history
<1>3. CalledAfterSpent'
  BY <1>2 DEF Once, CalledAfterSpent, Dispatched
<1>4. late = 1 => point = "error"
  BY DEF Once, OneLate
<1>. HIDE DEF v
<1>5. wk'[w] = v
  BY <1>2 DEF Become, Typed, TypeOK
<1>6. FreshWrite(wk[w])'
  BY <1>1, <1>2, <1>5 DEF Once, Point, FreshWrite, HasRow, Dispatched
<1>. QED BY <1>1, <1>2, <1>3, <1>4, <1>6, Calling

\* Inserting an attempt row dispatches nothing.
LEMMA InsertDispatchesNothing ==
  ASSUME Typed, NEW s \in Steps, NEW row \in Attempt, ~row.dispatched,
         ledger' = [ledger EXCEPT ![s] = Append(@, row)]
  PROVE  \A r \in Steps : Dispatched(r)' = Dispatched(r)
<1>1. ledger[s] \in Seq(Attempt)
  BY DEF Typed, TypeOK
<1>2. /\ Len(Append(ledger[s], row)) = Len(ledger[s]) + 1 /\ Len(ledger[s]) \in Nat
      /\ \A n \in 1..Len(ledger[s]) : Append(ledger[s], row)[n] = ledger[s][n]
      /\ Append(ledger[s], row)[Len(ledger[s]) + 1] = row
  BY <1>1, AppendProperties, LenProperties
<1>3. ledger'[s] = Append(ledger[s], row) /\ \A r \in Steps : r # s => ledger'[r] = ledger[r]
  BY DEF Typed, TypeOK
<1>4. Dispatched(s)' = Dispatched(s)
  BY <1>2, <1>3 DEF Dispatched
<1>. QED BY <1>3, <1>4 DEF Dispatched

\* Updating an attempt row takes no dispatch back.
LEMMA UpdateKeepsDispatched ==
  ASSUME Typed, NEW s \in Steps, NEW n \in 1..Len(ledger[s]), NEW row \in Attempt,
         ledger[s][n].dispatched => row.dispatched,
         ledger' = [ledger EXCEPT ![s] = [@ EXCEPT ![n] = row]]
  PROVE  /\ \A r \in Steps : Dispatched(r) \subseteq Dispatched(r)'
         /\ row.dispatched => n \in Dispatched(s)'
<1>1. ledger[s] \in Seq(Attempt)
  BY DEF Typed, TypeOK
<1>2. /\ Len([ledger[s] EXCEPT ![n] = row]) = Len(ledger[s])
      /\ \A m \in 1..Len(ledger[s]) :
           [ledger[s] EXCEPT ![n] = row][m] = IF m = n THEN row ELSE ledger[s][m]
  BY <1>1, ExceptSeq
<1>3. /\ ledger'[s] = [ledger[s] EXCEPT ![n] = row]
      /\ \A r \in Steps : r # s => ledger'[r] = ledger[r]
  BY DEF Typed, TypeOK
<1>4. Dispatched(s) \subseteq Dispatched(s)' /\ (row.dispatched => n \in Dispatched(s)')
  BY <1>2, <1>3 DEF Dispatched
<1>. QED BY <1>3, <1>4 DEF Dispatched

\* The inserted attempt was the last one the session had.
LEMMA InsertOnce ==
  ASSUME Typed, Once, NEW w \in Workers, InsertAttempt(w) PROVE Once'
<1>. DEFINE row == [dispatched |-> FALSE, error |-> "none"]
            left == wk[w].left - 1
            v == [wk[w] EXCEPT !.pc = "inserted", !.left = left]
<1>1. PICK s \in Steps : s = wk[w].at
  BY DEF InsertAttempt, Point, CallPoints, Typed, WorkerTyped
<1>2. Point(w) = "insert" /\ row \in Attempt /\ ~row.dispatched
  BY DEF InsertAttempt, Attempt, Error
<1>3. /\ ledger' = [ledger EXCEPT ![s] = Append(@, row)]
      /\ Become(w, v) /\ UNCHANGED <<calls, late, holder, cancelReq>>
  BY <1>1 DEF InsertAttempt, rows, history
<1>4. \A r \in Steps : Dispatched(r)' = Dispatched(r)
  <2>. HIDE DEF row
  <2>. QED BY <1>2, <1>3, InsertDispatchesNothing
<1>5. s \in Writes => left = 0 /\ Dispatched(s) = {}
  BY <1>1, <1>2 DEF Once, FreshWrite, Point
<1>6. v.pc = "inserted" /\ v.at = s /\ v.left = left
  <2>. HIDE DEF left
  <2>. QED BY <1>1, RowType DEF Session
<1>. HIDE DEF v, left, row
<1>7. CalledAfterSpent'
  BY <1>3, <1>4, PlanAssumption DEF Once, CalledAfterSpent
<1>8. wk'[w] = v
  BY <1>3 DEF Become, Typed, TypeOK
<1>9. FreshWrite(wk[w])'
  <2>1. wk'[w].at = s /\ wk'[w].left = left /\ wk'[w].pc = "inserted"
    BY <1>6, <1>8
  <2>2. s \in Writes => Dispatched(s)' = {}
    BY <1>4, <1>5
  <2>. QED BY <1>5, <2>1, <2>2 DEF FreshWrite, HasRow, Dispatched
<1>. QED BY <1>2, <1>3, <1>7, <1>9, LateBits, Calling

\* The marked write has not called its provider yet.
LEMMA MarkOnce ==
  ASSUME Typed, Once, NEW w \in Workers, MarkDispatched(w) PROVE Once'
<1>0. PICK s \in Steps : s = wk[w].at
  BY DEF MarkDispatched, Point, CallPoints, Typed, WorkerTyped
<1>1. PICK n \in 1..Len(ledger[s]) : s = wk[w].at /\ n = wk[w].number
  BY <1>0 DEF MarkDispatched, Point, HasRow, Typed, WorkerTyped
<1>. DEFINE row == [ledger[s][n] EXCEPT !.dispatched = TRUE]
            v == [wk[w] EXCEPT !.pc = "marked"]
<1>2. row \in Attempt /\ row.dispatched
  <2>1. ledger[s] \in Seq(Attempt)
    BY DEF Typed, TypeOK
  <2>2. ledger[s][n] \in Attempt
    BY <2>1, ElementOfSeq
  <2>. QED BY <2>2 DEF Attempt
<1>3. /\ ledger' = [ledger EXCEPT ![s] = [@ EXCEPT ![n] = row]]
      /\ Become(w, v) /\ UNCHANGED <<calls, late, holder, cancelReq>>
      /\ Point(w) = "inserted"
  BY <1>1 DEF MarkDispatched, Goto, rows, history, Typed, TypeOK
<1>4. v.pc = "marked" /\ v.at = s /\ v.left = wk[w].left
  BY <1>1, RowType DEF Session
<1>5. s \in Writes => wk[w].left = 0 /\ Dispatched(s) = {}
  BY <1>1, <1>3 DEF Once, FreshWrite, Point, HasRow
<1>. HIDE DEF v, row
<1>6. /\ \A r \in Steps : Dispatched(r) \subseteq Dispatched(r)'
      /\ n \in Dispatched(s)'
  BY <1>2, <1>3, UpdateKeepsDispatched
<1>7. CalledAfterSpent'
  <2>1. \A r \in Writes : Dispatched(r) # {} => Dispatched(r)' # {}
    BY <1>6, PlanAssumption
  <2>. QED BY <1>3, <2>1 DEF Once, CalledAfterSpent
<1>8. wk'[w] = v
  BY <1>3 DEF Become, Typed, TypeOK
<1>9. FreshWrite(wk[w])'
  <2>1. wk'[w].at = s /\ wk'[w].left = wk[w].left /\ wk'[w].pc = "marked"
    BY <1>4, <1>8
  <2>2. Dispatched(s)' # {}
    BY <1>6
  <2>3. s \in Writes => calls'[s] = 0
    BY <1>3, <1>5 DEF Once, CalledAfterSpent
  <2>. QED BY <1>5, <2>1, <2>2, <2>3 DEF FreshWrite, HasRow, Dispatched
<1>10. late' = late /\ late = 0
  BY <1>3, LateBits
<1>. QED BY <1>3, <1>7, <1>9, <1>10, Calling

\* The call is the first of its write, and late at most once.
LEMMA CallOnce ==
  ASSUME Typed, Once, NEW w \in Workers, CallProvider(w) PROVE Once'
<1>1. PICK s \in Steps : s = wk[w].at
  BY DEF CallProvider, Point, CallPoints, Typed, WorkerTyped
<1>. DEFINE v == [wk[w] EXCEPT !.pc = "sent"]
<1>2. /\ calls' = [calls EXCEPT ![s] = @ + 1] /\ late' = IF cancelReq THEN late + 1 ELSE late
      /\ Become(w, v) /\ UNCHANGED <<ledger, holder, cancelReq>>
      /\ Point(w) = "marked"
  BY <1>1 DEF CallProvider, Goto, rows, ledgers
<1>3. v.pc = "sent" /\ v.at = s /\ v.left = wk[w].left
  BY <1>1, RowType DEF Session
<1>4. s \in Writes => wk[w].left = 0 /\ calls[s] = 0 /\ Dispatched(s) # {}
  BY <1>1, <1>2 DEF Once, FreshWrite, Point, HasRow
<1>. HIDE DEF v
<1>5. CalledAfterSpent'
  <2>1. \A r \in Writes : Dispatched(r)' = Dispatched(r)
    BY <1>2 DEF Dispatched
  <2>2. \A r \in Writes : calls'[r] = IF r = s THEN 1 ELSE calls[r]
    BY <1>2, <1>4, PlanAssumption DEF Typed, TypeOK
  <2>. QED BY <1>4, <2>1, <2>2 DEF Once, CalledAfterSpent
<1>6. wk'[w] = v
  BY <1>2 DEF Become, Typed, TypeOK
<1>7. FreshWrite(wk[w])'
  BY <1>3, <1>4, <1>6 DEF FreshWrite, HasRow
<1>8. late' = late \/ (late = 0 /\ late' = 1 /\ cancelReq)
  BY <1>2, LateBits
<1>. QED BY <1>2, <1>3, <1>5, <1>7, <1>8, Calling

\* A failed write has no attempt left in this session.
LEMMA FailOnce ==
  ASSUME Typed, Once, NEW w \in Workers, FailAttempt(w) PROVE Once'
<1>0. PICK s \in Steps : s = wk[w].at
  BY DEF FailAttempt, Point, CallPoints, Typed, WorkerTyped
<1>1. PICK n \in 1..Len(ledger[s]) : s = wk[w].at /\ n = wk[w].number
  BY <1>0 DEF FailAttempt, Point, HasRow, Typed, WorkerTyped
<1>. DEFINE next == n + 1
            retry == [wk[w] EXCEPT !.pc = "attempt", !.number = next]
            stop == At(w, "error", s, wk[w].steps)
<1>2. PICK e \in {"final", "transient"}, again \in BOOLEAN :
        /\ again => wk[w].left > 0
        /\ ledger' = [ledger EXCEPT ![s][n] = [@ EXCEPT !.error = e]]
        /\ Become(w, IF again THEN retry ELSE stop)
  BY <1>1 DEF FailAttempt
<1>. DEFINE row == [ledger[s][n] EXCEPT !.error = e]
<1>3. row \in Attempt /\ row.dispatched = ledger[s][n].dispatched
  <2>1. ledger[s] \in Seq(Attempt)
    BY DEF Typed, TypeOK
  <2>2. ledger[s][n] \in Attempt
    BY <2>1, ElementOfSeq
  <2>. QED BY <2>2, AttemptUpdate DEF Attempt, Error
<1>4. /\ ledger' = [ledger EXCEPT ![s] = [@ EXCEPT ![n] = row]]
      /\ UNCHANGED <<calls, late, holder, cancelReq>>
      /\ Point(w) \in HasRow
  BY <1>2 DEF FailAttempt, rows, history, HasRow, Typed, TypeOK
<1>5. retry.pc = "attempt" /\ retry.at = s /\ stop.pc = "error"
  <2>. HIDE DEF next
  <2>. QED BY <1>1, RowType, AtPoint DEF Session
<1>6. s \in Writes => wk[w].left = 0
  BY <1>1, <1>4 DEF Once, FreshWrite, Point
<1>7. again => s \notin Writes
  BY <1>2, <1>6
<1>. HIDE DEF row, retry, stop
<1>8. \A r \in Steps : Dispatched(r) \subseteq Dispatched(r)'
  BY <1>3, <1>4, UpdateKeepsDispatched
<1>9. CalledAfterSpent'
  <2>1. \A r \in Writes : Dispatched(r) # {} => Dispatched(r)' # {}
    BY <1>8, PlanAssumption
  <2>. QED BY <1>4, <2>1 DEF Once, CalledAfterSpent
<1>10. wk'[w] = IF again THEN retry ELSE stop
  BY <1>2 DEF Become, Typed, TypeOK
<1>11. FreshWrite(wk[w])'
  BY <1>5, <1>7, <1>10 DEF FreshWrite, HasRow
<1>12. PICK v : Become(w, v) /\ v.pc \in {"attempt", "error"}
  BY <1>2, <1>5
<1>. QED BY <1>4, <1>9, <1>11, <1>12, Calling DEF HasRow
-------------------------------------------------------------------------------
\* Requests, and the invariant

\* Whoever leaves the sessions, the lock, the ledger and the calls alone and
\* takes no cancellation back keeps Once.
LEMMA FrameOnce ==
  ASSUME Once, UNCHANGED <<ledger, calls, late, holder, wk>>, cancelReq => cancelReq'
  PROVE  Once'
<1>1. Exclusive'
  BY DEF Once, Exclusive, Point
<1>2. CalledAfterSpent'
  BY DEF Once, CalledAfterSpent, Dispatched
<1>3. OneLate'
  BY DEF Once, OneLate, Point
<1>4. ASSUME NEW u \in Workers PROVE FreshWrite(wk[u])'
  BY DEF Once, FreshWrite, Dispatched
<1>. QED BY <1>1, <1>2, <1>3, <1>4 DEF Once

\* No API request disturbs Once.
LEMMA RequestOnce ==
  ASSUME Once, NEW c \in Clients, Ask(c) PROVE Once'
<1>1. CASE ReadCancel(c) \/ ReadAbandon(c) \/ ReadRetry(c) \/ ReadRecheck(c) \/ ReadSkip(c)
           \/ ReadDecision(c)
  <2>1. \E request : Load(c, request)
    BY <1>1 DEF ReadCancel, ReadAbandon, ReadRetry, ReadRecheck, ReadSkip, ReadDecision,
                LoadRun, LoadStep
  <2>. QED BY <2>1, FrameOnce DEF Load, rows, ledgers, history
<1>2. CASE WriteCancel(c) \/ WriteAbandon(c) \/ WriteRetry(c) \/ WriteRecheck(c) \/ WriteSkip(c)
  BY <1>2, FrameOnce DEF WriteCancel, WriteAbandon, WriteRetry, WriteRecheck, WriteSkip,
                         ledgers, history
<1>3. CASE WriteApproval(c) \/ WriteRejection(c) \/ RefuseDecision(c)
  <2>1. UNCHANGED <<cancelReq, ledger, calls, late, holder, wk>>
    BY <1>3 DEF WriteApproval, WriteRejection, RefuseDecision, rows, ledgers, history
  <2>. QED BY <2>1, FrameOnce
<1>. QED BY <1>1, <1>2, <1>3 DEF Ask

\* Once holds of the approved plan.
LEMMA InitOnce == Init => Once
<1>. SUFFICES ASSUME Init PROVE Once
  OBVIOUS
<1>1. \A w \in Workers : Point(w) = "idle"
  BY BlankType DEF Init, Point
<1>. QED BY <1>1, PlanAssumption
     DEF Init, Once, Exclusive, CalledAfterSpent, OneLate, FreshWrite, HasRow, Point

\* Once is kept by every step, as long as the lock is reliable.
LEMMA StepOnce ==
  ASSUME LockMayDrop = FALSE
  PROVE  Typed /\ Once /\ [Next]_vars => Once'
<1>. SUFFICES ASSUME Typed, Once, [Next]_vars PROVE Once'
  OBVIOUS
<1>1. ASSUME NEW w \in Workers, Work(w) PROVE Once'
  <2>1. \/ Apart(w) \/ AdmitCall(w) \/ RefreshCancellation(w) \/ InsertAttempt(w)
        \/ MarkDispatched(w) \/ CallProvider(w) \/ FailAttempt(w)
    BY <1>1, WorkParts DEF DropLock
  <2>. QED
    BY <2>1, ApartOnce, AdmitOnce, RefreshOnce, InsertOnce, MarkOnce, CallOnce, FailOnce
<1>2. ASSUME NEW c \in Clients, Ask(c) PROVE Once'
  BY <1>2, RequestOnce
<1>3. CASE RecoverStale
  BY <1>3, FrameOnce DEF RecoverStale, ledgers, history
<1>4. CASE UNCHANGED vars
  BY <1>4, FrameOnce DEF vars
<1>. QED BY <1>1, <1>2, <1>3, <1>4 DEF Next

\* Typed and Once together are inductive while the lock is reliable.
LEMMA Invariance ==
  ASSUME LockMayDrop = FALSE
  PROVE  Spec => [](Typed /\ Once)
<1>1. Init => Typed /\ Once
  BY InitTyped, InitOnce
<1>2. Typed /\ Once /\ [Next]_vars => (Typed /\ Once)'
  BY StepTyped, StepOnce
<1>. QED BY <1>1, <1>2, PTL DEF Spec

\* While the connection that holds the advisory lock lives, no crash, duplicate
\* delivery, stale recovery, retry or cancellation makes the worker call the
\* provider of a consequential step twice (orchestrator.py, the receipt check
\* and the no-return mark of _execute_run).
THEOREM AtMostOnce ==
  ASSUME LockMayDrop = FALSE
  PROVE  Spec => []WriteAtMostOnce
<1>1. Typed /\ Once => WriteAtMostOnce
  BY DEF Once, CalledAfterSpent, WriteAtMostOnce
<1>. QED BY <1>1, Invariance, PTL

\* Under the same condition, once cancellation of a run is requested at most
\* one provider call, the one past its last check, still goes out.
THEOREM CancellationBoundsCalls ==
  ASSUME LockMayDrop = FALSE
  PROVE  Spec => []CancelBoundsCalls
<1>1. Typed /\ Once => CancelBoundsCalls
  BY DEF Once, OneLate, CancelBoundsCalls
<1>. QED BY <1>1, Invariance, PTL
-------------------------------------------------------------------------------
\* Receipts: what the rows a session has loaded are worth

\* A session that has loaded its rows knows every receipt, and stands at a step
\* without one, whose dependencies have theirs, until the provider answers.
BeforeResult == {"call", "attempt", "insert", "inserted", "marked", "sent"}
Gone == {"idle", "recover"}

Loaded(v) ==
  v.pc \notin Gone =>
    /\ \A s \in Steps : v.steps[s].receipt = step[s].receipt
    /\ \A s \in Steps : v.steps[s].status = "completed" => v.steps[s].receipt = "accepted"
    /\ v.pc \in BeforeResult => /\ v.steps[v.at].receipt = "none"
                                /\ \A d \in Deps[v.at] : step[d].receipt = "accepted"
    /\ v.pc = "review" => v.steps[v.at].receipt = "review"

Receipts ==
  /\ \A s \in Steps : step[s].status = "completed" => step[s].receipt = "accepted"
  /\ DependenciesFirst /\ CompletedIsComplete
  /\ \A w \in Workers : Loaded(wk[w])

\* What ReceiptIsFinal says of a step.
Kept == \A s \in Steps : step[s].receipt # "none" =>
          step'[s].receipt # "none" /\ calls'[s] = calls[s]

\* The run does not become completed, but by its end.
StillOpen == status' = "completed" =>
               status = "completed" \/ \A s \in Steps \ Optional : step[s].receipt = "accepted"

LEMMA StoredOpen ==
  ASSUME NEW loaded, NEW target, target # "completed" \/ target = loaded,
         status' = StoreStatus(status, loaded, target)
  PROVE  StillOpen
BY DEF StoreStatus, StillOpen

LEMMA DepsAreSteps == \A s \in Steps : Deps[s] \subseteq Steps
BY PlanAssumption

\* The receipts that a step of the owner leaves.
LEMMA OwnerReceipts ==
  ASSUME Typed, Once, Receipts, NEW w \in Workers, NEW v, Become(w, v),
         Point(w) # "idle" \/ holder = w \/ holder = NoWorker,
         \A s \in Steps : step'[s].status = "completed" => step'[s].receipt = "accepted",
         \A s \in Steps : step[s].receipt = "accepted" => step'[s].receipt = "accepted",
         \A s \in Steps : calls'[s] > 0 =>
           calls[s] > 0 \/ \A d \in Deps[s] : step[d].receipt = "accepted",
         StillOpen, Kept, Loaded(v)'
  PROVE  Receipts'
<1>1. /\ wk'[w] = v /\ \A u \in Workers : u # w => wk'[u] = wk[u] /\ wk[u].pc = "idle"
  BY Alone DEF Become, Typed, TypeOK, Point
<1>2. \A u \in Workers : Loaded(wk[u])'
  BY <1>1 DEF Loaded, Gone
<1>3. DependenciesFirst'
  BY DepsAreSteps DEF Receipts, DependenciesFirst
<1>4. CompletedIsComplete'
  BY DEF Receipts, CompletedIsComplete, StillOpen
<1>. QED
  BY <1>2, <1>3, <1>4 DEF Receipts

\* A step of the owner that saves no row.
LEMMA Stands ==
  ASSUME Typed, Once, Receipts, NEW w \in Workers, NEW v, Become(w, v),
         Point(w) # "idle" \/ holder = w \/ holder = NoWorker,
         UNCHANGED <<step, calls>>, StillOpen, Loaded(v)
  PROVE  Receipts' /\ Kept
<1>1. Loaded(v)'
  BY DEF Loaded
<1>2. Kept
  BY DEF Kept
<1>. QED
  BY <1>1, <1>2, OwnerReceipts DEF Receipts

\* Saving the row of a step, whose receipt is kept or has just come.
LEMMA SavesRow ==
  ASSUME Typed, Once, Receipts, NEW w \in Workers, Point(w) \notin Gone,
         NEW s \in Steps, NEW row \in StepRow,
         step' = [step EXCEPT ![s] = Merge(@, wk[w].steps[s], row)],
         wk[w].steps[s].receipt = "accepted" => row.receipt = "accepted",
         wk[w].steps[s].receipt # "none" => row.receipt # "none",
         row.status = "completed" => row.receipt = "accepted"
  PROVE  /\ \A r \in Steps : step'[r].receipt = IF r = s THEN row.receipt ELSE step[r].receipt
         /\ \A r \in Steps : step'[r].status = "completed" => step'[r].receipt = "accepted"
         /\ \A r \in Steps : step[r].receipt = "accepted" => step'[r].receipt = "accepted"
         /\ \A r \in Steps : step[r].receipt # "none" => step'[r].receipt # "none"
<1>1. wk[w].steps[s].receipt = step[s].receipt
  BY DEF Receipts, Loaded, Point
<1>2. /\ step'[s] = Merge(step[s], wk[w].steps[s], row)
      /\ \A r \in Steps : r # s => step'[r] = step[r]
  BY DEF Typed, TypeOK
<1>3. step'[s].receipt = row.receipt
  BY <1>1, <1>2 DEF Merge
<1>4. step'[s].status = "completed" => row.receipt = "accepted"
  BY <1>1, <1>2 DEF Merge, Receipts
<1>. QED
  BY <1>1, <1>2, <1>3, <1>4 DEF Receipts

LEMMA Saves ==
  ASSUME Typed, Once, Receipts, NEW w \in Workers, Point(w) \notin Gone,
         NEW s \in Steps, NEW row \in StepRow,
         step' = [step EXCEPT ![s] = Merge(@, wk[w].steps[s], row)],
         wk[w].steps[s].receipt = "accepted" => row.receipt = "accepted",
         wk[w].steps[s].receipt # "none" => row.receipt # "none",
         row.status = "completed" => row.receipt = "accepted",
         UNCHANGED calls, StillOpen, NEW v, Become(w, v),
         v.pc \notin Gone =>
           /\ v.steps = [wk[w].steps EXCEPT ![s] = row]
           /\ v.pc \in BeforeResult => /\ v.at = s /\ row.receipt = "none"
                                       /\ \A d \in Deps[s] : step[d].receipt = "accepted"
           /\ v.pc = "review" => v.at = s /\ row.receipt = "review"
  PROVE  Receipts' /\ Kept
<1>1. /\ \A r \in Steps : step'[r].receipt = IF r = s THEN row.receipt ELSE step[r].receipt
      /\ \A r \in Steps : step'[r].status = "completed" => step'[r].receipt = "accepted"
      /\ \A r \in Steps : step[r].receipt = "accepted" => step'[r].receipt = "accepted"
      /\ \A r \in Steps : step[r].receipt # "none" => step'[r].receipt # "none"
  BY SavesRow
<1>2. Kept
  BY <1>1 DEF Kept
<1>3. Loaded(v)'
  <2>. SUFFICES ASSUME v.pc \notin Gone PROVE Loaded(v)'
    BY DEF Loaded
  <2>1. \A r \in Steps : v.steps[r] = IF r = s THEN row ELSE wk[w].steps[r]
    BY RowType
  <2>2. \A r \in Steps : v.steps[r].receipt = step'[r].receipt
    BY <1>1, <2>1 DEF Receipts, Loaded, Point
  <2>3. \A r \in Steps : v.steps[r].status = "completed" => v.steps[r].receipt = "accepted"
    BY <2>1 DEF Receipts, Loaded, Point
  <2>4. v.pc \in BeforeResult => /\ v.steps[v.at].receipt = "none"
                                 /\ \A d \in Deps[v.at] : step'[d].receipt = "accepted"
    BY <1>1, <2>1, DepsAreSteps
  <2>5. v.pc = "review" => v.steps[v.at].receipt = "review"
    BY <2>1
  <2>. QED
    BY <2>2, <2>3, <2>4, <2>5 DEF Loaded
<1>4. \A r \in Steps : calls'[r] > 0 =>
        calls[r] > 0 \/ \A d \in Deps[r] : step[d].receipt = "accepted"
  OBVIOUS
<1>5. Point(w) # "idle"
  BY DEF Gone
<1>. QED
  BY <1>1, <1>2, <1>3, <1>4, <1>5, OwnerReceipts

\* A session that goes on with the rows it has.
LEMMA StaysLoaded ==
  ASSUME Receipts, NEW w \in Workers, Point(w) \notin Gone, NEW v,
         v.steps = wk[w].steps, v.at = wk[w].at, v.pc # "review",
         v.pc \in BeforeResult => Point(w) \in BeforeResult
  PROVE  Loaded(v)
BY DEF Receipts, Loaded, Point

\* A session that gives its rows up.
LEMMA GoneLoaded ==
  /\ Loaded(Blank) /\ Loaded([Blank EXCEPT !.pc = "recover"])
  /\ Blank.pc \in Gone /\ [Blank EXCEPT !.pc = "recover"].pc \in Gone
BY BlankPoint DEF Loaded, Gone

\* Parking a run does not complete it, unless it may be completed.
LEMMA Parks ==
  ASSUME Typed, Once, Receipts, NEW w \in Workers, Point(w) # "idle",
         NEW target, Park(w, target), UNCHANGED <<step, calls>>,
         target = "completed" => \A s \in Steps \ Optional : step[s].receipt = "accepted"
  PROVE  Receipts' /\ Kept
<1>1. StillOpen
  BY DEF Park, StoreStatus, StillOpen
<1>2. Become(w, [Blank EXCEPT !.pc = "recover"])
  BY DEF Park
<1>. QED
  BY <1>1, <1>2, GoneLoaded, Stands

\* What a session at a step saves with it, before the run parks.
LEMMA ParksSaving ==
  ASSUME Typed, Once, Receipts, NEW w \in Workers, Point(w) \notin Gone, wk[w].at \in Steps,
         NEW row \in StepRow, NEW target, SaveAndPark(w, row, target), target # "completed",
         Row(w).receipt = "accepted" => row.receipt = "accepted",
         Row(w).receipt # "none" => row.receipt # "none",
         row.status = "completed" => row.receipt = "accepted",
         UNCHANGED calls
  PROVE  Receipts' /\ Kept
<1>. DEFINE v == [Blank EXCEPT !.pc = "recover"]
<1>1. StillOpen
  BY DEF SaveAndPark, Park, StoreStatus, StillOpen
<1>2. Become(w, v) /\ v.pc \in Gone
  BY GoneLoaded DEF SaveAndPark, Park
<1>. HIDE DEF v
<1>3. PICK s \in Steps : s = wk[w].at
  OBVIOUS
<1>4. step' = [step EXCEPT ![s] = Merge(@, wk[w].steps[s], row)]
  BY <1>3 DEF SaveAndPark, Row
<1>. QED
  BY <1>1, <1>2, <1>3, <1>4, Saves DEF Row

\* What a session that moves on has in its hands.
LEMMA AtFields ==
  \A w, point, n, seen : LET v == At(w, point, n, seen) IN
    v.pc = point /\ v.at = n /\ v.steps = seen /\ v.approval = Unread
BY DEF At, Blank

\* What a session saves before it moves on.
LEMMA Advances ==
  ASSUME Typed, Once, Receipts, NEW w \in Workers, Point(w) \notin Gone, wk[w].at \in Steps,
         NEW row \in StepRow, SaveAndAdvance(w, row),
         Row(w).receipt = "accepted" => row.receipt = "accepted",
         Row(w).receipt # "none" => row.receipt # "none",
         row.status = "completed" => row.receipt = "accepted",
         UNCHANGED <<status, calls>>
  PROVE  Receipts' /\ Kept
<1>1. PICK s \in Steps : s = wk[w].at
  OBVIOUS
<1>. DEFINE seen == [wk[w].steps EXCEPT ![s] = row]
            n == s + 1
            v == At(w, "steps", n, seen)
<1>2. v.pc = "steps" /\ v.steps = seen
  BY AtFields
<1>3. step' = [step EXCEPT ![s] = Merge(@, wk[w].steps[s], row)] /\ Become(w, v)
  BY <1>1 DEF SaveAndAdvance, Row
<1>4. StillOpen
  BY DEF StillOpen
<1>5. v.pc \notin BeforeResult
  BY <1>2 DEF BeforeResult
<1>. HIDE DEF v, n
<1>. QED
  BY <1>1, <1>2, <1>3, <1>4, <1>5, Saves DEF Row

\* Starting a run and parking it keep the receipts.
LEMMA EndingReceipts ==
  ASSUME Typed, Once, Receipts, NEW w \in Workers,
         \/ ObserveCancellation(w) \/ StartRun(w) \/ FailPreflight(w) \/ SupervisorPauses(w)
         \/ FailIncomplete(w) \/ FinishRun(w)
  PROVE  Receipts' /\ Kept
<1>1. Point(w) \notin Gone /\ UNCHANGED <<step, calls>>
  BY DEF ObserveCancellation, StartRun, FailPreflight, SupervisorPauses, FailIncomplete,
         FinishRun, AtEnd, Gone, history
<1>2. Point(w) # "idle"
  BY <1>1 DEF Gone
<1>3. CASE StartRun(w)
  <2>. DEFINE v == [wk[w] EXCEPT !.status = "running", !.pc = "steps"]
  <2>1. v.pc = "steps" /\ v.at = wk[w].at /\ v.steps = wk[w].steps
    BY RowType DEF Session
  <2>2. Become(w, v) /\ status' = StoreStatus(status, wk[w].status, "running")
    BY <1>3 DEF StartRun
  <2>. HIDE DEF v
  <2>3. Loaded(v)
    BY <1>1, <2>1, StaysLoaded DEF BeforeResult
  <2>. QED BY <1>1, <1>2, <2>2, <2>3, StoredOpen, Stands
<1>4. CASE FinishRun(w)
  <2>1. PICK target \in {"completed", "waiting_for_action"} : Park(w, target)
    BY <1>4 DEF FinishRun
  <2>2. \A s \in Steps \ Optional : step[s].receipt = "accepted"
    BY <1>1, <1>4 DEF FinishRun, RequiredDone, Receipts, Loaded, Point
  <2>. QED BY <1>1, <1>2, <2>1, <2>2, Parks
<1>5. CASE \/ ObserveCancellation(w) \/ FailPreflight(w) \/ SupervisorPauses(w)
           \/ FailIncomplete(w)
  <2>1. PICK target : Park(w, target) /\ target # "completed"
    BY <1>5 DEF ObserveCancellation, FailPreflight, SupervisorPauses, FailIncomplete
  <2>. QED BY <1>1, <1>2, <2>1, Parks
<1>. QED BY <1>3, <1>4, <1>5

\* A step that is open has no receipt, and is not completed.
LEMMA OpenRow ==
  ASSUME Typed, Receipts, NEW w \in Workers,
         Open(w) \/ Startable(w) \/ NeedsApproval(w)
  PROVE  /\ Point(w) \notin Gone /\ wk[w].at \in Steps /\ Row(w) \in StepRow
         /\ Row(w).receipt = "none" /\ Row(w).status # "completed"
BY RowType DEF Open, Startable, NeedsApproval, AtStep, Gone

\* Settling or skipping a step keeps the receipts.
LEMMA WalkReceipts ==
  ASSUME Typed, Once, Receipts, NEW w \in Workers, SettleRecorded(w) \/ SkipStep(w)
  PROVE  Receipts' /\ Kept
<1>1. /\ Point(w) \notin Gone /\ wk[w].at \in Steps /\ Row(w) \in StepRow
      /\ UNCHANGED <<status, calls>>
  BY RowType DEF SettleRecorded, SkipStep, Open, AtStep, Gone, history
<1>2. CASE SettleRecorded(w)
  <2>1. PICK row \in StepRow : /\ row.receipt = "accepted" /\ SaveAndAdvance(w, row)
    <3>1. [Row(w) EXCEPT !.status = "completed"] \in StepRow
      BY <1>1 DEF StepRow, StepStatus
    <3>2. [Row(w) EXCEPT !.status = "completed"].receipt = "accepted"
      BY <1>1, <1>2 DEF SettleRecorded, StepRow
    <3>. QED BY <1>2, <3>1, <3>2 DEF SettleRecorded
  <2>. QED BY <1>1, <2>1, Advances
<1>3. CASE SkipStep(w)
  <2>1. Row(w).receipt = "none"
    BY <1>3 DEF SkipStep, Open
  <2>2. PICK row \in StepRow : row.status = "skipped" /\ SaveAndAdvance(w, row)
    <3>1. [Row(w) EXCEPT !.status = "skipped"] \in StepRow
      BY <1>1 DEF StepRow, StepStatus
    <3>. QED BY <1>1, <1>3, <3>1 DEF SkipStep, StepRow
  <2>. QED BY <1>1, <2>1, <2>2, Advances
<1>. QED BY <1>2, <1>3

\* Stopping the walk at an open step keeps the receipts.
LEMMA StopReceipts ==
  ASSUME Typed, Once, Receipts, NEW w \in Workers,
         \/ ParkUnresolved(w) \/ ParkUnprepared(w) \/ ProposeAction(w) \/ ApprovalMissing(w)
         \/ ParkUngoverned(w)
  PROVE  Receipts' /\ Kept
<1>1. /\ Point(w) \notin Gone /\ wk[w].at \in Steps /\ Row(w) \in StepRow
      /\ Row(w).receipt = "none" /\ Row(w).status # "completed"
  BY OpenRow DEF ParkUnresolved, ParkUnprepared, ProposeAction, ApprovalMissing, ParkUngoverned
<1>2. PICK outcome \in {"failed", "awaiting_approval", Row(w).status},
           target \in {"waiting_for_action", "awaiting_approval", "blocked"} :
        SaveAndPark(w, [Row(w) EXCEPT !.status = outcome], target)
  BY DEF ParkUnresolved, ParkUnprepared, ProposeAction, ApprovalMissing, ParkUngoverned
<1>. DEFINE row == [Row(w) EXCEPT !.status = outcome]
<1>3. row \in StepRow /\ row.receipt = "none" /\ row.status # "completed"
  BY <1>1 DEF StepRow, StepStatus
<1>4. UNCHANGED calls
  BY DEF ParkUnresolved, ParkUnprepared, ProposeAction, ApprovalMissing, ParkUngoverned, history
<1>. HIDE DEF row
<1>5. SaveAndPark(w, row, target) /\ target # "completed"
  BY <1>2 DEF row
<1>. QED BY <1>1, <1>3, <1>4, <1>5, ParksSaving

\* Loading and authorising the action of a write keep the receipts.
LEMMA ReviewReceipts ==
  ASSUME Typed, Once, Receipts, NEW w \in Workers, LoadApproval(w) \/ AuthorizeByStart(w)
  PROVE  Receipts' /\ Kept
<1>1. /\ Point(w) \notin Gone /\ wk[w].at \in Steps /\ Row(w) \in StepRow
      /\ Row(w).receipt = "none" /\ Row(w).status # "completed"
  BY OpenRow DEF LoadApproval, AuthorizeByStart
<1>2. UNCHANGED <<status, calls>> /\ Point(w) = "steps" /\ wk[w].pc = "steps"
  BY DEF LoadApproval, AuthorizeByStart, NeedsApproval, Open, AtStep, Point, rows, history
<1>3. StillOpen
  BY <1>2 DEF StillOpen
<1>4. CASE LoadApproval(w)
  <2>. DEFINE v == [wk[w] EXCEPT !.approval = approval[wk[w].at], !.arg = Row(w).args]
  <2>1. v.pc = "steps" /\ v.at = wk[w].at /\ v.steps = wk[w].steps
    BY <1>2, RowType DEF Session
  <2>2. Become(w, v) /\ UNCHANGED step
    BY <1>4 DEF LoadApproval, rows
  <2>. HIDE DEF v
  <2>3. Loaded(v)
    BY <1>1, <2>1, StaysLoaded DEF BeforeResult
  <2>. QED BY <1>2, <1>3, <2>2, <2>3, Stands
<1>5. CASE AuthorizeByStart(w)
  <2>1. PICK s \in Steps : s = wk[w].at
    BY <1>1
  <2>. DEFINE row == [Row(w) EXCEPT !.status = "pending"]
  <2>2. row \in StepRow /\ row.receipt = "none" /\ row.status # "completed"
    BY <1>1 DEF StepRow, StepStatus
  <2>3. PICK a \in Actions :
          /\ step' = [step EXCEPT ![s] = Merge(@, Row(w), row)]
          /\ Become(w, [wk[w] EXCEPT !.steps[s].status = "pending", !.arg = a,
                          !.approval = [status |-> "approved", ready |-> TRUE, args |-> a]])
    BY <1>5, <2>1 DEF AuthorizeByStart
  <2>. DEFINE v == [wk[w] EXCEPT !.steps[s].status = "pending", !.arg = a,
                          !.approval = [status |-> "approved", ready |-> TRUE, args |-> a]]
  <2>4. v.pc = "steps" /\ v.steps = [wk[w].steps EXCEPT ![s] = row]
    BY <1>2, <2>1, RowType DEF Session, Row
  <2>. HIDE DEF v, row
  <2>5. Become(w, v) /\ step' = [step EXCEPT ![s] = Merge(@, wk[w].steps[s], row)]
    BY <2>1, <2>3 DEF v, Row
  <2>. QED BY <1>1, <1>2, <1>3, <2>1, <2>2, <2>4, <2>5, Saves DEF Row, BeforeResult
<1>. QED BY <1>4, <1>5

\* A step starts when the results it depends on are accepted.
LEMMA StartReceipts ==
  ASSUME Typed, Once, Receipts, NEW w \in Workers, StartStep(w)
  PROVE  Receipts' /\ Kept
<1>1. /\ Point(w) \notin Gone /\ wk[w].at \in Steps /\ Row(w) \in StepRow
      /\ Row(w).receipt = "none" /\ Row(w).status # "completed"
  BY OpenRow DEF StartStep
<1>2. PICK s \in Steps : s = wk[w].at
  BY <1>1
<1>3. \A d \in Deps[s] : step[d].receipt = "accepted"
  <2>1. \A d \in Deps[s] : wk[w].steps[d].status = "completed"
    BY <1>2 DEF StartStep, Startable, Met
  <2>. QED BY <1>1, <2>1, DepsAreSteps DEF Receipts, Loaded, Point
<1>. DEFINE row == [Row(w) EXCEPT !.status = "running"]
            arg == IF wk[w].approval = Unread THEN row.args ELSE wk[w].arg
            v == [wk[w] EXCEPT !.pc = "call", !.steps[s] = row, !.arg = arg]
<1>4. row \in StepRow /\ row.receipt = "none" /\ row.status # "completed"
  BY <1>1 DEF StepRow, StepStatus
<1>5. v.pc = "call" /\ v.at = s /\ v.steps = [wk[w].steps EXCEPT ![s] = row]
  <2>. HIDE DEF arg
  <2>. QED BY <1>2, RowType DEF Session
<1>6. Become(w, v) /\ step' = [step EXCEPT ![s] = Merge(@, wk[w].steps[s], row)]
  BY <1>2, RowType DEF StartStep, Row, Session
<1>7. StillOpen /\ UNCHANGED calls
  BY DEF StartStep, StillOpen, history
<1>. HIDE DEF v, row
<1>8. wk[w].steps[s].receipt = "none" /\ v.pc # "review"
  BY <1>1, <1>2, <1>5 DEF Row
<1>. QED BY <1>1, <1>3, <1>4, <1>5, <1>6, <1>7, <1>8, Saves

\* The call itself is the only step that counts one, and it comes before any
\* receipt of its step and after those it depends on.
LEMMA CallReceipts ==
  ASSUME Typed, Once, Receipts, NEW w \in Workers, CallProvider(w)
  PROVE  Receipts' /\ Kept
<1>1. PICK s \in Steps : s = wk[w].at
  BY DEF CallProvider, Point, CallPoints, Typed, WorkerTyped
<1>2. /\ calls' = [calls EXCEPT ![s] = @ + 1] /\ UNCHANGED <<status, step>>
      /\ Point(w) = "marked"
  BY <1>1 DEF CallProvider, rows
<1>3. PICK v : /\ Become(w, v) /\ v.pc = "sent"
               /\ v.at = wk[w].at /\ v.steps = wk[w].steps
  <2>. DEFINE v == [wk[w] EXCEPT !.pc = "sent"]
  <2>1. v.pc = "sent" /\ v.at = wk[w].at /\ v.steps = wk[w].steps
    BY RowType DEF Session
  <2>2. Become(w, v)
    BY DEF CallProvider, Goto
  <2>. HIDE DEF v
  <2>. QED BY <2>1, <2>2
<1>4. Loaded(v)
  BY <1>2, <1>3, StaysLoaded DEF BeforeResult, Gone
<1>5. Loaded(v)'
  BY <1>2, <1>4 DEF Loaded
<1>6. step[s].receipt = "none" /\ \A d \in Deps[s] : step[d].receipt = "accepted"
  BY <1>1, <1>2 DEF Receipts, Loaded, Point, BeforeResult, Gone
<1>7. \A r \in Steps : r # s => calls'[r] = calls[r]
  BY <1>2 DEF Typed, TypeOK
<1>8. Kept
  BY <1>2, <1>6, <1>7 DEF Kept
<1>9. StillOpen /\ Point(w) # "idle"
  BY <1>2 DEF StillOpen
<1>10. \A r \in Steps : calls'[r] > 0 =>
         calls[r] > 0 \/ \A d \in Deps[r] : step[d].receipt = "accepted"
  BY <1>6, <1>7
<1>11. /\ \A r \in Steps : step'[r].status = "completed" => step'[r].receipt = "accepted"
       /\ \A r \in Steps : step[r].receipt = "accepted" => step'[r].receipt = "accepted"
  BY <1>2 DEF Receipts
<1>. QED BY <1>2, <1>3, <1>5, <1>8, <1>9, <1>10, <1>11, OwnerReceipts

\* The rest of the way to the call, and of its failures, saves no row.
LEMMA AttemptReceipts ==
  ASSUME Typed, Once, Receipts, NEW w \in Workers,
         \/ AdmitCall(w) \/ RefuseCall(w) \/ RefreshCancellation(w) \/ InsertAttempt(w)
         \/ MarkDispatched(w) \/ FailAttempt(w)
  PROVE  Receipts' /\ Kept
<1>1. /\ Point(w) \in BeforeResult /\ Point(w) \notin Gone
      /\ UNCHANGED <<status, step, calls>>
  BY DEF AdmitCall, RefuseCall, RefreshCancellation, InsertAttempt, MarkDispatched, FailAttempt,
         BeforeResult, Gone, rows, history
<1>2. PICK v : /\ Become(w, v) /\ v.at = wk[w].at /\ v.steps = wk[w].steps
               /\ v.pc \in BeforeResult \cup {"error"}
  <2>1. CASE AdmitCall(w)
    <3>. DEFINE s == wk[w].at
                left == Budget(s) - Spent(s)
                next == Len(ledger[s]) + 1
                v == [wk[w] EXCEPT !.pc = "attempt", !.left = left, !.number = next]
    <3>1. v.pc = "attempt" /\ v.at = wk[w].at /\ v.steps = wk[w].steps
      <4>. HIDE DEF left, next
      <4>. QED BY RowType DEF Session
    <3>2. Become(w, v)
      BY <2>1 DEF AdmitCall
    <3>. HIDE DEF v
    <3>. QED BY <3>1, <3>2 DEF BeforeResult
  <2>2. CASE RefreshCancellation(w)
    <3>. DEFINE point == IF cancelReq THEN "error" ELSE "insert"
                v == [wk[w] EXCEPT !.cancel = cancelReq, !.pc = point]
    <3>1. v.pc = point /\ v.at = wk[w].at /\ v.steps = wk[w].steps
      BY RowType DEF Session
    <3>2. Become(w, v)
      BY <2>2 DEF RefreshCancellation
    <3>. HIDE DEF v
    <3>. QED BY <3>1, <3>2 DEF BeforeResult
  <2>3. CASE InsertAttempt(w)
    <3>. DEFINE left == wk[w].left - 1
                v == [wk[w] EXCEPT !.pc = "inserted", !.left = left]
    <3>1. v.pc = "inserted" /\ v.at = wk[w].at /\ v.steps = wk[w].steps
      <4>. HIDE DEF left
      <4>. QED BY RowType DEF Session
    <3>2. Become(w, v)
      BY <2>3 DEF InsertAttempt
    <3>. HIDE DEF v
    <3>. QED BY <3>1, <3>2 DEF BeforeResult
  <2>4. CASE MarkDispatched(w) \/ RefuseCall(w)
    <3>1. PICK point \in {"marked", "error"} : Become(w, [wk[w] EXCEPT !.pc = point])
      BY <2>4 DEF MarkDispatched, RefuseCall, Goto
    <3>. DEFINE v == [wk[w] EXCEPT !.pc = point]
    <3>2. v.pc = point /\ v.at = wk[w].at /\ v.steps = wk[w].steps
      BY RowType DEF Session
    <3>. HIDE DEF v
    <3>3. Become(w, v)
      BY <3>1 DEF v
    <3>. QED BY <3>2, <3>3 DEF BeforeResult
  <2>5. CASE FailAttempt(w)
    <3>. DEFINE next == wk[w].number + 1
                retry == [wk[w] EXCEPT !.pc = "attempt", !.number = next]
                stop == At(w, "error", wk[w].at, wk[w].steps)
    <3>1. Become(w, retry) \/ Become(w, stop)
      BY <2>5 DEF FailAttempt
    <3>2. retry.pc = "attempt" /\ retry.at = wk[w].at /\ retry.steps = wk[w].steps
      <4>. HIDE DEF next
      <4>. QED BY RowType DEF Session
    <3>3. stop.pc = "error" /\ stop.at = wk[w].at /\ stop.steps = wk[w].steps
      BY AtFields
    <3>. HIDE DEF retry, stop
    <3>. QED BY <3>1, <3>2, <3>3 DEF BeforeResult
  <2>. QED BY <2>1, <2>2, <2>3, <2>4, <2>5
<1>3. Loaded(v)
  BY <1>1, <1>2, StaysLoaded DEF BeforeResult
<1>4. StillOpen /\ Point(w) # "idle"
  BY <1>1 DEF StillOpen, Gone
<1>. QED BY <1>1, <1>2, <1>3, <1>4, Stands

\* The receipt of a call, or of a reconciled write, is the first of its step.
LEMMA AnswerReceipts ==
  ASSUME Typed, Once, Receipts, NEW w \in Workers, CallSucceeds(w) \/ ReconcileWrite(w)
  PROVE  Receipts' /\ Kept
<1>1. /\ Point(w) \in BeforeResult /\ Point(w) \notin Gone /\ wk[w].at \in Steps
      /\ Row(w) \in StepRow /\ UNCHANGED <<status, calls>>
      /\ SaveStep(w, [Row(w) EXCEPT !.receipt = "review"], "review")
  BY RowType DEF CallSucceeds, ReconcileWrite, BeforeResult, Gone, Point, CallPoints, Typed,
                 WorkerTyped, history
<1>2. PICK s \in Steps : s = wk[w].at
  BY <1>1
<1>3. Row(w).receipt = "none" /\ Row(w).status # "completed"
  BY <1>1 DEF Receipts, Loaded, Point, Row
<1>. DEFINE row == [Row(w) EXCEPT !.receipt = "review"]
            seen == [wk[w].steps EXCEPT ![s] = row]
            v == At(w, "review", s, seen)
<1>4. row \in StepRow /\ row.receipt = "review" /\ row.status # "completed"
  BY <1>1, <1>3 DEF StepRow, Receipt
<1>5. v.pc = "review" /\ v.at = s /\ v.steps = seen
  BY AtFields
<1>6. Become(w, v) /\ step' = [step EXCEPT ![s] = Merge(@, wk[w].steps[s], row)]
  BY <1>1, <1>2 DEF SaveStep, Row
<1>7. StillOpen
  BY <1>1 DEF StillOpen
<1>. HIDE DEF v, row
<1>8. wk[w].steps[s].receipt = "none" /\ v.pc \notin BeforeResult
  BY <1>2, <1>3, <1>5 DEF Row, BeforeResult
<1>. QED BY <1>1, <1>4, <1>5, <1>6, <1>7, <1>8, Saves

\* A receipt under review is accepted or stays; no review takes one back.
LEMMA ResultReceipts ==
  ASSUME Typed, Once, Receipts, NEW w \in Workers,
         AcceptResult(w) \/ DeferReview(w) \/ RejectResult(w)
  PROVE  Receipts' /\ Kept
<1>1. /\ Point(w) \notin Gone /\ wk[w].at \in Steps /\ Row(w) \in StepRow
      /\ UNCHANGED calls /\ Reviewing(w)
  BY RowType DEF AcceptResult, DeferReview, RejectResult, Reviewing, AtStep, Point, CallPoints,
                 Typed, WorkerTyped, Gone, history
<1>2. Row(w).receipt = "review" /\ Row(w).status # "completed"
  BY <1>1 DEF Receipts, Loaded, Point, Row, Reviewing
<1>3. CASE AcceptResult(w)
  <2>. DEFINE row == [Row(w) EXCEPT !.status = "completed", !.receipt = "accepted"]
  <2>1. row \in StepRow /\ row.receipt = "accepted"
    BY <1>1 DEF StepRow, StepStatus, Receipt
  <2>2. SaveAndAdvance(w, row) /\ UNCHANGED status
    BY <1>3 DEF AcceptResult
  <2>. HIDE DEF row
  <2>. QED BY <1>1, <2>1, <2>2, Advances
<1>4. CASE DeferReview(w)
  <2>1. PICK outcome \in {"running", Row(w).status} :
          SaveAndPark(w, [Row(w) EXCEPT !.status = outcome], "running")
    BY <1>4 DEF DeferReview
  <2>. DEFINE row == [Row(w) EXCEPT !.status = outcome]
  <2>2. row \in StepRow /\ row.receipt = "review" /\ row.status # "completed"
    BY <1>1, <1>2 DEF StepRow, StepStatus
  <2>. HIDE DEF row
  <2>3. SaveAndPark(w, row, "running")
    BY <2>1 DEF row
  <2>. QED BY <1>1, <1>2, <2>2, <2>3, ParksSaving
<1>5. CASE RejectResult(w)
  <2>1. PICK r \in {"review", "accepted"} :
          SaveAndPark(w, [Row(w) EXCEPT !.status = "failed", !.receipt = r],
                      "waiting_for_action")
    BY <1>5 DEF RejectResult
  <2>. DEFINE row == [Row(w) EXCEPT !.status = "failed", !.receipt = r]
  <2>2. row \in StepRow /\ row.receipt = r /\ row.status = "failed"
    BY <1>1 DEF StepRow, StepStatus, Receipt
  <2>. HIDE DEF row
  <2>3. SaveAndPark(w, row, "waiting_for_action")
    BY <2>1 DEF row
  <2>. QED BY <1>1, <1>2, <2>2, <2>3, ParksSaving
<1>. QED BY <1>3, <1>4, <1>5

\* So does a call that is given up.
LEMMA GiveUpReceipts ==
  ASSUME Typed, Once, Receipts, NEW w \in Workers, GiveUpCall(w)
  PROVE  Receipts' /\ Kept
<1>. DEFINE row == [Row(w) EXCEPT !.status = "failed"]
            target == IF wk[w].cancel THEN "cancelled" ELSE "waiting_for_action"
<1>1. /\ Point(w) \notin Gone /\ wk[w].at \in Steps /\ Row(w) \in StepRow
      /\ UNCHANGED calls /\ SaveAndPark(w, row, target)
  BY RowType DEF GiveUpCall, Point, CallPoints, Typed, WorkerTyped, Gone, history
<1>2. row \in StepRow /\ row.receipt = Row(w).receipt /\ row.status = "failed"
  BY <1>1 DEF StepRow, StepStatus
<1>3. target # "completed"
  OBVIOUS
<1>. HIDE DEF row, target
<1>. QED BY <1>1, <1>2, <1>3, ParksSaving

\* The recovery that ends a delivery, and its other ends, keep the receipts.
LEMMA EndReceipts ==
  ASSUME Typed, Once, Receipts, NEW w \in Workers,
         \/ Begin(w) \/ ReadRecovery(w) \/ HandOff(w) \/ Crash(w) \/ CollideAttempt(w)
  PROVE  Receipts' /\ Kept
<1>1. UNCHANGED <<step, calls>> /\ (Point(w) # "idle" \/ holder = NoWorker)
  BY DEF Begin, ReadRecovery, HandOff, Crash, CollideAttempt, rows, history
<1>2. StillOpen
  <2>1. CASE HandOff(w)
    <3>1. PICK target \in {"waiting_for_action", wk[w].status} :
            status' = StoreStatus(status, wk[w].status, target)
      BY <2>1 DEF HandOff
    <3>. QED BY <3>1, StoredOpen
  <2>2. CASE ~HandOff(w)
    BY <2>2 DEF Begin, ReadRecovery, Crash, CollideAttempt, rows, StillOpen
  <2>. QED BY <2>1, <2>2
<1>3. CASE Release(w)
  BY <1>1, <1>2, <1>3, GoneLoaded, Stands DEF Release
<1>4. CASE ~Release(w)
  <2>1. PICK point \in {"loaded", "recovering"} :
          Become(w, [Blank EXCEPT !.pc = point, !.status = status, !.cancel = cancelReq,
                                  !.steps = step])
    BY <1>4 DEF Begin, ReadRecovery, HandOff, Crash, CollideAttempt
  <2>. DEFINE v == [Blank EXCEPT !.pc = point, !.status = status, !.cancel = cancelReq,
                                 !.steps = step]
  <2>2. v.pc = point /\ v.steps = step
    BY DEF Blank
  <2>. HIDE DEF v
  <2>3. Loaded(v)
    BY <2>2 DEF Loaded, Receipts, BeforeResult
  <2>4. Become(w, v)
    BY <2>1 DEF v
  <2>. QED BY <1>1, <1>2, <2>3, <2>4, Stands
<1>. QED BY <1>3, <1>4

\* A recovery reopens a step and leaves its receipt alone.
LEMMA RecoveryReceipts ==
  ASSUME Typed, Once, Receipts, NEW w \in Workers, ScheduleRecovery(w)
  PROVE  Receipts' /\ Kept
<1>1. PICK s \in Steps, target \in {"awaiting_approval", "pending"} :
        step' = [step EXCEPT ![s] = Merge(@, wk[w].steps[s],
                                          [wk[w].steps[s] EXCEPT !.status = target])]
  BY DEF ScheduleRecovery
<1>. DEFINE row == [wk[w].steps[s] EXCEPT !.status = target]
<1>2. row \in StepRow /\ row.receipt = wk[w].steps[s].receipt /\ row.status # "completed"
  BY RowType DEF StepRow, StepStatus
<1>3. step' = [step EXCEPT ![s] = Merge(@, wk[w].steps[s], row)]
  BY <1>1
<1>. HIDE DEF row
<1>4. Become(w, Blank) /\ Point(w) \notin Gone /\ UNCHANGED calls
  BY DEF ScheduleRecovery, Release, Gone, history
<1>5. StillOpen
  <2>1. status' = StoreStatus(status, wk[w].status, "recovering")
    BY DEF ScheduleRecovery
  <2>. QED BY <2>1, StoredOpen
<1>. QED BY <1>2, <1>3, <1>4, <1>5, GoneLoaded, Saves

\* Whoever leaves the sessions and the calls alone, and every receipt, and
\* completes nothing, keeps the receipts.
LEMMA ReceiptsFrame ==
  ASSUME Typed, Receipts, UNCHANGED <<wk, calls>>, status' = "completed" => status = "completed",
         \A s \in Steps : step'[s].receipt = step[s].receipt,
         \A s \in Steps : step'[s].status = "completed" => step[s].status = "completed"
  PROVE  Receipts' /\ Kept
<1>1. DependenciesFirst' /\ CompletedIsComplete'
  BY DepsAreSteps DEF Receipts, DependenciesFirst, CompletedIsComplete
<1>2. ASSUME NEW u \in Workers PROVE Loaded(wk[u])'
  <2>. SUFFICES ASSUME wk[u].pc \notin Gone PROVE Loaded(wk[u])'
    BY DEF Loaded
  <2>1. wk[u].pc \in BeforeResult \cup {"review"} => wk[u].at \in Steps
    BY DEF BeforeResult, CallPoints, Typed, WorkerTyped
  <2>. QED BY <2>1, DepsAreSteps DEF Receipts, Loaded
<1>3. Kept
  BY DEF Kept
<1>. QED BY <1>1, <1>2, <1>3 DEF Receipts

\* What an API request does to the rows of the steps: no receipt is added or
\* taken back, no step completed, and only an approval brings arguments.
LEMMA RequestRows ==
  ASSUME Typed, NEW c \in Clients, Ask(c)
  PROVE  /\ \A r \in Steps : step'[r].receipt = step[r].receipt
         /\ \A r \in Steps : step'[r].status = "completed" => step[r].status = "completed"
         /\ ~WriteApproval(c) => \A r \in Steps : step'[r].args = step[r].args
<1>1. CASE UNCHANGED step
  BY <1>1
<1>2. CASE step' # step
  <2>1. WriteRetry(c) \/ WriteSkip(c) \/ WriteApproval(c) \/ WriteRejection(c)
    BY <1>2 DEF Ask, ReadCancel, ReadAbandon, ReadRetry, ReadRecheck, ReadSkip, ReadDecision,
                LoadRun, LoadStep, Load, WriteCancel, WriteAbandon, WriteRecheck,
                RefuseDecision, rows
  <2>2. PICK s \in Steps, row \in StepRow : s = req[c].step /\ row = req[c].row
    BY <2>1, AskedTyped DEF WriteRetry, WriteSkip, WriteApproval, WriteRejection
  <2>7. req[c].arg \in Actions /\ row.args \in Actions
    BY <2>1, <2>2, AskedTyped DEF WriteRetry, WriteSkip, WriteApproval, WriteRejection, StepRow
  <2>3. PICK target \in {"awaiting_approval", "pending", "skipped"}, args \in Actions :
          /\ step' = [step EXCEPT ![s] =
                        Merge(@, row, [row EXCEPT !.status = target, !.args = args])]
          /\ ~WriteApproval(c) => args = row.args
    <3>1. CASE WriteApproval(c)
      BY <2>2, <2>7, <3>1 DEF WriteApproval
    <3>2. CASE WriteRetry(c) \/ WriteSkip(c) \/ WriteRejection(c)
      <4>1. PICK target \in {"awaiting_approval", "pending", "skipped"} :
              step' = [step EXCEPT ![s] = Merge(@, row, [row EXCEPT !.status = target])]
        BY <2>2, <3>2 DEF WriteRetry, WriteSkip, WriteRejection
      <4>2. [row EXCEPT !.status = target]
              = [row EXCEPT !.status = target, !.args = row.args]
        BY <2>2 DEF StepRow
      <4>. QED BY <2>7, <4>1, <4>2
    <3>. QED BY <2>1, <3>1, <3>2
  <2>. DEFINE new == [row EXCEPT !.status = target, !.args = args]
  <2>4. new.receipt = row.receipt /\ new.status # "completed" /\ new.args = args
    BY <2>2 DEF StepRow
  <2>5. step' = [step EXCEPT ![s] = Merge(@, row, new)]
    BY <2>3
  <2>. HIDE DEF new
  <2>6. \A r \in Steps : step'[r] = IF r = s THEN Merge(step[s], row, new) ELSE step[r]
    BY <2>5 DEF Typed, TypeOK
  <2>. QED BY <2>3, <2>4, <2>6 DEF Merge
<1>. QED BY <1>1, <1>2

\* No API request disturbs the receipts.
LEMMA RequestReceipts ==
  ASSUME Typed, Receipts, NEW c \in Clients, Ask(c)
  PROVE  Receipts' /\ Kept
<1>1. UNCHANGED <<wk, calls>>
  BY DEF Ask, ReadCancel, ReadAbandon, ReadRetry, ReadRecheck, ReadSkip, ReadDecision, LoadRun,
         LoadStep, Load, WriteCancel, WriteAbandon, WriteRetry, WriteRecheck, WriteSkip,
         WriteApproval, WriteRejection, RefuseDecision, history
<1>2. status' = "completed" => status = "completed"
  BY DEF Ask, ReadCancel, ReadAbandon, ReadRetry, ReadRecheck, ReadSkip, ReadDecision, LoadRun,
         LoadStep, Load, WriteCancel, WriteAbandon, WriteRetry, WriteRecheck, WriteSkip,
         WriteApproval, WriteRejection, RefuseDecision, rows, StoreStatus
<1>. QED BY <1>1, <1>2, RequestRows, ReceiptsFrame

\* Receipts holds of the approved plan.
LEMMA InitReceipts == Init => Receipts
<1>. SUFFICES ASSUME Init PROVE Receipts
  OBVIOUS
<1>1. \A w \in Workers : Loaded(wk[w])
  BY GoneLoaded DEF Init
<1>2. \A s \in Steps : step[s].status # "completed"
  BY DEF Init, PlannedRow
<1>. QED BY <1>1, <1>2 DEF Init, Receipts, DependenciesFirst, CompletedIsComplete

\* Receipts is kept by every step, as long as the lock is reliable.
LEMMA StepReceipts ==
  ASSUME LockMayDrop = FALSE
  PROVE  Typed /\ Once /\ Receipts /\ [Next]_vars => Receipts' /\ Kept
<1>. SUFFICES ASSUME Typed, Once, Receipts, [Next]_vars PROVE Receipts' /\ Kept
  OBVIOUS
<1>1. ASSUME NEW w \in Workers, Work(w) PROVE Receipts' /\ Kept
  BY <1>1, EndingReceipts, WalkReceipts, StopReceipts, ReviewReceipts, StartReceipts,
     CallReceipts, AttemptReceipts, AnswerReceipts, ResultReceipts, GiveUpReceipts, EndReceipts,
     RecoveryReceipts DEF Work, DropLock
<1>2. ASSUME NEW c \in Clients, Ask(c) PROVE Receipts' /\ Kept
  BY <1>2, RequestReceipts
<1>3. CASE RecoverStale
  BY <1>3, ReceiptsFrame DEF RecoverStale, history
<1>4. CASE UNCHANGED vars
  BY <1>4, ReceiptsFrame DEF vars
<1>. QED BY <1>1, <1>2, <1>3, <1>4 DEF Next

\* Typed, Once and Receipts together are inductive.
LEMMA ReceiptsInvariance ==
  ASSUME LockMayDrop = FALSE
  PROVE  Spec => [](Typed /\ Once /\ Receipts)
<1>1. Init => Receipts
  BY InitReceipts
<1>2. Typed /\ Once /\ Receipts /\ [Next]_vars => Receipts'
  BY StepReceipts
<1>. QED BY <1>1, <1>2, Invariance, PTL DEF Spec

\* While the lock's connection lives, every reachable state is well formed, and no
\* provider is called for a step before the results of all the steps it depends on
\* are recorded and accepted (orchestrator.py, the dependency test of _execute_run).
THEOREM DependenciesComeFirst ==
  ASSUME LockMayDrop = FALSE
  PROVE  Spec => []StepsInOrder
<1>1. Typed /\ Receipts => StepsInOrder
  BY DEF Receipts, Typed, StepsInOrder
<1>. QED BY <1>1, ReceiptsInvariance, PTL

\* Under the same condition a run that is completed has an accepted result of
\* every required step, whatever requests raced its last delivery.
THEOREM CompletedRunIsComplete ==
  ASSUME LockMayDrop = FALSE
  PROVE  Spec => []CompletedIsComplete
<1>1. Receipts => CompletedIsComplete
  BY DEF Receipts
<1>. QED BY <1>1, ReceiptsInvariance, PTL

\* Under the same condition a recorded provider result is never dropped, and
\* its step never calls the provider again.
THEOREM ReceiptsStay ==
  ASSUME LockMayDrop = FALSE
  PROVE  Spec => ReceiptIsFinal
<1>1. Typed /\ Once /\ Receipts /\ [Next]_vars
        => [\A s \in Steps : step[s].receipt # "none" =>
              step'[s].receipt # "none" /\ calls'[s] = calls[s]]_vars
  BY StepReceipts DEF Kept
<1>. QED BY <1>1, ReceiptsInvariance, PTL DEF Spec, ReceiptIsFinal
-------------------------------------------------------------------------------
\* The budget of a read: what is spent and what a session has left

Cycle(s) == Dispatched(s) \ aside[s]

\* The attempts left to a session in the call of a read fit what is spent.  An
\* attempt that is on record and not yet marked is neither left nor spent.
Within(v) ==
  v.at \in Steps \ Writes =>
    /\ v.pc \in {"attempt", "insert", "marked", "sent"} =>
         Cardinality(Cycle(v.at)) + v.left <= ReadBudget
    /\ v.pc = "inserted" => Cardinality(Cycle(v.at)) + v.left + 1 <= ReadBudget

Budgets == ReadsStayInBudget /\ \A w \in Workers : Within(wk[w])

\* Cycles are finite.
LEMMA CycleFinite ==
  ASSUME Typed, NEW s \in Steps
  PROVE  IsFiniteSet(Cycle(s)) /\ Cardinality(Cycle(s)) \in Nat
<1>1. Len(ledger[s]) \in Nat
  BY LenProperties DEF Typed, TypeOK
<1>2. IsFiniteSet(1..Len(ledger[s]))
  BY <1>1, FS_Interval
<1>3. Cycle(s) \subseteq 1..Len(ledger[s])
  BY DEF Cycle, Dispatched
<1>. QED BY <1>2, <1>3, FS_Subset, FS_CardinalityType

\* A cycle that gains nothing, or one attempt, counts no more than that.
LEMMA CycleGrows ==
  ASSUME Typed, NEW s \in Steps, NEW n, Cycle(s)' \subseteq Cycle(s) \cup {n}
  PROVE  /\ Cardinality(Cycle(s)') \in Nat
         /\ Cardinality(Cycle(s)') <= Cardinality(Cycle(s)) + 1
         /\ Cycle(s)' \subseteq Cycle(s) => Cardinality(Cycle(s)') <= Cardinality(Cycle(s))
<1>1. /\ IsFiniteSet(Cycle(s)) /\ IsFiniteSet(Cycle(s) \cup {n})
      /\ Cardinality(Cycle(s)) \in Nat
      /\ Cardinality(Cycle(s) \cup {n}) <= Cardinality(Cycle(s)) + 1
  <2>1. IsFiniteSet(Cycle(s)) /\ Cardinality(Cycle(s)) \in Nat
    BY CycleFinite
  <2>2. /\ IsFiniteSet(Cycle(s) \cup {n})
        /\ Cardinality(Cycle(s) \cup {n})
             = IF n \in Cycle(s) THEN Cardinality(Cycle(s)) ELSE Cardinality(Cycle(s)) + 1
    BY <2>1, FS_AddElement
  <2>. QED BY <2>1, <2>2
<1>2. /\ IsFiniteSet(Cycle(s)')
      /\ Cardinality(Cycle(s)') <= Cardinality(Cycle(s) \cup {n})
  BY <1>1, FS_Subset
<1>3. Cardinality(Cycle(s)') \in Nat /\ Cardinality(Cycle(s) \cup {n}) \in Nat
  BY <1>1, <1>2, FS_CardinalityType
<1>4. Cycle(s)' \subseteq Cycle(s) => Cardinality(Cycle(s)') <= Cardinality(Cycle(s))
  BY <1>1, FS_Subset
<1>. QED BY <1>1, <1>2, <1>3, <1>4

LEMMA CycleKept ==
  ASSUME Typed, NEW s \in Steps, Cycle(s)' \subseteq Cycle(s)
  PROVE  /\ Cardinality(Cycle(s)') \in Nat /\ Cardinality(Cycle(s)) \in Nat
         /\ Cardinality(Cycle(s)') <= Cardinality(Cycle(s))
BY CycleFinite, CycleGrows

\* What a step of the owner does to the budgets.
LEMMA OwnerBudgets ==
  ASSUME Typed, Once, Budgets, NEW w \in Workers, NEW v, Become(w, v),
         Point(w) # "idle" \/ holder = NoWorker,
         \A s \in Steps \ Writes : Cardinality(Cycle(s)') <= ReadBudget,
         Within(v)'
  PROVE  Budgets'
<1>1. /\ wk'[w] = v /\ \A u \in Workers : u # w => wk'[u] = wk[u] /\ wk[u].pc = "idle"
  BY Alone DEF Become, Typed, TypeOK, Point
<1>2. ASSUME NEW u \in Workers, u # w PROVE Within(wk[u])'
  BY <1>1, <1>2 DEF Within
<1>3. Within(wk[w])'
  BY <1>1 DEF Within
<1>4. ReadsStayInBudget'
  BY DEF ReadsStayInBudget, Cycle
<1>. QED BY <1>2, <1>3, <1>4 DEF Budgets

\* Cycles that only shrink keep the budgets.
LEMMA ShrinkingBudgets ==
  ASSUME Typed, Budgets, \A s \in Steps : Cycle(s)' \subseteq Cycle(s)
  PROVE  \A s \in Steps \ Writes : Cardinality(Cycle(s)') <= ReadBudget
<1>1. \A s \in Steps \ Writes : Cardinality(Cycle(s)) <= ReadBudget
  BY DEF Budgets, ReadsStayInBudget, Cycle
<1>. QED BY <1>1, CycleKept, StepAssumption

\* A recovery, automatic or asked for, opens a new cycle and adds nothing to it.
LEMMA NewCycle ==
  ASSUME Typed, UNCHANGED ledger,
         aside' = aside \/ \E s \in Steps : aside' = [aside EXCEPT ![s] = Dispatched(s)]
  PROVE  \A r \in Steps : Cycle(r)' \subseteq Cycle(r)
<1>1. \A r \in Steps : Dispatched(r)' = Dispatched(r)
  BY DEF Dispatched
<1>2. \A r \in Steps : aside'[r] = aside[r] \/ aside'[r] = Dispatched(r)
  BY DEF Typed, TypeOK
<1>. QED BY <1>1, <1>2 DEF Cycle

\* A worker apart from the call opens no cycle, or a new one.
LEMMA ApartBudgets ==
  ASSUME Typed, Once, Budgets, NEW w \in Workers, Apart(w) PROVE Budgets'
<1>1. PICK v : Become(w, v) /\ v.pc \notin InCall
  BY ApartRests DEF Rests
<1>2. aside' = aside \/ \E s \in Steps : aside' = [aside EXCEPT ![s] = Dispatched(s)]
  BY ApartRests DEF ScheduleRecovery
<1>3. \A s \in Steps : Cycle(s)' \subseteq Cycle(s)
  BY <1>2, ApartRests, NewCycle
<1>4. Within(v)'
  BY <1>1 DEF Within, InCall
<1>5. Point(w) # "idle" \/ holder = NoWorker
  BY ApartRests DEF Begin
<1>. QED BY <1>1, <1>3, <1>4, <1>5, ShrinkingBudgets, OwnerBudgets

\* A step inside the call of s, whose cycle the session knows.
LEMMA CallBudgets ==
  ASSUME Typed, Once, Budgets, NEW w \in Workers, Point(w) # "idle",
         NEW s \in Steps, s = wk[w].at, NEW v, Become(w, v), v.at = s,
         \A r \in Steps : r # s => Cycle(r)' \subseteq Cycle(r),
         s \notin Writes => Within(v)' /\ Cardinality(Cycle(s)') <= ReadBudget
  PROVE  Budgets'
<1>1. Within(v)'
  BY DEF Within
<1>2. \A r \in Steps \ Writes : Cardinality(Cycle(r)') <= ReadBudget
  <2>1. \A r \in Steps \ Writes : Cardinality(Cycle(r)) <= ReadBudget
    BY DEF Budgets, ReadsStayInBudget, Cycle
  <2>2. ASSUME NEW r \in Steps \ Writes, r # s PROVE Cardinality(Cycle(r)') <= ReadBudget
    BY <2>1, <2>2, CycleKept, StepAssumption
  <2>. QED BY <2>2
<1>. QED BY <1>1, <1>2, OwnerBudgets

\* A session in a call stands at a step and knows what it has left.
LEMMA InBudget ==
  ASSUME Typed, Budgets, NEW w \in Workers, Point(w) \in CallPoints
  PROVE  /\ wk[w].at \in Steps /\ wk[w].left \in Nat
         /\ Cardinality(Cycle(wk[w].at)) \in Nat
         /\ wk[w].at \notin Writes =>
              /\ Cardinality(Cycle(wk[w].at)) <= ReadBudget
              /\ Point(w) \in {"attempt", "insert", "marked", "sent"} =>
                   Cardinality(Cycle(wk[w].at)) + wk[w].left <= ReadBudget
              /\ Point(w) = "inserted" =>
                   Cardinality(Cycle(wk[w].at)) + wk[w].left + 1 <= ReadBudget
<1>1. wk[w].at \in Steps /\ wk[w].left \in Nat
  BY DEF Typed, WorkerTyped, Point, TypeOK, Session
<1>2. Cardinality(Cycle(wk[w].at)) \in Nat
  BY <1>1, CycleFinite
<1>3. \A s \in Steps \ Writes : Cardinality(Cycle(s)) <= ReadBudget
  BY DEF Budgets, ReadsStayInBudget, Cycle
<1>4. Within(wk[w])
  BY DEF Budgets
<1>. QED BY <1>1, <1>2, <1>3, <1>4 DEF Within, Point

\* A session that stays in the call with what it has left, and whose cycle
\* gains nothing.
LEMMA StayBudgets ==
  ASSUME Typed, Once, Budgets, NEW w \in Workers, Point(w) \in CallPoints, Point(w) # "idle",
         NEW v, Become(w, v), v.at = wk[w].at,
         \A r \in Steps : Cycle(r)' \subseteq Cycle(r),
         v.at \notin Writes =>
           /\ v.pc \in {"attempt", "insert", "marked", "sent"} =>
                Cardinality(Cycle(wk[w].at)) + v.left <= ReadBudget
           /\ v.pc = "inserted" => Cardinality(Cycle(wk[w].at)) + v.left + 1 <= ReadBudget,
         v.left \in Nat
  PROVE  Budgets'
<1>1. PICK s \in Steps : s = wk[w].at
  BY InBudget
<1>2. /\ Cardinality(Cycle(s)') \in Nat /\ Cardinality(Cycle(s)) \in Nat
      /\ Cardinality(Cycle(s)') <= Cardinality(Cycle(s))
  BY CycleKept
<1>3. s \notin Writes => Cardinality(Cycle(s)) <= ReadBudget
  BY <1>1, InBudget
<1>4. s \notin Writes => Cardinality(Cycle(s)') <= ReadBudget
  BY <1>2, <1>3, StepAssumption
<1>5. s \notin Writes =>
        /\ v.pc \in {"attempt", "insert", "marked", "sent"} =>
             Cardinality(Cycle(s)') + v.left <= ReadBudget
        /\ v.pc = "inserted" => Cardinality(Cycle(s)') + v.left + 1 <= ReadBudget
  BY <1>1, <1>2, StepAssumption
<1>6. v.at = s
  BY <1>1
<1>7. s \notin Writes => Within(v)'
  BY <1>5, <1>6 DEF Within
<1>. QED BY <1>1, <1>4, <1>6, <1>7, CallBudgets

\* A read is admitted with the rest of its budget.
LEMMA AdmitBudgets ==
  ASSUME Typed, Once, Budgets, NEW w \in Workers, AdmitCall(w) PROVE Budgets'
<1>1. PICK s \in Steps : s = wk[w].at /\ Point(w) = "call"
  BY DEF AdmitCall, Point, CallPoints, Typed, WorkerTyped
<1>2. PICK left, next : left = Budget(s) - Spent(s) /\ next = Len(ledger[s]) + 1
  OBVIOUS
<1>. DEFINE v == [wk[w] EXCEPT !.pc = "attempt", !.left = left, !.number = next]
<1>3. Become(w, v) /\ UNCHANGED <<ledger, aside>>
  BY <1>1, <1>2 DEF AdmitCall, ledgers
<1>4. v.pc = "attempt" /\ v.at = s /\ v.left = left
  BY <1>1, RowType DEF Session
<1>. HIDE DEF v
<1>5. left \in Nat
  BY <1>1, <1>2, SpentNatural, StepAssumption DEF AdmitCall, Budget
<1>6. s \notin Writes => Cardinality(Cycle(s)) + left <= ReadBudget
  <2>. SUFFICES ASSUME s \notin Writes PROVE Cardinality(Cycle(s)) + left <= ReadBudget
    OBVIOUS
  <2>1. Spent(s) = Cardinality(Cycle(s)) /\ Budget(s) = ReadBudget
    BY DEF Spent, CurrentCycle, Cycle, Budget
  <2>. QED BY <1>2, <2>1, CycleFinite, StepAssumption
<1>7. \A r \in Steps : Cycle(r)' \subseteq Cycle(r)
  BY <1>3, NewCycle
<1>. QED BY <1>1, <1>3, <1>4, <1>5, <1>6, <1>7, StayBudgets DEF CallPoints

\* A look at the flag spends nothing.
LEMMA RefreshBudgets ==
  ASSUME Typed, Once, Budgets, NEW w \in Workers, RefreshCancellation(w) PROVE Budgets'
<1>1. Point(w) = "attempt"
  BY DEF RefreshCancellation
<1>. DEFINE point == IF cancelReq THEN "error" ELSE "insert"
            v == [wk[w] EXCEPT !.cancel = cancelReq, !.pc = point]
<1>2. v.pc = point /\ v.at = wk[w].at /\ v.left = wk[w].left
  BY RowType DEF Session
<1>3. Become(w, v) /\ UNCHANGED <<ledger, aside>>
  BY DEF RefreshCancellation, ledgers
<1>. HIDE DEF v
<1>4. \A r \in Steps : Cycle(r)' \subseteq Cycle(r)
  BY <1>3, NewCycle
<1>. QED BY <1>1, <1>2, <1>3, <1>4, InBudget, StayBudgets DEF CallPoints

\* The inserted attempt is no longer left and not yet spent.
LEMMA InsertBudgets ==
  ASSUME Typed, Once, Budgets, NEW w \in Workers, InsertAttempt(w) PROVE Budgets'
<1>1. PICK s \in Steps : s = wk[w].at /\ Point(w) = "insert"
  BY DEF InsertAttempt, Point, CallPoints, Typed, WorkerTyped
<1>. DEFINE row == [dispatched |-> FALSE, error |-> "none"]
<1>2. PICK left : left = wk[w].left - 1
  OBVIOUS
<1>. DEFINE v == [wk[w] EXCEPT !.pc = "inserted", !.left = left]
<1>3. v.pc = "inserted" /\ v.at = s /\ v.left = left
  BY <1>1, RowType DEF Session
<1>4. Become(w, v) /\ UNCHANGED aside /\ ledger' = [ledger EXCEPT ![s] = Append(@, row)]
  BY <1>1, <1>2 DEF InsertAttempt
<1>5. row \in Attempt /\ ~row.dispatched
  BY DEF Attempt, Error
<1>. HIDE DEF v, row
<1>6. \A r \in Steps : Cycle(r)' = Cycle(r)
  BY <1>4, <1>5, InsertDispatchesNothing DEF Cycle
<1>7. wk[w].left \in Nat /\ wk[w].left > 0
  BY <1>1, InBudget DEF Typed, WorkerTyped, Point, CallPoints
<1>8. left \in Nat /\ left + 1 = wk[w].left
  BY <1>2, <1>7
<1>9. s \notin Writes => Cardinality(Cycle(s)) + left + 1 <= ReadBudget
  <2>1. /\ Cardinality(Cycle(s)) \in Nat
        /\ s \notin Writes => Cardinality(Cycle(s)) + wk[w].left <= ReadBudget
    BY <1>1, InBudget DEF CallPoints
  <2>. QED BY <1>8, <2>1, StepAssumption
<1>. QED BY <1>1, <1>3, <1>4, <1>6, <1>8, <1>9, StayBudgets DEF CallPoints

\* An update of one attempt row dispatches that attempt at most.
LEMMA UpdateDispatches ==
  ASSUME Typed, NEW s \in Steps, NEW n \in 1..Len(ledger[s]), NEW row \in Attempt,
         ledger' = [ledger EXCEPT ![s] = [@ EXCEPT ![n] = row]]
  PROVE  /\ \A r \in Steps : r # s => Dispatched(r)' = Dispatched(r)
         /\ Dispatched(s)' \subseteq Dispatched(s) \cup {n}
         /\ row.dispatched = ledger[s][n].dispatched => Dispatched(s)' \subseteq Dispatched(s)
<1>1. ledger[s] \in Seq(Attempt)
  BY DEF Typed, TypeOK
<1>2. /\ Len([ledger[s] EXCEPT ![n] = row]) = Len(ledger[s])
      /\ \A m \in 1..Len(ledger[s]) :
           [ledger[s] EXCEPT ![n] = row][m] = IF m = n THEN row ELSE ledger[s][m]
  BY <1>1, ExceptSeq
<1>3. /\ ledger'[s] = [ledger[s] EXCEPT ![n] = row]
      /\ \A r \in Steps : r # s => ledger'[r] = ledger[r]
  BY DEF Typed, TypeOK
<1>. QED BY <1>2, <1>3 DEF Dispatched

\* The mark spends the attempt on record.
LEMMA MarkBudgets ==
  ASSUME Typed, Once, Budgets, NEW w \in Workers, MarkDispatched(w) PROVE Budgets'
<1>0. PICK s \in Steps : s = wk[w].at /\ Point(w) = "inserted"
  BY DEF MarkDispatched, Point, CallPoints, Typed, WorkerTyped
<1>1. PICK n \in 1..Len(ledger[s]) : n = wk[w].number
  BY <1>0 DEF Point, HasRow, Typed, WorkerTyped
<1>. DEFINE row == [ledger[s][n] EXCEPT !.dispatched = TRUE]
<1>2. row \in Attempt
  <2>1. ledger[s] \in Seq(Attempt)
    BY DEF Typed, TypeOK
  <2>2. ledger[s][n] \in Attempt
    BY <2>1, ElementOfSeq
  <2>. QED BY <2>2 DEF Attempt
<1>3. /\ ledger' = [ledger EXCEPT ![s] = [@ EXCEPT ![n] = row]]
      /\ UNCHANGED aside
  BY <1>0, <1>1 DEF MarkDispatched, Typed, TypeOK
<1>4. PICK v : Become(w, v) /\ v.pc = "marked" /\ v.at = s /\ v.left = wk[w].left
  <2>. DEFINE v == [wk[w] EXCEPT !.pc = "marked"]
  <2>1. v.pc = "marked" /\ v.at = s /\ v.left = wk[w].left
    BY <1>0, RowType DEF Session
  <2>2. Become(w, v)
    BY DEF MarkDispatched, Goto
  <2>. HIDE DEF v
  <2>. QED BY <2>1, <2>2
<1>. HIDE DEF row
<1>5. /\ \A r \in Steps : r # s => Cycle(r)' \subseteq Cycle(r)
      /\ Cycle(s)' \subseteq Cycle(s) \cup {n}
  BY <1>2, <1>3, UpdateDispatches DEF Cycle
<1>6. /\ Cardinality(Cycle(s)') \in Nat
      /\ Cardinality(Cycle(s)') <= Cardinality(Cycle(s)) + 1
  BY <1>5, CycleGrows
<1>7. /\ Cardinality(Cycle(s)) \in Nat /\ wk[w].left \in Nat
      /\ s \notin Writes => Cardinality(Cycle(s)) + wk[w].left + 1 <= ReadBudget
  BY <1>0, InBudget DEF CallPoints
<1>8. s \notin Writes => /\ Cardinality(Cycle(s)') + wk[w].left <= ReadBudget
                         /\ Cardinality(Cycle(s)') <= ReadBudget
  BY <1>6, <1>7, StepAssumption
<1>9. s \notin Writes => Within(v)'
  BY <1>4, <1>8 DEF Within
<1>. QED BY <1>0, <1>3, <1>4, <1>5, <1>8, <1>9, CallBudgets

\* The call and its failure spend nothing more.
LEMMA CallProviderBudgets ==
  ASSUME Typed, Once, Budgets, NEW w \in Workers, CallProvider(w) PROVE Budgets'
<1>1. Point(w) = "marked"
  BY DEF CallProvider
<1>. DEFINE v == [wk[w] EXCEPT !.pc = "sent"]
<1>2. v.pc = "sent" /\ v.at = wk[w].at /\ v.left = wk[w].left
  BY RowType DEF Session
<1>3. Become(w, v) /\ UNCHANGED <<ledger, aside>>
  BY DEF CallProvider, Goto, ledgers
<1>. HIDE DEF v
<1>4. \A r \in Steps : Cycle(r)' \subseteq Cycle(r)
  BY <1>3, NewCycle
<1>. QED BY <1>1, <1>2, <1>3, <1>4, InBudget, StayBudgets DEF CallPoints

LEMMA FailBudgets ==
  ASSUME Typed, Once, Budgets, NEW w \in Workers, FailAttempt(w) PROVE Budgets'
<1>0. PICK s \in Steps : s = wk[w].at /\ Point(w) \in {"inserted", "sent"}
  BY DEF FailAttempt, Point, CallPoints, Typed, WorkerTyped
<1>1. PICK n \in 1..Len(ledger[s]) : n = wk[w].number
  BY <1>0 DEF Point, HasRow, Typed, WorkerTyped
<1>. DEFINE next == n + 1
            retry == [wk[w] EXCEPT !.pc = "attempt", !.number = next]
            stop == At(w, "error", s, wk[w].steps)
<1>2. PICK e \in {"final", "transient"} :
        /\ ledger' = [ledger EXCEPT ![s][n] = [@ EXCEPT !.error = e]]
        /\ Become(w, retry) \/ Become(w, stop)
  BY <1>0, <1>1 DEF FailAttempt
<1>. DEFINE row == [ledger[s][n] EXCEPT !.error = e]
<1>3. row \in Attempt /\ row.dispatched = ledger[s][n].dispatched
  <2>1. ledger[s] \in Seq(Attempt)
    BY DEF Typed, TypeOK
  <2>2. ledger[s][n] \in Attempt
    BY <2>1, ElementOfSeq
  <2>. QED BY <2>2, AttemptUpdate DEF Attempt, Error
<1>4. ledger' = [ledger EXCEPT ![s] = [@ EXCEPT ![n] = row]] /\ UNCHANGED aside
  BY <1>2 DEF FailAttempt, Typed, TypeOK
<1>5. retry.pc = "attempt" /\ retry.at = s /\ retry.left = wk[w].left
  <2>. HIDE DEF next
  <2>. QED BY <1>0, RowType DEF Session
<1>6. stop.pc = "error" /\ stop.at = s /\ stop.left = 0
  BY DEF At, Blank
<1>. HIDE DEF row, retry, stop
<1>7. \A r \in Steps : Cycle(r)' \subseteq Cycle(r)
  BY <1>3, <1>4, UpdateDispatches DEF Cycle
<1>8. /\ Cardinality(Cycle(s)) \in Nat /\ wk[w].left \in Nat
      /\ s \notin Writes => Cardinality(Cycle(s)) + wk[w].left <= ReadBudget
  BY <1>0, InBudget, StepAssumption DEF CallPoints
<1>9. CASE Become(w, retry)
  BY <1>0, <1>5, <1>7, <1>8, <1>9, StayBudgets DEF CallPoints
<1>10. CASE Become(w, stop)
  BY <1>0, <1>6, <1>7, <1>8, <1>10, StayBudgets DEF CallPoints
<1>. QED BY <1>2, <1>9, <1>10

\* Whoever leaves the sessions and the ledger alone, and at most opens a new
\* cycle, keeps the budgets.
LEMMA FrameBudgets ==
  ASSUME Typed, Budgets, UNCHANGED <<wk, ledger>>,
         aside' = aside \/ \E s \in Steps : aside' = [aside EXCEPT ![s] = Dispatched(s)]
  PROVE  Budgets'
<1>1. \A s \in Steps : Cycle(s)' \subseteq Cycle(s)
  BY NewCycle
<1>2. \A s \in Steps \ Writes : Cardinality(Cycle(s)') <= ReadBudget
  BY <1>1, ShrinkingBudgets
<1>3. ASSUME NEW u \in Workers PROVE Within(wk[u])'
  <2>. SUFFICES ASSUME wk[u].at \in Steps \ Writes PROVE Within(wk[u])'
    BY DEF Within
  <2>1. PICK s \in Steps \ Writes : s = wk[u].at
    OBVIOUS
  <2>2. /\ Cardinality(Cycle(s)') \in Nat /\ Cardinality(Cycle(s)) \in Nat
        /\ Cardinality(Cycle(s)') <= Cardinality(Cycle(s)) /\ wk[u].left \in Nat
    BY <1>1, CycleKept DEF Typed, TypeOK, Session
  <2>3. Within(wk[u])
    BY DEF Budgets
  <2>4. /\ wk[u].pc \in {"attempt", "insert", "marked", "sent"} =>
             Cardinality(Cycle(s)') + wk[u].left <= ReadBudget
        /\ wk[u].pc = "inserted" => Cardinality(Cycle(s)') + wk[u].left + 1 <= ReadBudget
    BY <2>1, <2>2, <2>3, StepAssumption DEF Within
  <2>. QED BY <2>1, <2>4 DEF Within
<1>4. ReadsStayInBudget'
  BY <1>2 DEF ReadsStayInBudget, Cycle
<1>. QED BY <1>3, <1>4 DEF Budgets

\* An API request does no more than that.
LEMMA RequestBudgets ==
  ASSUME Typed, Budgets, NEW c \in Clients, Ask(c) PROVE Budgets'
<1>1. UNCHANGED <<wk, ledger>>
  BY DEF Ask, ReadCancel, ReadAbandon, ReadRetry, ReadRecheck, ReadSkip, ReadDecision, LoadRun,
         LoadStep, Load, WriteCancel, WriteAbandon, WriteRetry, WriteRecheck, WriteSkip,
         WriteApproval, WriteRejection, RefuseDecision, ledgers
<1>2. aside' = aside \/ WriteRetry(c)
  BY DEF Ask, ReadCancel, ReadAbandon, ReadRetry, ReadRecheck, ReadSkip, ReadDecision, LoadRun,
         LoadStep, Load, WriteCancel, WriteAbandon, WriteRecheck, WriteSkip,
         WriteApproval, WriteRejection, RefuseDecision, ledgers
<1>3. WriteRetry(c) =>
        aside' = aside \/ \E s \in Steps : aside' = [aside EXCEPT ![s] = Dispatched(s)]
  BY AskedTyped DEF WriteRetry
<1>. QED BY <1>1, <1>2, <1>3, FrameBudgets

\* Budgets holds of the approved plan, and is kept by every step as long as the
\* lock is reliable.
LEMMA InitBudgets == Init => Budgets
<1>. SUFFICES ASSUME Init PROVE Budgets
  OBVIOUS
<1>1. \A s \in Steps : Cycle(s) = {}
  BY DEF Init, Cycle, Dispatched
<1>2. ReadsStayInBudget
  BY <1>1, FS_EmptySet, StepAssumption DEF ReadsStayInBudget, Cycle
<1>3. \A w \in Workers : Within(wk[w])
  BY BlankPoint DEF Init, Within
<1>. QED BY <1>2, <1>3 DEF Budgets

LEMMA StepBudgets ==
  ASSUME LockMayDrop = FALSE
  PROVE  Typed /\ Once /\ Budgets /\ [Next]_vars => Budgets'
<1>. SUFFICES ASSUME Typed, Once, Budgets, [Next]_vars PROVE Budgets'
  OBVIOUS
<1>1. ASSUME NEW w \in Workers, Work(w) PROVE Budgets'
  <2>1. \/ Apart(w) \/ AdmitCall(w) \/ RefreshCancellation(w) \/ InsertAttempt(w)
        \/ MarkDispatched(w) \/ CallProvider(w) \/ FailAttempt(w)
    BY <1>1, WorkParts DEF DropLock
  <2>. QED
    BY <2>1, ApartBudgets, AdmitBudgets, RefreshBudgets, InsertBudgets, MarkBudgets,
       CallProviderBudgets, FailBudgets
<1>2. ASSUME NEW c \in Clients, Ask(c) PROVE Budgets'
  BY <1>2, RequestBudgets
<1>3. CASE RecoverStale
  BY <1>3, FrameBudgets DEF RecoverStale, ledgers
<1>4. CASE UNCHANGED vars
  BY <1>4, FrameBudgets DEF vars
<1>. QED BY <1>1, <1>2, <1>3, <1>4 DEF Next

\* While the lock's connection lives, the attempts of a read since its last
\* explicit recovery never exceed its budget, however many deliveries, crashes
\* and duplicates come in between (autonomous_delivery.py,
\* attempts_for_current_cycle and the call loop of orchestrator.py).
THEOREM ReadBudgetIsKept ==
  ASSUME LockMayDrop = FALSE
  PROVE  Spec => []ReadsStayInBudget
<1>1. Init => Budgets
  BY InitBudgets
<1>2. Typed /\ Once /\ Budgets /\ [Next]_vars => Budgets'
  BY StepBudgets
<1>3. Budgets => ReadsStayInBudget
  BY DEF Budgets
<1>. QED BY <1>1, <1>2, <1>3, Invariance, PTL DEF Spec
-------------------------------------------------------------------------------
\* Without the lock: every call was armed by a session of its own

\* The sessions that may still call the provider of a write.
Arming == {"attempt", "insert", "inserted", "marked"}
Armed(s) == {w \in Workers : wk[w].at = s /\ wk[w].pc \in Arming}

\* A session in the call of a write has one attempt, whoever holds the lock.
OneAttempt(v) ==
  v.at \in Writes =>
    /\ v.pc \in {"attempt", "insert"} => v.left = 1
    /\ v.pc \in HasRow => v.left = 0
    /\ v.pc = "marked" => Dispatched(v.at) # {}

\* Every call was made by a session that no longer may make another, and the
\* first of them was on record before any session was refused.
Overlap ==
  /\ \A s \in Writes : calls[s] + Cardinality(Armed(s)) <= Cardinality(Workers)
  /\ \A s \in Writes : calls[s] # 0 => Dispatched(s) # {}
  /\ \A w \in Workers : OneAttempt(wk[w])

\* What a step of a worker does to Overlap, but for its call.
LEMMA WorkOverlap ==
  ASSUME Typed, Overlap, IsFiniteSet(Workers), NEW w \in Workers, NEW v, Become(w, v),
         UNCHANGED calls, \A s \in Steps : Dispatched(s) \subseteq Dispatched(s)',
         OneAttempt(v)',
         v.at \in Writes /\ v.pc \in Arming =>
           \/ Point(w) \in Arming /\ v.at = wk[w].at
           \/ calls[v.at] = 0
  PROVE  Overlap'
<1>1. /\ wk'[w] = v /\ \A u \in Workers : u # w => wk'[u] = wk[u]
  BY DEF Become, Typed, TypeOK
<1>2. \A u \in Workers : OneAttempt(wk[u])'
  <2>1. \A s \in Writes : Dispatched(s) # {} => Dispatched(s)' # {}
    BY PlanAssumption
  <2>. QED BY <1>1, <2>1 DEF Overlap, OneAttempt
<1>3. \A s \in Writes : calls'[s] # 0 => Dispatched(s)' # {}
  BY PlanAssumption DEF Overlap
<1>4. ASSUME NEW s \in Writes PROVE calls'[s] + Cardinality(Armed(s)') <= Cardinality(Workers)
  <2>1. /\ Armed(s)' \subseteq Workers /\ IsFiniteSet(Armed(s)')
        /\ Cardinality(Armed(s)') <= Cardinality(Workers)
        /\ Cardinality(Armed(s)') \in Nat /\ Cardinality(Workers) \in Nat
    <3>1. Armed(s)' \subseteq Workers
      BY DEF Armed
    <3>2. IsFiniteSet(Armed(s)') /\ Cardinality(Armed(s)') <= Cardinality(Workers)
      BY <3>1, FS_Subset
    <3>. QED BY <3>1, <3>2, FS_CardinalityType
  <2>2. CASE calls[s] = 0
    BY <2>1, <2>2
  <2>3. CASE calls[s] # 0
    <3>1. Armed(s)' \subseteq Armed(s)
      BY <1>1, <2>3 DEF Armed, Point
    <3>2. Armed(s) \subseteq Workers
      BY DEF Armed
    <3>3. IsFiniteSet(Armed(s)) /\ Cardinality(Armed(s)') <= Cardinality(Armed(s))
      BY <3>1, <3>2, FS_Subset
    <3>4. Cardinality(Armed(s)) \in Nat /\ calls[s] \in Nat
      BY <3>3, FS_CardinalityType, PlanAssumption DEF Typed, TypeOK
    <3>5. calls[s] + Cardinality(Armed(s)) <= Cardinality(Workers)
      BY DEF Overlap
    <3>. QED BY <2>1, <3>3, <3>4, <3>5
  <2>. QED BY <2>2, <2>3
<1>. QED BY <1>2, <1>3, <1>4 DEF Overlap

\* A worker apart from the call arms nothing.
LEMMA ApartOverlap ==
  ASSUME Typed, Overlap, IsFiniteSet(Workers), NEW w \in Workers, Apart(w) PROVE Overlap'
<1>1. PICK v : Become(w, v) /\ v.pc \notin InCall
  BY ApartRests DEF Rests
<1>2. UNCHANGED calls /\ \A s \in Steps : Dispatched(s) \subseteq Dispatched(s)'
  BY ApartRests DEF Dispatched
<1>3. OneAttempt(v)' /\ v.pc \notin Arming
  BY <1>1 DEF OneAttempt, InCall, HasRow, Arming
<1>. QED BY <1>1, <1>2, <1>3, WorkOverlap

\* A write is admitted before its first dispatch only.
LEMMA AdmitOverlap ==
  ASSUME Typed, Overlap, IsFiniteSet(Workers), NEW w \in Workers, AdmitCall(w) PROVE Overlap'
<1>1. PICK s \in Steps : s = wk[w].at
  BY DEF AdmitCall, Point, CallPoints, Typed, WorkerTyped
<1>2. PICK left, next : left = Budget(s) - Spent(s) /\ next = Len(ledger[s]) + 1
  OBVIOUS
<1>3. PICK v : Become(w, v) /\ v.pc = "attempt" /\ v.at = s /\ v.left = left
  <2>. DEFINE v == [wk[w] EXCEPT !.pc = "attempt", !.left = left, !.number = next]
  <2>1. v.pc = "attempt" /\ v.at = s /\ v.left = left
    BY <1>1, RowType DEF Session
  <2>2. Become(w, v)
    BY <1>1, <1>2 DEF AdmitCall
  <2>. HIDE DEF v
  <2>. QED BY <2>1, <2>2
<1>4. s \in Writes => left = 1 /\ calls[s] = 0
  BY <1>1, <1>2, SpentNatural DEF AdmitCall, Budget, CurrentCycle, Overlap
<1>5. UNCHANGED calls /\ \A r \in Steps : Dispatched(r) \subseteq Dispatched(r)'
  BY DEF AdmitCall, ledgers, history, Dispatched
<1>6. OneAttempt(v)'
  BY <1>3, <1>4 DEF OneAttempt, HasRow
<1>. QED BY <1>3, <1>4, <1>5, <1>6, WorkOverlap

\* Up to the mark the session stays armed for the write it was admitted to.
LEMMA AttemptOverlap ==
  ASSUME Typed, Overlap, IsFiniteSet(Workers), NEW w \in Workers,
         RefreshCancellation(w) \/ InsertAttempt(w) \/ MarkDispatched(w)
  PROVE  Overlap'
<1>1. PICK s \in Steps : s = wk[w].at /\ Point(w) \in {"attempt", "insert", "inserted"}
  BY DEF RefreshCancellation, InsertAttempt, MarkDispatched, Point, CallPoints, Typed,
         WorkerTyped
<1>2. UNCHANGED calls
  BY DEF RefreshCancellation, InsertAttempt, MarkDispatched, history
<1>3. CASE RefreshCancellation(w)
  <2>1. PICK v : Become(w, v) /\ v.pc \in {"insert", "error"} /\ v.at = s /\ v.left = wk[w].left
    <3>. DEFINE point == IF cancelReq THEN "error" ELSE "insert"
                v == [wk[w] EXCEPT !.cancel = cancelReq, !.pc = point]
    <3>1. v.pc = point /\ v.at = s /\ v.left = wk[w].left
      BY <1>1, RowType DEF Session
    <3>2. Become(w, v)
      BY <1>3 DEF RefreshCancellation
    <3>. HIDE DEF v
    <3>. QED BY <3>1, <3>2
  <2>2. \A r \in Steps : Dispatched(r) \subseteq Dispatched(r)'
    BY <1>3 DEF RefreshCancellation, ledgers, Dispatched
  <2>3. OneAttempt(v)'
    BY <1>1, <1>3, <2>1 DEF RefreshCancellation, Overlap, OneAttempt, Point, HasRow
  <2>. QED BY <1>1, <1>2, <2>1, <2>2, <2>3, WorkOverlap DEF Arming
<1>4. CASE InsertAttempt(w)
  <2>1. PICK left : left = wk[w].left - 1
    OBVIOUS
  <2>2. PICK v : Become(w, v) /\ v.pc = "inserted" /\ v.at = s /\ v.left = left
    <3>. DEFINE v == [wk[w] EXCEPT !.pc = "inserted", !.left = left]
    <3>1. v.pc = "inserted" /\ v.at = s /\ v.left = left
      BY <1>1, RowType DEF Session
    <3>2. Become(w, v)
      BY <1>4, <2>1 DEF InsertAttempt
    <3>. HIDE DEF v
    <3>. QED BY <3>1, <3>2
  <2>. DEFINE row == [dispatched |-> FALSE, error |-> "none"]
  <2>3. ledger' = [ledger EXCEPT ![s] = Append(@, row)] /\ row \in Attempt /\ ~row.dispatched
    BY <1>1, <1>4 DEF InsertAttempt, Attempt, Error
  <2>. HIDE DEF row
  <2>4. \A r \in Steps : Dispatched(r) \subseteq Dispatched(r)'
    BY <2>3, InsertDispatchesNothing
  <2>5. s \in Writes => left = 0
    BY <1>1, <1>4, <2>1 DEF InsertAttempt, Overlap, OneAttempt, Point
  <2>6. OneAttempt(v)'
    BY <2>2, <2>5 DEF OneAttempt, HasRow
  <2>. QED BY <1>1, <1>2, <2>2, <2>4, <2>6, WorkOverlap DEF Arming
<1>5. CASE MarkDispatched(w)
  <2>1. PICK v : Become(w, v) /\ v.pc = "marked" /\ v.at = s /\ v.left = wk[w].left
    <3>. DEFINE v == [wk[w] EXCEPT !.pc = "marked"]
    <3>1. v.pc = "marked" /\ v.at = s /\ v.left = wk[w].left
      BY <1>1, RowType DEF Session
    <3>2. Become(w, v)
      BY <1>5 DEF MarkDispatched, Goto
    <3>. HIDE DEF v
    <3>. QED BY <3>1, <3>2
  <2>2. PICK n \in 1..Len(ledger[s]) : n = wk[w].number
    BY <1>1, <1>5 DEF MarkDispatched, Point, HasRow, Typed, WorkerTyped
  <2>. DEFINE row == [ledger[s][n] EXCEPT !.dispatched = TRUE]
  <2>3. row \in Attempt /\ row.dispatched
    <3>1. ledger[s] \in Seq(Attempt)
      BY DEF Typed, TypeOK
    <3>2. ledger[s][n] \in Attempt
      BY <3>1, ElementOfSeq
    <3>. QED BY <3>2 DEF Attempt
  <2>4. ledger' = [ledger EXCEPT ![s] = [@ EXCEPT ![n] = row]]
    BY <1>1, <1>5, <2>2 DEF MarkDispatched, Typed, TypeOK
  <2>. HIDE DEF row
  <2>5. /\ \A r \in Steps : Dispatched(r) \subseteq Dispatched(r)'
        /\ Dispatched(s)' # {}
    BY <2>3, <2>4, UpdateKeepsDispatched
  <2>6. s \in Writes => wk[w].left = 0
    BY <1>1, <1>5 DEF MarkDispatched, Overlap, OneAttempt, Point, HasRow
  <2>7. OneAttempt(v)'
    BY <2>1, <2>5, <2>6 DEF OneAttempt, HasRow
  <2>. QED BY <1>1, <1>2, <2>1, <2>5, <2>7, WorkOverlap DEF Arming
<1>. QED BY <1>3, <1>4, <1>5

\* A failed write does not arm its session again.
LEMMA FailOverlap ==
  ASSUME Typed, Overlap, IsFiniteSet(Workers), NEW w \in Workers, FailAttempt(w) PROVE Overlap'
<1>1. PICK s \in Steps : s = wk[w].at /\ Point(w) \in {"inserted", "sent"}
  BY DEF FailAttempt, Point, CallPoints, Typed, WorkerTyped
<1>2. PICK n \in 1..Len(ledger[s]) : n = wk[w].number
  BY <1>1 DEF Point, HasRow, Typed, WorkerTyped
<1>. DEFINE next == n + 1
            retry == [wk[w] EXCEPT !.pc = "attempt", !.number = next]
            stop == At(w, "error", s, wk[w].steps)
<1>3. PICK e \in {"final", "transient"} :
        /\ ledger' = [ledger EXCEPT ![s][n] = [@ EXCEPT !.error = e]]
        /\ (Become(w, retry) /\ wk[w].left > 0) \/ Become(w, stop)
  BY <1>1, <1>2 DEF FailAttempt
<1>. DEFINE row == [ledger[s][n] EXCEPT !.error = e]
<1>4. row \in Attempt /\ row.dispatched = ledger[s][n].dispatched
  <2>1. ledger[s] \in Seq(Attempt)
    BY DEF Typed, TypeOK
  <2>2. ledger[s][n] \in Attempt
    BY <2>1, ElementOfSeq
  <2>. QED BY <2>2, AttemptUpdate DEF Attempt, Error
<1>5. ledger' = [ledger EXCEPT ![s] = [@ EXCEPT ![n] = row]] /\ UNCHANGED calls
  BY <1>3 DEF FailAttempt, Typed, TypeOK, history
<1>6. retry.pc = "attempt" /\ retry.at = s /\ stop.pc = "error"
  <2>. HIDE DEF next
  <2>. QED BY <1>1, RowType, AtPoint DEF Session
<1>7. s \in Writes => wk[w].left = 0
  BY <1>1 DEF Overlap, OneAttempt, Point, HasRow
<1>. HIDE DEF row, retry, stop
<1>8. \A r \in Steps : Dispatched(r) \subseteq Dispatched(r)'
  BY <1>4, <1>5, UpdateKeepsDispatched
<1>9. PICK v : Become(w, v) /\ (v.pc = "error" \/ (v.pc = "attempt" /\ v.at = s /\ s \notin Writes))
  BY <1>3, <1>6, <1>7
<1>10. OneAttempt(v)'
  BY <1>9 DEF OneAttempt, HasRow
<1>. QED BY <1>5, <1>8, <1>9, <1>10, WorkOverlap DEF Arming

\* The call of a write disarms its session and counts one.
LEMMA CallOverlap ==
  ASSUME Typed, Overlap, IsFiniteSet(Workers), NEW w \in Workers, CallProvider(w)
  PROVE  Overlap'
<1>1. PICK s \in Steps : s = wk[w].at /\ Point(w) = "marked"
  BY DEF CallProvider, Point, CallPoints, Typed, WorkerTyped
<1>2. /\ calls' = [calls EXCEPT ![s] = @ + 1] /\ UNCHANGED ledger
  BY <1>1 DEF CallProvider, ledgers
<1>3. PICK v : Become(w, v) /\ v.pc = "sent" /\ v.at = s /\ v.left = wk[w].left
  <2>. DEFINE v == [wk[w] EXCEPT !.pc = "sent"]
  <2>1. v.pc = "sent" /\ v.at = s /\ v.left = wk[w].left
    BY <1>1, RowType DEF Session
  <2>2. Become(w, v)
    BY DEF CallProvider, Goto
  <2>. HIDE DEF v
  <2>. QED BY <2>1, <2>2
<1>4. /\ wk'[w] = v /\ \A u \in Workers : u # w => wk'[u] = wk[u]
  BY <1>3 DEF Become, Typed, TypeOK
<1>5. \A r \in Steps : Dispatched(r)' = Dispatched(r)
  BY <1>2 DEF Dispatched
<1>6. s \in Writes => wk[w].left = 0 /\ Dispatched(s) # {}
  BY <1>1 DEF Overlap, OneAttempt, Point, HasRow
<1>7. \A u \in Workers : OneAttempt(wk[u])'
  <2>1. ASSUME NEW u \in Workers, u # w PROVE OneAttempt(wk[u])'
    BY <1>2, <1>4, <2>1 DEF Overlap, OneAttempt, Dispatched
  <2>2. OneAttempt(wk[w])'
    BY <1>3, <1>4, <1>6 DEF OneAttempt, HasRow
  <2>. QED BY <2>1, <2>2
<1>8. \A r \in Writes : calls'[r] # 0 => Dispatched(r)' # {}
  BY <1>2, <1>5, <1>6, PlanAssumption DEF Overlap, Typed, TypeOK
<1>9. ASSUME NEW r \in Writes PROVE calls'[r] + Cardinality(Armed(r)') <= Cardinality(Workers)
  <2>1. /\ IsFiniteSet(Armed(r)) /\ Cardinality(Armed(r)) \in Nat /\ calls[r] \in Nat
        /\ calls[r] + Cardinality(Armed(r)) <= Cardinality(Workers)
        /\ Cardinality(Workers) \in Nat
    <3>1. Armed(r) \subseteq Workers
      BY DEF Armed
    <3>2. IsFiniteSet(Armed(r))
      BY <3>1, FS_Subset
    <3>. QED BY <3>2, FS_CardinalityType, PlanAssumption DEF Overlap, Typed, TypeOK
  <2>2. Armed(r)' = Armed(r) \ {w}
    BY <1>3, <1>4 DEF Armed, Arming
  <2>3. CASE r = s
    <3>1. w \in Armed(s)
      BY <1>1 DEF Armed, Arming, Point
    <3>2. Cardinality(Armed(s)') = Cardinality(Armed(s)) - 1
      BY <2>1, <2>2, <2>3, <3>1, FS_RemoveElement
    <3>3. calls'[s] = calls[s] + 1
      BY <1>2 DEF Typed, TypeOK
    <3>. QED BY <2>1, <2>3, <3>2, <3>3
  <2>4. CASE r # s
    <3>1. w \notin Armed(r)
      BY <1>1, <2>4 DEF Armed
    <3>2. Armed(r)' = Armed(r)
      BY <2>2, <3>1
    <3>3. calls'[r] = calls[r]
      BY <1>2, <2>4, PlanAssumption DEF Typed, TypeOK
    <3>. QED BY <2>1, <3>2, <3>3
  <2>. QED BY <2>3, <2>4
<1>. QED BY <1>7, <1>8, <1>9 DEF Overlap

\* Whoever leaves the sessions, the ledger and the calls alone keeps Overlap.
LEMMA FrameOverlap ==
  ASSUME Overlap, UNCHANGED <<wk, ledger, calls>> PROVE Overlap'
<1>1. \A s \in Writes : Armed(s)' = Armed(s) /\ Dispatched(s)' = Dispatched(s)
  BY DEF Armed, Dispatched
<1>2. \A u \in Workers : OneAttempt(wk[u])'
  BY DEF Overlap, OneAttempt, Dispatched
<1>. QED BY <1>1, <1>2 DEF Overlap

\* Overlap holds of the approved plan, and is kept by every step, whatever
\* becomes of the lock.
LEMMA InitOverlap ==
  ASSUME IsFiniteSet(Workers) PROVE Init => Overlap
<1>. SUFFICES ASSUME Init PROVE Overlap
  OBVIOUS
<1>1. \A w \in Workers : wk[w].pc = "idle"
  BY BlankPoint DEF Init
<1>2. \A s \in Writes : Armed(s) = {} /\ calls[s] = 0
  BY <1>1, PlanAssumption DEF Init, Armed, Arming
<1>3. Cardinality(Workers) \in Nat
  BY FS_CardinalityType
<1>4. \A w \in Workers : OneAttempt(wk[w])
  BY <1>1 DEF OneAttempt, HasRow
<1>. QED BY <1>2, <1>3, <1>4, FS_EmptySet DEF Overlap

LEMMA StepOverlap ==
  ASSUME IsFiniteSet(Workers)
  PROVE  Typed /\ Overlap /\ [Next]_vars => Overlap'
<1>. SUFFICES ASSUME Typed, Overlap, [Next]_vars PROVE Overlap'
  OBVIOUS
<1>1. ASSUME NEW w \in Workers, Work(w) PROVE Overlap'
  <2>1. CASE DropLock(w)
    BY <2>1, FrameOverlap DEF DropLock, ledgers, history
  <2>2. CASE ~DropLock(w)
    BY <1>1, <2>2, WorkParts, ApartOverlap, AdmitOverlap, AttemptOverlap, FailOverlap,
       CallOverlap
  <2>. QED BY <2>1, <2>2
<1>2. ASSUME NEW c \in Clients, Ask(c) PROVE Overlap'
  <2>1. UNCHANGED <<wk, ledger, calls>>
    BY <1>2 DEF Ask, ReadCancel, ReadAbandon, ReadRetry, ReadRecheck, ReadSkip, ReadDecision,
         LoadRun, LoadStep, Load, WriteCancel, WriteAbandon, WriteRetry, WriteRecheck, WriteSkip,
         WriteApproval, WriteRejection, RefuseDecision, ledgers, history
  <2>. QED BY <2>1, FrameOverlap
<1>3. CASE RecoverStale
  BY <1>3, FrameOverlap DEF RecoverStale, ledgers, history
<1>4. CASE UNCHANGED vars
  BY <1>4, FrameOverlap DEF vars
<1>. QED BY <1>1, <1>2, <1>3, <1>4 DEF Next

\* Even when the connection that holds the lock may die under a live worker, a
\* consequential step calls its provider no more often than there are
\* deliveries alive together: the dispatched row, committed before the call,
\* refuses every session that comes to it later.
THEOREM RepeatsNeedOverlap ==
  ASSUME IsFiniteSet(Workers)
  PROVE  Spec => []RepeatsBoundedByOverlap
<1>1. Init => Typed /\ Overlap
  BY InitTyped, InitOverlap
<1>2. Typed /\ Overlap /\ [Next]_vars => (Typed /\ Overlap)'
  BY StepTyped, StepOverlap
<1>3. Typed /\ Overlap => RepeatsBoundedByOverlap
  <2>. SUFFICES ASSUME Typed, Overlap, NEW s \in Writes PROVE calls[s] <= Cardinality(Workers)
    BY DEF RepeatsBoundedByOverlap
  <2>1. Armed(s) \subseteq Workers
    BY DEF Armed
  <2>2. IsFiniteSet(Armed(s))
    BY <2>1, FS_Subset
  <2>3. /\ Cardinality(Armed(s)) \in Nat /\ Cardinality(Workers) \in Nat /\ calls[s] \in Nat
    BY <2>2, FS_CardinalityType, PlanAssumption DEF Typed, TypeOK
  <2>. QED BY <2>3 DEF Overlap
<1>. QED BY <1>1, <1>2, <1>3, PTL DEF Spec
-------------------------------------------------------------------------------
\* The promise: whose authority a write goes out with

\* The arguments a session has loaded for a step are authorised, or still
\* those of the plan; and then, once others have been authorised, they are not
\* the ones the approval row shows.
Carries(s, v) ==
  v.pc \notin Gone =>
    \/ v.steps[s].args \in authorised[s]
    \/ /\ v.steps[s].args = PlannedAction
       /\ authorised[s] # {} => approval[s].args # PlannedAction

Approving(c, s) == req[c] # NoRequest /\ req[c].kind = "approve" /\ req[c].step = s

\* A write that a person has to approve: its row has arguments somebody has
\* authorised, or those of the plan as long as nobody has authorised any.
ByPerson(s) ==
  /\ \/ step[s].args \in authorised[s]
     \/ step[s].args = PlannedAction /\ authorised[s] = {}
  /\ approval[s].status = "approved" => authorised[s] # {}
  /\ \A c \in Clients :
       (Approving(c, s) /\ authorised[s] = {}) => req[c].row.args = PlannedAction
  /\ \A w \in Workers : Carries(s, wk[w])

\* A write that the start of the plan authorises never waits for a person, and
\* its approval becomes ready with an action it authorises.
ByStart(s) ==
  /\ approval[s].status = "pending" => ~approval[s].ready
  /\ approval[s].ready => approval[s].args \in authorised[s]
  /\ \A c \in Clients : ~Approving(c, s)

\* A session that has matched the action of a write with its approval carries
\* an authorised action to the call, and the call leaves its mark.
Reviewed(v) ==
  /\ v.pc = "loaded" => v.approval = Unread
  /\ v.at \in Writes =>
       /\ (v.pc \in {"steps", "call"} /\ v.approval # Unread) =>
            /\ v.approval.status # "pending" => approval[v.at].status # "pending"
            /\ (v.approval.status = "approved" /\ v.approval.ready /\ v.approval.args = v.arg) =>
                 v.arg \in authorised[v.at]
       /\ (v.pc = "call" /\ v.approval = Unread) => v.arg = v.steps[v.at].args
       /\ v.pc \in Arming => v.arg \in authorised[v.at]
       /\ v.pc = "sent" => Dispatched(v.at) # {}

Authority ==
  /\ \A s \in Writes \ StartAuthorized : ByPerson(s)
  /\ \A s \in StartAuthorized : ByStart(s)
  /\ \A w \in Workers : Reviewed(wk[w])
  /\ \A s \in Writes : calls[s] = 0 => sent[s] = {}

\* No step has its arguments changed, none its first receipt recorded.
Settled == \A r \in Steps : /\ step'[r].args = step[r].args
                            /\ step'[r].receipt # "none" => step[r].receipt # "none"

\* Saving a row that brings neither.
LEMMA SavesNothingNew ==
  ASSUME Typed, Receipts, NEW w \in Workers, Point(w) \notin Gone,
         NEW s \in Steps, NEW row \in StepRow,
         step' = [step EXCEPT ![s] = Merge(@, wk[w].steps[s], row)],
         row.args = wk[w].steps[s].args,
         row.receipt # "none" => wk[w].steps[s].receipt # "none"
  PROVE  Settled
<1>1. wk[w].steps[s].receipt = step[s].receipt
  BY DEF Receipts, Loaded, Point
<1>2. /\ step'[s] = Merge(step[s], wk[w].steps[s], row)
      /\ \A r \in Steps : r # s => step'[r] = step[r]
  BY DEF Typed, TypeOK
<1>. QED BY <1>1, <1>2 DEF Merge, Settled

\* The authority of the stored rows and of a session, once the owner has taken
\* a step that leaves approvals and authorisations alone.
LEMMA OwnerAuthority ==
  ASSUME Typed, Once, Authority, NEW w \in Workers, NEW v, Become(w, v),
         Point(w) # "idle" \/ holder = NoWorker,
         UNCHANGED <<req, approval, authorised>>,
         \A r \in Steps : step'[r].args = step[r].args,
         \A s \in Writes : calls'[s] = 0 => sent'[s] = {},
         v.pc \notin Gone =>
           \/ \A s \in Writes : v.steps[s].args = step[s].args
           \/ Point(w) \notin Gone /\ \A s \in Writes : v.steps[s].args = wk[w].steps[s].args,
         Reviewed(v)'
  PROVE  Authority'
<1>1. /\ wk'[w] = v /\ \A u \in Workers : u # w => wk'[u] = wk[u] /\ wk[u].pc = "idle"
  BY Alone DEF Become, Typed, TypeOK, Point
<1>2. ASSUME NEW s \in Writes \ StartAuthorized PROVE ByPerson(s)'
  <2>1. ByPerson(s) /\ Carries(s, wk[w]) /\ s \in Steps
    BY PlanAssumption DEF Authority, ByPerson
  <2>2. Carries(s, v)'
    BY <2>1 DEF ByPerson, Carries, Point
  <2>3. \A u \in Workers : Carries(s, wk[u])'
    BY <1>1, <2>2 DEF Carries, Gone
  <2>. QED BY <2>1, <2>3 DEF ByPerson, Approving
<1>3. ASSUME NEW s \in StartAuthorized PROVE ByStart(s)'
  BY DEF Authority, ByStart, Approving
<1>4. \A u \in Workers : Reviewed(wk[u])'
  BY <1>1 DEF Reviewed, Arming
<1>. QED BY <1>2, <1>3, <1>4 DEF Authority

\* A session that carries no approval and is on no way to the call.
LEMMA NothingReviewed ==
  ASSUME NEW v, v.pc \in {"loaded", "steps"} => v.approval = Unread,
         v.pc \notin Arming \cup {"call", "sent"}
  PROVE  Reviewed(v)'
BY DEF Reviewed

\* A session that has saved row for its step.
HasSaved(w, s, row, v) ==
  /\ Become(w, v) /\ v.approval = Unread
  /\ v.pc \in {"review", "steps", "recover"}
  /\ v.pc \notin Gone => v.steps = [wk[w].steps EXCEPT ![s] = row]

LEMMA SavingSession ==
  ASSUME NEW w \in Workers, NEW s \in Steps, s = wk[w].at, NEW row,
         \/ SaveStep(w, row, "review")
         \/ SaveAndAdvance(w, row)
         \/ \E target : SaveAndPark(w, row, target)
  PROVE  \E v : HasSaved(w, s, row, v)
<1>. DEFINE seen == [wk[w].steps EXCEPT ![s] = row]
            next == s + 1
<1>1. CASE SaveStep(w, row, "review")
  <2>1. Become(w, At(w, "review", s, seen))
    BY <1>1 DEF SaveStep
  <2>. QED BY <2>1, AtFields DEF HasSaved, Gone
<1>2. CASE SaveAndAdvance(w, row)
  <2>1. Become(w, At(w, "steps", next, seen))
    BY <1>2 DEF SaveAndAdvance
  <2>. HIDE DEF next
  <2>. QED BY <2>1, AtFields DEF HasSaved, Gone
<1>3. CASE \E target : SaveAndPark(w, row, target)
  <2>1. PICK v : v = [Blank EXCEPT !.pc = "recover"]
    OBVIOUS
  <2>2. v.pc = "recover" /\ v.approval = Unread
    BY <2>1 DEF Blank
  <2>3. Become(w, v)
    BY <1>3, <2>1 DEF SaveAndPark, Park
  <2>. QED BY <2>2, <2>3 DEF HasSaved, Gone
<1>. QED BY <1>1, <1>2, <1>3

\* Saving a row that leaves the arguments alone.
LEMMA SavingAuthority ==
  ASSUME Typed, Once, Receipts, Authority, NEW w \in Workers, Point(w) \notin Gone,
         wk[w].at \in Steps, NEW row \in StepRow, row.args = Row(w).args,
         \/ SaveStep(w, row, "review")
         \/ SaveAndAdvance(w, row)
         \/ \E target : SaveAndPark(w, row, target),
         UNCHANGED <<req, approval, authorised, sent, calls>>
  PROVE  /\ Authority'
         /\ (row.receipt # "none" => Row(w).receipt # "none") => Settled
<1>1. PICK s \in Steps : s = wk[w].at
  OBVIOUS
<1>2. step' = [step EXCEPT ![s] = Merge(@, wk[w].steps[s], row)]
  BY <1>1 DEF SaveStep, SaveAndAdvance, SaveAndPark, Row
<1>3. \A r \in Steps : step'[r].args = step[r].args
  <2>1. /\ step'[s] = Merge(step[s], wk[w].steps[s], row)
        /\ \A r \in Steps : r # s => step'[r] = step[r]
    BY <1>2 DEF Typed, TypeOK
  <2>. QED BY <1>1, <2>1 DEF Merge, Row
<1>4. (row.receipt # "none" => Row(w).receipt # "none") => Settled
  BY <1>1, <1>2, SavesNothingNew DEF Row
<1>5. PICK v : /\ Become(w, v) /\ v.approval = Unread
               /\ v.pc \in {"review", "steps", "recover"}
               /\ v.pc \notin Gone => v.steps = [wk[w].steps EXCEPT ![s] = row]
  <2>1. \E v : HasSaved(w, s, row, v)
    BY <1>1, SavingSession
  <2>. QED BY <2>1 DEF HasSaved
<1>6. v.pc \notin Gone => \A r \in Writes : v.steps[r].args = wk[w].steps[r].args
  BY <1>1, <1>5, RowType, PlanAssumption DEF Row
<1>7. Reviewed(v)'
  BY <1>5, NothingReviewed DEF Arming
<1>8. \A r \in Writes : calls'[r] = 0 => sent'[r] = {}
  BY DEF Authority
<1>9. Point(w) # "idle"
  BY DEF Gone
<1>10. Authority'
  BY <1>3, <1>5, <1>6, <1>7, <1>8, <1>9, OwnerAuthority
<1>. QED BY <1>4, <1>10

\* A session that leaves the walk for good, or goes on with its rows, while the
\* rows themselves stand.
LEMMA StandsAuthority ==
  ASSUME Typed, Once, Authority, NEW w \in Workers, NEW v, Become(w, v),
         Point(w) # "idle" \/ holder = NoWorker,
         UNCHANGED <<step, req, approval, authorised, sent, calls>>,
         v.pc \notin Gone => v.steps = step \/ (Point(w) \notin Gone /\ v.steps = wk[w].steps),
         Reviewed(v)'
  PROVE  Authority' /\ Settled
<1>1. /\ \A r \in Steps : step'[r].args = step[r].args
      /\ \A s \in Writes : calls'[s] = 0 => sent'[s] = {}
  BY DEF Authority
<1>2. v.pc \notin Gone =>
        \/ \A s \in Writes : v.steps[s].args = step[s].args
        \/ Point(w) \notin Gone /\ \A s \in Writes : v.steps[s].args = wk[w].steps[s].args
  OBVIOUS
<1>3. Authority'
  BY <1>1, <1>2, OwnerAuthority
<1>. QED BY <1>3 DEF Settled

\* Starting a run and parking it keep the authority.
LEMMA EndingAuthority ==
  ASSUME Typed, Once, Authority, NEW w \in Workers,
         \/ ObserveCancellation(w) \/ StartRun(w) \/ FailPreflight(w) \/ SupervisorPauses(w)
         \/ FailIncomplete(w) \/ FinishRun(w)
  PROVE  Authority' /\ Settled
<1>1. /\ Point(w) \in {"loaded", "steps"} /\ Point(w) \notin Gone /\ Point(w) # "idle"
      /\ UNCHANGED <<step, req, approval, authorised, sent, calls>>
  BY DEF ObserveCancellation, StartRun, FailPreflight, SupervisorPauses, FailIncomplete,
         FinishRun, AtEnd, Gone, history
<1>2. CASE StartRun(w)
  <2>1. PICK v : /\ Become(w, v) /\ v.pc = "steps" /\ v.steps = wk[w].steps
                 /\ v.at = wk[w].at /\ v.approval = wk[w].approval /\ v.arg = wk[w].arg
    <3>. DEFINE v == [wk[w] EXCEPT !.status = "running", !.pc = "steps"]
    <3>1. /\ v.pc = "steps" /\ v.steps = wk[w].steps
          /\ v.at = wk[w].at /\ v.approval = wk[w].approval /\ v.arg = wk[w].arg
      BY RowType DEF Session
    <3>2. Become(w, v)
      BY <1>2 DEF StartRun
    <3>. HIDE DEF v
    <3>. QED BY <3>1, <3>2
  <2>2. wk[w].approval = Unread
    BY <1>2 DEF StartRun, Authority, Reviewed, Point
  <2>3. Reviewed(v)'
    BY <2>1, <2>2, NothingReviewed DEF Arming
  <2>. QED BY <1>1, <2>1, <2>3, StandsAuthority
<1>3. CASE ~StartRun(w)
  <2>1. Become(w, [Blank EXCEPT !.pc = "recover"])
    BY <1>3 DEF ObserveCancellation, FailPreflight, SupervisorPauses, FailIncomplete, FinishRun,
                Park
  <2>2. PICK v : v = [Blank EXCEPT !.pc = "recover"]
    OBVIOUS
  <2>3. v.pc = "recover"
    BY <2>2, BlankPoint
  <2>4. Reviewed(v)'
    BY <2>3, NothingReviewed DEF Arming
  <2>. QED BY <1>1, <2>1, <2>2, <2>3, <2>4, StandsAuthority DEF Gone
<1>. QED BY <1>2, <1>3

\* Settling, skipping or stopping at a step keeps the authority.
LEMMA StopAuthority ==
  ASSUME Typed, Once, Receipts, Authority, NEW w \in Workers,
         \/ SettleRecorded(w) \/ SkipStep(w) \/ ParkUnresolved(w) \/ ApprovalMissing(w)
         \/ ParkUngoverned(w)
  PROVE  Authority' /\ Settled
<1>1. /\ Point(w) \notin Gone /\ wk[w].at \in Steps /\ Row(w) \in StepRow
      /\ UNCHANGED <<req, approval, authorised, sent, calls>>
  BY RowType DEF SettleRecorded, SkipStep, ParkUnresolved, ApprovalMissing, ParkUngoverned,
                 Startable, NeedsApproval, Open, AtStep, Gone, history
<1>2. PICK outcome \in StepStatus :
        \/ SaveAndAdvance(w, [Row(w) EXCEPT !.status = outcome])
        \/ \E target : SaveAndPark(w, [Row(w) EXCEPT !.status = outcome], target)
  BY <1>1 DEF SettleRecorded, SkipStep, ParkUnresolved, ApprovalMissing, ParkUngoverned,
              StepStatus, StepRow
<1>. DEFINE row == [Row(w) EXCEPT !.status = outcome]
<1>3. row \in StepRow /\ row.args = Row(w).args /\ row.receipt = Row(w).receipt
  BY <1>1 DEF StepRow
<1>4. SaveAndAdvance(w, row) \/ \E target : SaveAndPark(w, row, target)
  BY <1>2
<1>. HIDE DEF row
<1>. QED BY <1>1, <1>3, <1>4, SavingAuthority

\* Reviewing a result and giving up keep the authority.
LEMMA ResultAuthority ==
  ASSUME Typed, Once, Receipts, Authority, NEW w \in Workers,
         AcceptResult(w) \/ DeferReview(w) \/ RejectResult(w) \/ GiveUpCall(w)
  PROVE  Authority' /\ Settled
<1>1. /\ Point(w) \notin Gone /\ wk[w].at \in Steps /\ Row(w) \in StepRow
      /\ UNCHANGED <<req, approval, authorised, sent, calls>>
      /\ Reviewing(w) \/ GiveUpCall(w)
  BY RowType DEF AcceptResult, DeferReview, RejectResult, GiveUpCall, Reviewing, AtStep, Point,
                 CallPoints, Typed, WorkerTyped, Gone, history
<1>2. Reviewing(w) => Row(w).receipt = "review"
  BY DEF Receipts, Loaded, Point, Row, Reviewing, Gone
<1>3. PICK outcome \in StepStatus, receipt \in Receipt :
        /\ receipt = Row(w).receipt \/ Reviewing(w)
        /\ \/ SaveAndAdvance(w, [Row(w) EXCEPT !.status = outcome, !.receipt = receipt])
           \/ \E target :
                SaveAndPark(w, [Row(w) EXCEPT !.status = outcome, !.receipt = receipt], target)
  <2>1. CASE AcceptResult(w)
    BY <2>1 DEF AcceptResult, StepStatus, Receipt
  <2>2. CASE RejectResult(w)
    BY <2>2 DEF RejectResult, StepStatus, Receipt
  <2>3. CASE DeferReview(w) \/ GiveUpCall(w)
    <3>1. PICK outcome \in StepStatus :
            \E target : SaveAndPark(w, [Row(w) EXCEPT !.status = outcome], target)
      BY <1>1, <2>3 DEF DeferReview, GiveUpCall, StepStatus, StepRow
    <3>2. [Row(w) EXCEPT !.status = outcome]
            = [Row(w) EXCEPT !.status = outcome, !.receipt = Row(w).receipt]
      BY <1>1 DEF StepRow
    <3>3. Row(w).receipt \in Receipt
      BY <1>1 DEF StepRow
    <3>. QED BY <3>1, <3>2, <3>3
  <2>. QED BY <2>1, <2>2, <2>3
<1>. DEFINE row == [Row(w) EXCEPT !.status = outcome, !.receipt = receipt]
<1>4. row \in StepRow /\ row.args = Row(w).args /\ row.receipt = receipt
  BY <1>1 DEF StepRow
<1>5. SaveAndAdvance(w, row) \/ \E target : SaveAndPark(w, row, target)
  BY <1>3
<1>. HIDE DEF row
<1>. QED BY <1>1, <1>2, <1>3, <1>4, <1>5, SavingAuthority

\* Loaded arguments that match an approved row were authorised.
LEMMA StoredMatch ==
  ASSUME Typed, Authority, NEW w \in Workers, Point(w) \notin Gone, NEW s \in Writes,
         approval[s].status = "approved", approval[s].ready,
         approval[s].args = wk[w].steps[s].args
  PROVE  wk[w].steps[s].args \in authorised[s]
<1>1. CASE s \in StartAuthorized
  BY <1>1 DEF Authority, ByStart
<1>2. CASE s \notin StartAuthorized
  BY <1>2 DEF Authority, ByPerson, Carries, Point
<1>. QED BY <1>1, <1>2

\* What a session may dispatch was authorised.
LEMMA Matched ==
  ASSUME Typed, Authority, NEW w \in Workers, Point(w) = "call", wk[w].at \in Writes,
         MayDispatch(w)
  PROVE  wk[w].arg \in authorised[wk[w].at]
<1>1. PICK s \in Writes : s = wk[w].at
  OBVIOUS
<1>2. CASE wk[w].approval = Unread
  <2>1. wk[w].arg = wk[w].steps[s].args
    BY <1>1, <1>2 DEF Authority, Reviewed, Point
  <2>2. Matches(w, approval[s])
    BY <1>1, <1>2 DEF MayDispatch
  <2>. QED BY <1>1, <2>1, <2>2, StoredMatch DEF Matches, Gone
<1>3. CASE wk[w].approval # Unread
  BY <1>3 DEF MayDispatch, Matches, Authority, Reviewed, Point
<1>. QED BY <1>2, <1>3

\* Loading an approval, starting a step and the way to the call keep the
\* authority.
LEMMA LoadAuthority ==
  ASSUME Typed, Once, Authority, NEW w \in Workers, LoadApproval(w)
  PROVE  Authority' /\ Settled
<1>1. /\ Point(w) = "steps" /\ wk[w].at \in Writes
      /\ UNCHANGED <<step, req, approval, authorised, sent, calls>>
  BY DEF LoadApproval, NeedsApproval, Open, AtStep, rows, history
<1>2. PICK s \in Writes : s = wk[w].at
  BY <1>1
<1>3. PICK v : /\ Become(w, v) /\ v.pc = "steps" /\ v.at = s /\ v.steps = wk[w].steps
               /\ v.approval = approval[s] /\ v.arg = wk[w].steps[s].args
  <2>. DEFINE v == [wk[w] EXCEPT !.approval = approval[s], !.arg = wk[w].steps[s].args]
  <2>1. /\ v.pc = "steps" /\ v.at = s /\ v.steps = wk[w].steps
        /\ v.approval = approval[s] /\ v.arg = wk[w].steps[s].args
    BY <1>1, <1>2, RowType DEF Session, Point
  <2>2. Become(w, v)
    BY <1>2 DEF LoadApproval, Row
  <2>. HIDE DEF v
  <2>. QED BY <2>1, <2>2
<1>4. (approval[s].status = "approved" /\ approval[s].ready /\ approval[s].args = v.arg)
        => v.arg \in authorised[s]
  BY <1>1, <1>3, StoredMatch DEF Gone
<1>5. Reviewed(v)'
  BY <1>1, <1>3, <1>4 DEF Reviewed, Arming
<1>. QED BY <1>1, <1>3, <1>5, StandsAuthority DEF Gone

\* The way to the call and its failures: the rows stay, and a session that is
\* past the admission of a write has been admitted with its arguments.
OnTheWay(w, v) ==
  /\ Become(w, v) /\ v.at = wk[w].at /\ v.steps = wk[w].steps
  /\ v.pc \in {"attempt", "insert", "inserted", "marked"} => v.arg = wk[w].arg
  /\ v.pc \in {"attempt", "insert", "inserted", "marked", "error"}
  /\ v.pc # "error" => AdmitCall(w) \/ Point(w) \in Arming \/ wk[w].at \notin Writes

LEMMA AttemptSession ==
  ASSUME Typed, Once, NEW w \in Workers, wk[w].at \in Steps,
         \/ AdmitCall(w) \/ RefuseCall(w) \/ RefreshCancellation(w) \/ InsertAttempt(w)
         \/ MarkDispatched(w) \/ FailAttempt(w)
  PROVE  \E v : OnTheWay(w, v)
<1>1. CASE AdmitCall(w)
  <2>1. PICK s \in Steps : s = wk[w].at
    OBVIOUS
  <2>. PICK left : left = Budget(s) - Spent(s)
    OBVIOUS
  <2>. PICK next : next = Len(ledger[s]) + 1
    OBVIOUS
  <2>. DEFINE v == [wk[w] EXCEPT !.pc = "attempt", !.left = left, !.number = next]
  <2>2. v.pc = "attempt" /\ v.at = wk[w].at /\ v.steps = wk[w].steps /\ v.arg = wk[w].arg
    BY RowType DEF Session
  <2>3. Become(w, v)
    BY <1>1, <2>1 DEF AdmitCall
  <2>. HIDE DEF v
  <2>. QED BY <1>1, <2>2, <2>3 DEF OnTheWay
<1>2. CASE RefreshCancellation(w)
  <2>. DEFINE point == IF cancelReq THEN "error" ELSE "insert"
              v == [wk[w] EXCEPT !.cancel = cancelReq, !.pc = point]
  <2>1. v.pc = point /\ v.at = wk[w].at /\ v.steps = wk[w].steps /\ v.arg = wk[w].arg
    BY RowType DEF Session
  <2>2. Become(w, v) /\ Point(w) \in Arming
    BY <1>2 DEF RefreshCancellation, Arming
  <2>. HIDE DEF v
  <2>. QED BY <2>1, <2>2 DEF OnTheWay
<1>3. CASE InsertAttempt(w)
  <2>1. PICK left : left = wk[w].left - 1
    OBVIOUS
  <2>. DEFINE v == [wk[w] EXCEPT !.pc = "inserted", !.left = left]
  <2>2. v.pc = "inserted" /\ v.at = wk[w].at /\ v.steps = wk[w].steps /\ v.arg = wk[w].arg
    BY RowType DEF Session
  <2>3. Become(w, v) /\ Point(w) \in Arming
    BY <1>3, <2>1 DEF InsertAttempt, Arming
  <2>. HIDE DEF v
  <2>. QED BY <2>2, <2>3 DEF OnTheWay
<1>4. CASE MarkDispatched(w) \/ RefuseCall(w)
  <2>1. PICK point \in {"marked", "error"} :
          /\ Become(w, [wk[w] EXCEPT !.pc = point])
          /\ point = "marked" => Point(w) \in Arming
    BY <1>4 DEF MarkDispatched, RefuseCall, Goto, Arming
  <2>. DEFINE v == [wk[w] EXCEPT !.pc = point]
  <2>2. v.pc = point /\ v.at = wk[w].at /\ v.steps = wk[w].steps /\ v.arg = wk[w].arg
    BY RowType DEF Session
  <2>. HIDE DEF v
  <2>3. Become(w, v)
    BY <2>1 DEF v
  <2>. QED BY <2>1, <2>2, <2>3 DEF OnTheWay
<1>5. CASE FailAttempt(w)
  <2>1. PICK next : next = wk[w].number + 1
    OBVIOUS
  <2>. DEFINE retry == [wk[w] EXCEPT !.pc = "attempt", !.number = next]
              stop == At(w, "error", wk[w].at, wk[w].steps)
  <2>2. /\ (Become(w, retry) /\ wk[w].left > 0) \/ Become(w, stop)
        /\ Point(w) \in HasRow
    BY <1>5, <2>1 DEF FailAttempt, HasRow
  <2>3. wk[w].at \in Writes => wk[w].left = 0
    BY <2>2 DEF Once, FreshWrite, Point
  <2>4. /\ retry.pc = "attempt" /\ retry.at = wk[w].at /\ retry.steps = wk[w].steps
        /\ retry.arg = wk[w].arg
    BY RowType DEF Session
  <2>5. stop.pc = "error" /\ stop.at = wk[w].at /\ stop.steps = wk[w].steps
    BY AtFields
  <2>. HIDE DEF retry, stop
  <2>. QED BY <2>2, <2>3, <2>4, <2>5 DEF OnTheWay, Arming, HasRow
<1>. QED BY <1>1, <1>2, <1>3, <1>4, <1>5

\* So they keep the authority.
LEMMA AttemptAuthority ==
  ASSUME Typed, Once, Authority, NEW w \in Workers,
         \/ AdmitCall(w) \/ RefuseCall(w) \/ RefreshCancellation(w) \/ InsertAttempt(w)
         \/ MarkDispatched(w) \/ FailAttempt(w)
  PROVE  Authority' /\ Settled
<1>1. /\ Point(w) \notin Gone /\ Point(w) # "idle" /\ wk[w].at \in Steps
      /\ UNCHANGED <<step, req, approval, authorised, sent, calls>>
  BY DEF AdmitCall, RefuseCall, RefreshCancellation, InsertAttempt, MarkDispatched, FailAttempt,
         Gone, rows, history, Point, CallPoints, Typed, WorkerTyped
<1>2. PICK v : OnTheWay(w, v)
  BY <1>1, AttemptSession
<1>3. (v.pc # "error" /\ wk[w].at \in Writes) => wk[w].arg \in authorised[wk[w].at]
  <2>1. CASE AdmitCall(w)
    BY <2>1, Matched DEF AdmitCall
  <2>2. CASE Point(w) \in Arming
    BY <2>2 DEF Authority, Reviewed, Point
  <2>. QED BY <1>2, <2>1, <2>2 DEF OnTheWay
<1>4. Reviewed(v)'
  BY <1>1, <1>2, <1>3 DEF OnTheWay, Reviewed, Arming
<1>. QED BY <1>1, <1>2, <1>4, StandsAuthority DEF OnTheWay

\* The approval a session has loaded shows an action.
LEMMA ShownAction ==
  ASSUME Typed, NEW w \in Workers, wk[w].approval # Unread
  PROVE  wk[w].approval.args \in Actions
BY RowType DEF Session, ApprovalRow

\* Preparing an action leaves its approval undecided, and never ready where the
\* start of the plan authorises.
LEMMA PrepareAuthority ==
  ASSUME Typed, Once, Receipts, Authority, NEW w \in Workers,
         ParkUnprepared(w) \/ ProposeAction(w)
  PROVE  Authority' /\ Settled
<1>1. /\ Point(w) \notin Gone /\ Point(w) # "idle" /\ wk[w].at \in Steps /\ Row(w) \in StepRow
      /\ wk[w].at \in Writes /\ UNCHANGED <<ledger, req, authorised, sent, calls>>
  BY RowType DEF ParkUnprepared, ProposeAction, NeedsApproval, Open, AtStep, Gone, ledgers,
                 history
<1>2. PICK s \in Writes : s = wk[w].at
  BY <1>1
<1>3. Settled
  <2>1. PICK outcome \in StepStatus :
          step' = [step EXCEPT ![s] = Merge(@, Row(w), [Row(w) EXCEPT !.status = outcome])]
    BY <1>2 DEF ParkUnprepared, ProposeAction, SaveAndPark, StepStatus
  <2>. DEFINE row == [Row(w) EXCEPT !.status = outcome]
  <2>2. row \in StepRow /\ row.args = Row(w).args /\ row.receipt = Row(w).receipt
    BY <1>1 DEF StepRow
  <2>3. step' = [step EXCEPT ![s] = Merge(@, wk[w].steps[s], row)]
    BY <1>2, <2>1 DEF Row
  <2>. HIDE DEF row
  <2>. QED BY <1>1, <1>2, <2>2, <2>3, SavesNothingNew DEF Row
<1>4. Become(w, [Blank EXCEPT !.pc = "recover"])
  BY DEF ParkUnprepared, ProposeAction, SaveAndPark, Park
<1>5. /\ wk'[w].pc = "recover"
      /\ \A u \in Workers : u # w => wk'[u] = wk[u] /\ wk[u].pc = "idle"
  BY <1>1, <1>4, Alone, BlankPoint DEF Become, Typed, TypeOK, Point
<1>6. /\ \A r \in Writes : r # s => approval'[r] = approval[r]
      /\ approval'[s].status = "approved" => approval[s].status = "approved"
      /\ s \in StartAuthorized => ~approval'[s].ready \/ approval' = approval
  <2>1. PICK ready \in BOOLEAN, a \in Actions :
          /\ approval' = approval \/ StoreApproval(s, wk[w].approval, "pending", ready, a)
          /\ s \in StartAuthorized => ~ready
    <3>1. CASE ParkUnprepared(w)
      BY <1>2, <3>1, ShownAction, PlanAssumption DEF ParkUnprepared, PlanAssumption
    <3>2. CASE ProposeAction(w)
      BY <1>2, <3>2 DEF ProposeAction
    <3>. QED BY <3>1, <3>2
  <2>. QED BY <2>1 DEF StoreApproval, Typed, TypeOK
<1>7. ASSUME NEW r \in Writes \ StartAuthorized PROVE ByPerson(r)'
  <2>1. ByPerson(r) /\ r \in Steps
    BY PlanAssumption DEF Authority
  <2>2. \A u \in Workers : Carries(r, wk[u])'
    BY <1>5 DEF Carries, Gone
  <2>. QED BY <1>1, <1>3, <1>6, <2>1, <2>2 DEF ByPerson, Approving, Settled
<1>8. ASSUME NEW r \in StartAuthorized PROVE ByStart(r)'
  <2>1. ByStart(r) /\ r \in Writes
    BY PlanAssumption DEF Authority
  <2>. QED BY <1>1, <1>6, <2>1 DEF ByStart, Approving
<1>9. \A u \in Workers : Reviewed(wk[u])'
  BY <1>5 DEF Reviewed, Arming
<1>10. \A r \in Writes : calls'[r] = 0 => sent'[r] = {}
  BY <1>1 DEF Authority
<1>. QED BY <1>3, <1>7, <1>8, <1>9, <1>10 DEF Authority

\* The start of the plan authorises the action that it makes ready.
LEMMA AuthorizeAuthority ==
  ASSUME Typed, Once, Receipts, Authority, NEW w \in Workers, AuthorizeByStart(w)
  PROVE  Authority' /\ Settled
<1>1. /\ Point(w) = "steps" /\ wk[w].at \in Steps /\ Row(w) \in StepRow
      /\ wk[w].approval # Unread /\ UNCHANGED <<ledger, req, sent, calls>>
  BY RowType DEF AuthorizeByStart, NeedsApproval, Open, AtStep, Gone, ledgers
<1>2. PICK s \in StartAuthorized : s = wk[w].at /\ s \in Writes
  BY PlanAssumption DEF AuthorizeByStart
<1>3. PICK a \in Actions :
        /\ StoreApproval(s, wk[w].approval, "approved", TRUE, a)
        /\ authorised' = [authorised EXCEPT ![s] = @ \cup {a}]
        /\ step' = [step EXCEPT ![s] = Merge(@, Row(w), [Row(w) EXCEPT !.status = "pending"])]
        /\ Become(w, [wk[w] EXCEPT !.steps[s].status = "pending", !.arg = a,
                         !.approval = [status |-> "approved", ready |-> TRUE, args |-> a]])
  BY <1>2 DEF AuthorizeByStart
<1>. DEFINE row == [Row(w) EXCEPT !.status = "pending"]
<1>4. row \in StepRow /\ row.args = Row(w).args /\ row.receipt = Row(w).receipt
  BY <1>1 DEF StepRow, StepStatus
<1>5. Settled
  <2>1. step' = [step EXCEPT ![s] = Merge(@, wk[w].steps[s], row)]
    BY <1>2, <1>3 DEF Row
  <2>. HIDE DEF row
  <2>. QED BY <1>1, <1>2, <1>4, <2>1, SavesNothingNew DEF Row, Gone
<1>6. PICK v : /\ Become(w, v) /\ v.pc = "steps" /\ v.at = s /\ v.arg = a
               /\ v.approval = [status |-> "approved", ready |-> TRUE, args |-> a]
               /\ v.steps = [wk[w].steps EXCEPT ![s] = row]
  <2>. DEFINE v == [wk[w] EXCEPT !.steps[s].status = "pending", !.arg = a,
                          !.approval = [status |-> "approved", ready |-> TRUE, args |-> a]]
  <2>1. /\ v.pc = "steps" /\ v.at = s /\ v.arg = a
        /\ v.approval = [status |-> "approved", ready |-> TRUE, args |-> a]
        /\ v.steps = [wk[w].steps EXCEPT ![s] = row]
    BY <1>1, <1>2, RowType DEF Session, Row, Point
  <2>. HIDE DEF v
  <2>2. Become(w, v)
    BY <1>3 DEF v
  <2>. QED BY <2>1, <2>2
<1>. HIDE DEF row
<1>7. /\ wk'[w] = v /\ \A u \in Workers : u # w => wk'[u] = wk[u] /\ wk[u].pc = "idle"
  BY <1>1, <1>6, Alone DEF Become, Typed, TypeOK, Point
<1>8. /\ \A r \in Writes : r # s => approval'[r] = approval[r]
      /\ approval'[s].status # "pending" /\ approval'[s].args = a
  <2>1. wk[w].approval.status # "pending" => approval[s].status # "pending"
    BY <1>1, <1>2 DEF Authority, Reviewed, Point
  <2>2. PICK st : st = IF wk[w].approval.status = "approved" THEN approval[s].status
                       ELSE "approved"
    OBVIOUS
  <2>3. approval' = [approval EXCEPT ![s] = [status |-> st, ready |-> TRUE, args |-> a]]
    BY <1>3, <2>2 DEF StoreApproval
  <2>4. approval'[s] = [status |-> st, ready |-> TRUE, args |-> a]
    BY <1>2, <2>3 DEF Typed, TypeOK
  <2>5. st # "pending"
    BY <2>1, <2>2
  <2>. QED BY <2>3, <2>4, <2>5 DEF Typed, TypeOK
<1>9. /\ \A r \in Steps : r # s => authorised'[r] = authorised[r]
      /\ a \in authorised'[s]
  BY <1>1, <1>2, <1>3 DEF Typed, TypeOK
<1>10. ASSUME NEW r \in Writes \ StartAuthorized PROVE ByPerson(r)'
  <2>1. ByPerson(r) /\ r \in Steps /\ r # s /\ Carries(r, wk[w])
    BY PlanAssumption DEF Authority, ByPerson
  <2>2. v.steps[r].args = wk[w].steps[r].args
    BY <1>6, <2>1, RowType
  <2>3. \A u \in Workers : Carries(r, wk[u])'
    BY <1>1, <1>6, <1>7, <1>8, <1>9, <2>1, <2>2 DEF Carries, Gone, Point
  <2>. QED BY <1>1, <1>5, <1>8, <1>9, <2>1, <2>3 DEF ByPerson, Approving, Settled
<1>11. ASSUME NEW r \in StartAuthorized PROVE ByStart(r)'
  <2>1. ByStart(r) /\ r \in Writes /\ r \in Steps
    BY PlanAssumption DEF Authority
  <2>. QED BY <1>1, <1>8, <1>9, <2>1 DEF ByStart, Approving
<1>12. Reviewed(v)'
  BY <1>6, <1>8, <1>9 DEF Reviewed, Arming
<1>13. \A u \in Workers : Reviewed(wk[u])'
  BY <1>7, <1>12 DEF Reviewed, Arming
<1>14. \A r \in Writes : calls'[r] = 0 => sent'[r] = {}
  BY <1>1 DEF Authority
<1>. QED BY <1>5, <1>10, <1>11, <1>13, <1>14 DEF Authority

\* A step starts with the action its session has matched, or loaded.
LEMMA StartAuthority ==
  ASSUME Typed, Once, Receipts, Authority, NEW w \in Workers, StartStep(w)
  PROVE  Authority' /\ Settled
<1>1. /\ Point(w) = "steps" /\ wk[w].at \in Steps /\ Row(w) \in StepRow
      /\ UNCHANGED <<ledger, req, approval, authorised, sent, calls>>
  BY RowType DEF StartStep, Startable, Open, AtStep, ledgers, history
<1>2. PICK s \in Steps : s = wk[w].at
  BY <1>1
<1>. DEFINE row == [Row(w) EXCEPT !.status = "running"]
<1>3. row \in StepRow /\ row.args = Row(w).args /\ row.receipt = Row(w).receipt
  BY <1>1 DEF StepRow, StepStatus
<1>4. PICK v : /\ Become(w, v) /\ v.pc = "call" /\ v.at = s
               /\ v.steps = [wk[w].steps EXCEPT ![s] = row]
               /\ v.approval = wk[w].approval
               /\ v.arg = IF wk[w].approval = Unread THEN row.args ELSE wk[w].arg
  <2>. DEFINE arg == IF wk[w].approval = Unread THEN row.args ELSE wk[w].arg
              v == [wk[w] EXCEPT !.pc = "call", !.steps[s] = row, !.arg = arg]
  <2>1. /\ v.pc = "call" /\ v.at = s /\ v.steps = [wk[w].steps EXCEPT ![s] = row]
        /\ v.approval = wk[w].approval /\ v.arg = arg
    <3>. HIDE DEF arg, row
    <3>. QED BY <1>2, RowType DEF Session
  <2>2. Become(w, v)
    BY <1>2, RowType DEF StartStep, Row, Session
  <2>. HIDE DEF v
  <2>. QED BY <2>1, <2>2
<1>5. step' = [step EXCEPT ![s] = Merge(@, wk[w].steps[s], row)]
  BY <1>2 DEF StartStep, Row
<1>. HIDE DEF row
<1>6. Settled
  BY <1>1, <1>2, <1>3, <1>5, SavesNothingNew DEF Row, Gone
<1>7. /\ \A r \in Steps : step'[r].args = step[r].args
      /\ \A r \in Writes : calls'[r] = 0 => sent'[r] = {}
  BY <1>1, <1>6 DEF Settled, Authority
<1>8. \A r \in Writes : v.steps[r].args = wk[w].steps[r].args
  BY <1>2, <1>3, <1>4, RowType, PlanAssumption DEF Row
<1>9. Reviewed(wk[w]) /\ wk[w].pc = "steps" /\ wk[w].at = s
  BY <1>1, <1>2 DEF Authority, Point
<1>10. v.steps[s] = row
  BY <1>2, <1>4, RowType
<1>11. Reviewed(v)'
  BY <1>1, <1>4, <1>9, <1>10 DEF Reviewed, Arming
<1>. QED BY <1>1, <1>4, <1>6, <1>7, <1>8, <1>11, OwnerAuthority DEF Gone

\* The call goes out after its mark.
LEMMA CallAuthority ==
  ASSUME Typed, Once, Authority, NEW w \in Workers, CallProvider(w)
  PROVE  Authority'
<1>1. PICK s \in Steps : s = wk[w].at
  BY DEF CallProvider, Point, CallPoints, Typed, WorkerTyped
<1>2. /\ Point(w) = "marked"
      /\ calls' = [calls EXCEPT ![s] = @ + 1]
      /\ sent' = [sent EXCEPT ![s] = @ \cup {wk[w].arg}]
      /\ UNCHANGED <<ledger, step, req, approval, authorised>>
  BY <1>1 DEF CallProvider, rows, ledgers
<1>3. PICK v : Become(w, v) /\ v.pc = "sent" /\ v.at = s /\ v.steps = wk[w].steps
  <2>. DEFINE v == [wk[w] EXCEPT !.pc = "sent"]
  <2>1. v.pc = "sent" /\ v.at = s /\ v.steps = wk[w].steps
    BY <1>1, RowType DEF Session
  <2>2. Become(w, v)
    BY DEF CallProvider, Goto
  <2>. HIDE DEF v
  <2>. QED BY <2>1, <2>2
<1>4. \A r \in Writes : calls'[r] = 0 => sent'[r] = {}
  <2>1. calls'[s] # 0
    BY <1>2 DEF Typed, TypeOK
  <2>2. \A r \in Steps : r # s => calls'[r] = calls[r] /\ sent'[r] = sent[r]
    BY <1>2 DEF Typed, TypeOK
  <2>. QED BY <2>1, <2>2, PlanAssumption DEF Authority
<1>5. Reviewed(v)'
  <2>1. s \in Writes => Dispatched(s) # {}
    BY <1>1, <1>2 DEF Once, FreshWrite, Point
  <2>. QED BY <1>2, <1>3, <2>1 DEF Reviewed, Arming, Dispatched
<1>6. Point(w) # "idle" /\ Point(w) \notin Gone
  BY <1>2 DEF Gone
<1>. QED BY <1>2, <1>3, <1>4, <1>5, <1>6, OwnerAuthority

\* The result of a call changes no arguments.
LEMMA AnswerAuthority ==
  ASSUME Typed, Once, Receipts, Authority, NEW w \in Workers,
         CallSucceeds(w) \/ ReconcileWrite(w)
  PROVE  Authority'
<1>1. /\ Point(w) \notin Gone /\ wk[w].at \in Steps /\ Row(w) \in StepRow
      /\ UNCHANGED <<req, approval, authorised, sent, calls>>
      /\ SaveStep(w, [Row(w) EXCEPT !.receipt = "review"], "review")
  BY RowType DEF CallSucceeds, ReconcileWrite, Gone, Point, CallPoints, Typed, WorkerTyped,
                 history
<1>. DEFINE row == [Row(w) EXCEPT !.receipt = "review"]
<1>2. row \in StepRow /\ row.args = Row(w).args
  BY <1>1 DEF StepRow, Receipt
<1>. HIDE DEF row
<1>3. SaveStep(w, row, "review")
  BY <1>1 DEF row
<1>. QED BY <1>1, <1>2, <1>3, SavingAuthority

\* A delivery begins, recovers and ends with the rows as they stand.
LEMMA EndsAuthority ==
  ASSUME Typed, Once, Authority, NEW w \in Workers,
         \/ Begin(w) \/ ReadRecovery(w) \/ HandOff(w) \/ Crash(w) \/ CollideAttempt(w)
  PROVE  Authority' /\ Settled
<1>1. /\ UNCHANGED <<step, req, approval, authorised, sent, calls>>
      /\ Point(w) # "idle" \/ holder = NoWorker
  BY DEF Begin, ReadRecovery, HandOff, Crash, CollideAttempt, rows, history
<1>2. PICK v : /\ Become(w, v) /\ v.pc \in Gone \cup {"loaded", "recovering"}
               /\ v.approval = Unread
               /\ v.pc \notin Gone => v.steps = step
  <2>1. CASE Release(w)
    BY <2>1, GoneLoaded DEF Release, Blank
  <2>2. CASE ~Release(w)
    <3>1. PICK point \in {"loaded", "recovering"} :
            Become(w, [Blank EXCEPT !.pc = point, !.status = status, !.cancel = cancelReq,
                                    !.steps = step])
      BY <2>2 DEF Begin, ReadRecovery, HandOff, Crash, CollideAttempt
    <3>. DEFINE v == [Blank EXCEPT !.pc = point, !.status = status, !.cancel = cancelReq,
                                   !.steps = step]
    <3>2. v.pc = point /\ v.steps = step /\ v.approval = Unread
      BY DEF Blank
    <3>. HIDE DEF v
    <3>3. Become(w, v)
      BY <3>1 DEF v
    <3>. QED BY <3>2, <3>3
  <2>. QED BY <2>1, <2>2
<1>3. Reviewed(v)'
  BY <1>2, NothingReviewed DEF Arming, Gone
<1>. QED BY <1>1, <1>2, <1>3, StandsAuthority

\* A recovery reopens a step with the arguments it has.
LEMMA RecoveryAuthority ==
  ASSUME Typed, Once, Receipts, Authority, NEW w \in Workers, ScheduleRecovery(w)
  PROVE  Authority' /\ Settled
<1>1. PICK s \in Steps, target \in {"awaiting_approval", "pending"} :
        step' = [step EXCEPT ![s] = Merge(@, wk[w].steps[s],
                                          [wk[w].steps[s] EXCEPT !.status = target])]
  BY DEF ScheduleRecovery
<1>. DEFINE row == [wk[w].steps[s] EXCEPT !.status = target]
<1>2. /\ row \in StepRow /\ row.receipt = wk[w].steps[s].receipt
      /\ row.args = wk[w].steps[s].args
  BY RowType DEF StepRow, StepStatus
<1>3. step' = [step EXCEPT ![s] = Merge(@, wk[w].steps[s], row)]
  BY <1>1
<1>. HIDE DEF row
<1>4. /\ Become(w, Blank) /\ Point(w) \notin Gone /\ Point(w) # "idle"
      /\ UNCHANGED <<req, approval, authorised, sent, calls>>
  BY DEF ScheduleRecovery, Release, Gone, history
<1>5. Settled
  BY <1>2, <1>3, <1>4, SavesNothingNew
<1>6. PICK v : v = Blank
  OBVIOUS
<1>7. v.pc \in Gone /\ v.pc = "idle"
  BY <1>6, GoneLoaded, BlankPoint
<1>8. Reviewed(v)'
  BY <1>7, NothingReviewed DEF Arming
<1>9. /\ \A r \in Steps : step'[r].args = step[r].args
      /\ \A r \in Writes : calls'[r] = 0 => sent'[r] = {}
  BY <1>4, <1>5 DEF Settled, Authority
<1>10. Authority'
  BY <1>4, <1>6, <1>7, <1>8, <1>9, OwnerAuthority
<1>. QED BY <1>5, <1>10

\* Whoever leaves arguments, authorisations and sessions alone, and asks to
\* approve only what a person may approve, keeps the authority.
LEMMA FrameAuthority ==
  ASSUME Typed, Authority, UNCHANGED <<wk, ledger, authorised, sent, calls>>,
         \A r \in Steps : step'[r].args = step[r].args,
         \A r \in Writes : /\ approval'[r].args = approval[r].args
                           /\ approval'[r].ready = approval[r].ready
                           /\ \/ approval'[r].status = approval[r].status
                              \/ approval'[r].status = "rejected",
         \A c \in Clients, r \in Writes : Approving(c, r)' =>
           \/ Approving(c, r) /\ req'[c] = req[c]
           \/ r \notin StartAuthorized /\ req'[c].row.args = step[r].args
  PROVE  Authority'
<1>1. ASSUME NEW r \in Writes \ StartAuthorized PROVE ByPerson(r)'
  <2>1. ByPerson(r) /\ r \in Steps
    BY PlanAssumption DEF Authority
  <2>2. \A w \in Workers : Carries(r, wk[w])'
    BY <2>1 DEF ByPerson, Carries
  <2>3. \A c \in Clients :
          (Approving(c, r)' /\ authorised[r] = {}) => req'[c].row.args = PlannedAction
    BY <2>1 DEF ByPerson
  <2>. QED BY <2>1, <2>2, <2>3 DEF ByPerson
<1>2. ASSUME NEW r \in StartAuthorized PROVE ByStart(r)'
  <2>1. ByStart(r) /\ r \in Writes
    BY PlanAssumption DEF Authority
  <2>2. \A c \in Clients : ~Approving(c, r)'
    BY <2>1 DEF ByStart
  <2>. QED BY <2>1, <2>2 DEF ByStart
<1>3. ASSUME NEW w \in Workers PROVE Reviewed(wk[w])'
  <2>1. Reviewed(wk[w])
    BY DEF Authority
  <2>. QED BY <2>1 DEF Reviewed, Dispatched
<1>4. \A r \in Writes : calls'[r] = 0 => sent'[r] = {}
  BY DEF Authority
<1>. QED BY <1>1, <1>2, <1>3, <1>4 DEF Authority

\* An approval authorises the arguments that it gives to the step.
LEMMA ApprovalAuthority ==
  ASSUME Typed, Authority, NEW c \in Clients, WriteApproval(c)
  PROVE  Authority'
<1>1. PICK s \in Steps, row \in StepRow, a \in Actions :
        s = req[c].step /\ row = req[c].row /\ a = req[c].arg
  BY AskedTyped DEF WriteApproval
<1>15. PICK seen : seen = req[c].approval.args
  OBVIOUS
<1>2. Approving(c, s)
  BY <1>1 DEF WriteApproval, Asked, Approving
<1>3. s \notin StartAuthorized
  BY <1>2 DEF Authority, ByStart
<1>. DEFINE new == [row EXCEPT !.status = "pending", !.args = a]
<1>4. /\ approval' = [approval EXCEPT ![s] =
           [status |-> "approved", ready |-> TRUE,
            args |-> IF a = row.args /\ a = seen THEN @.args ELSE a]]
      /\ authorised' = [authorised EXCEPT ![s] = @ \cup {a}]
      /\ step' = [step EXCEPT ![s] = Merge(@, row, new)]
      /\ req' = [req EXCEPT ![c] = NoRequest]
      /\ UNCHANGED <<wk, ledger, sent, calls>>
  BY <1>1, <1>15 DEF WriteApproval, Done, ledgers
<1>5. new.args = a
  BY DEF StepRow
<1>. HIDE DEF new
<1>6. /\ step'[s].args = IF a = row.args THEN step[s].args ELSE a
      /\ \A r \in Steps : r # s => step'[r] = step[r]
  BY <1>4, <1>5 DEF Merge, Typed, TypeOK
<1>7. /\ authorised'[s] = authorised[s] \cup {a}
      /\ \A r \in Steps : r # s => authorised'[r] = authorised[r]
  BY <1>4 DEF Typed, TypeOK
<1>8. /\ \A r \in Writes : r # s => approval'[r] = approval[r]
      /\ s \in Writes => /\ approval'[s].status = "approved"
                         /\ \/ approval'[s].args = a
                            \/ a = row.args /\ approval'[s].args = approval[s].args
  BY <1>4 DEF Typed, TypeOK
<1>9. \A d \in Clients, r \in Steps : Approving(d, r)' => Approving(d, r) /\ req'[d] = req[d]
  BY <1>4 DEF Approving, Typed, TypeOK
<1>10. ASSUME NEW r \in Writes \ StartAuthorized PROVE ByPerson(r)'
  <2>1. ByPerson(r) /\ r \in Steps
    BY PlanAssumption DEF Authority
  <2>2. CASE r # s
    <3>1. \A w \in Workers : Carries(r, wk[w])'
      BY <1>4, <1>7, <1>8, <2>1, <2>2 DEF ByPerson, Carries
    <3>. QED BY <1>6, <1>7, <1>8, <1>9, <2>1, <2>2, <3>1 DEF ByPerson
  <2>3. CASE r = s
    <3>1. authorised[s] = {} => row.args = PlannedAction
      BY <1>1, <1>2, <2>1, <2>3 DEF ByPerson
    <3>2. /\ step'[s].args \in authorised'[s]
          /\ authorised'[s] # {}
      BY <1>6, <1>7, <2>1, <2>3, <3>1 DEF ByPerson
    <3>3. ASSUME NEW w \in Workers PROVE Carries(s, wk[w])'
      <4>1. Carries(s, wk[w])
        BY <2>1, <2>3 DEF ByPerson
      <4>. QED BY <1>4, <1>7, <1>8, <2>3, <3>1, <4>1 DEF Carries
    <3>. QED BY <2>3, <3>2, <3>3 DEF ByPerson
  <2>. QED BY <2>2, <2>3
<1>11. ASSUME NEW r \in StartAuthorized PROVE ByStart(r)'
  <2>1. ByStart(r) /\ r \in Writes /\ r \in Steps /\ r # s
    BY <1>3, PlanAssumption DEF Authority
  <2>. QED BY <1>7, <1>8, <1>9, <2>1 DEF ByStart
<1>12. ASSUME NEW w \in Workers PROVE Reviewed(wk[w])'
  <2>1. Reviewed(wk[w])
    BY DEF Authority
  <2>2. \A r \in Writes : /\ authorised[r] \subseteq authorised'[r]
                          /\ approval[r].status # "pending" => approval'[r].status # "pending"
                          /\ Dispatched(r)' = Dispatched(r)
    BY <1>4, <1>7, <1>8, PlanAssumption DEF Dispatched
  <2>. QED BY <1>4, <2>1, <2>2 DEF Reviewed
<1>13. \A r \in Writes : calls'[r] = 0 => sent'[r] = {}
  BY <1>4 DEF Authority
<1>. QED BY <1>10, <1>11, <1>12, <1>13 DEF Authority

\* What an API request reads: only a decision asks to approve, a preview that
\* is ready and undecided, with the arguments the step has.
LEMMA ReadingApproval ==
  ASSUME Typed, NEW c \in Clients,
         \/ ReadCancel(c) \/ ReadAbandon(c) \/ ReadRetry(c) \/ ReadRecheck(c) \/ ReadSkip(c)
         \/ ReadDecision(c)
  PROVE  /\ UNCHANGED <<rows, ledgers, holder, wk, history>>
         /\ \A d \in Clients : d # c => req'[d] = req[d]
         /\ \A r \in Steps : Approving(c, r)' =>
              /\ r \in Writes /\ approval[r].status = "pending" /\ approval[r].ready
              /\ req'[c].row = step[r]
<1>1. CASE ReadCancel(c) \/ ReadAbandon(c) \/ ReadRecheck(c)
  <2>1. PICK k \in {"cancel", "abandon", "recheck"} : LoadRun(c, k)
    BY <1>1 DEF ReadCancel, ReadAbandon, ReadRecheck
  <2>2. req'[c].kind = k
    BY <2>1 DEF LoadRun, Load, Typed, TypeOK
  <2>3. \A r : ~Approving(c, r)'
    BY <2>2 DEF Approving
  <2>. QED BY <2>1, <2>3 DEF LoadRun, Load, Typed, TypeOK
<1>2. CASE ReadRetry(c) \/ ReadSkip(c) \/ \E s \in Writes : LoadStep(c, "reject", s, PlannedAction)
  <2>1. PICK k \in {"retry", "skip", "reject"}, s \in Steps, a \in Actions :
          LoadStep(c, k, s, a)
    BY <1>2, PlanAssumption DEF ReadRetry, ReadSkip
  <2>2. req'[c].kind = k
    BY <2>1 DEF LoadStep, Load, Typed, TypeOK
  <2>3. \A r : ~Approving(c, r)'
    BY <2>2 DEF Approving
  <2>. QED BY <2>1, <2>3 DEF LoadStep, Load, Typed, TypeOK
<1>3. CASE \E s \in Writes : /\ approval[s].status = "pending" /\ approval[s].ready
                             /\ \E a \in Actions : LoadStep(c, "approve", s, a)
  <2>1. PICK s \in Writes, a \in Actions :
          /\ approval[s].status = "pending" /\ approval[s].ready /\ LoadStep(c, "approve", s, a)
    BY <1>3
  <2>2. req'[c].step = s /\ req'[c].row = step[s]
    BY <2>1 DEF LoadStep, Load, Typed, TypeOK
  <2>3. \A r : Approving(c, r)' => r = s
    BY <2>2 DEF Approving
  <2>. QED BY <2>1, <2>2, <2>3 DEF LoadStep, Load, Typed, TypeOK
<1>. QED BY <1>1, <1>2, <1>3 DEF ReadDecision

\* Every API request keeps the authority.
LEMMA RequestAuthority ==
  ASSUME Typed, Authority, NEW c \in Clients, Ask(c)
  PROVE  Authority'
<1>1. CASE \/ ReadCancel(c) \/ ReadAbandon(c) \/ ReadRetry(c) \/ ReadRecheck(c) \/ ReadSkip(c)
           \/ ReadDecision(c)
  <2>1. UNCHANGED <<wk, ledger, step, approval, authorised, sent, calls>>
    BY <1>1, ReadingApproval DEF rows, ledgers, history
  <2>2. ASSUME NEW d \in Clients, NEW r \in Writes, Approving(d, r)'
        PROVE  \/ Approving(d, r) /\ req'[d] = req[d]
               \/ r \notin StartAuthorized /\ req'[d].row.args = step[r].args
    <3>1. CASE d # c
      BY <1>1, <2>2, <3>1, ReadingApproval DEF Approving
    <3>2. CASE d = c
      <4>1. approval[r].status = "pending" /\ approval[r].ready /\ req'[c].row = step[r]
        BY <1>1, <2>2, <3>2, ReadingApproval, PlanAssumption
      <4>. QED BY <3>2, <4>1 DEF Authority, ByStart
    <3>. QED BY <3>1, <3>2
  <2>. QED BY <2>1, <2>2, FrameAuthority
<1>2. CASE WriteApproval(c)
  BY <1>2, ApprovalAuthority
<1>3. CASE \/ WriteCancel(c) \/ WriteAbandon(c) \/ WriteRetry(c) \/ WriteRecheck(c)
           \/ WriteSkip(c) \/ WriteRejection(c) \/ RefuseDecision(c)
  <2>1. /\ req' = [req EXCEPT ![c] = NoRequest]
        /\ UNCHANGED <<wk, ledger, authorised, sent, calls>>
        /\ \/ UNCHANGED approval
           \/ \E s \in Steps : approval' = [approval EXCEPT ![s].status = "rejected"]
    BY <1>3, AskedTyped
       DEF WriteCancel, WriteAbandon, WriteRetry, WriteRecheck, WriteSkip, WriteRejection,
           RefuseDecision, Done, rows, ledgers, history
  <2>2. \A r \in Steps : step'[r].args = step[r].args
    <3>1. ~WriteApproval(c)
      BY <1>3 DEF WriteCancel, WriteAbandon, WriteRetry, WriteRecheck, WriteSkip, WriteRejection,
                  RefuseDecision, WriteApproval, Asked
    <3>. QED BY <3>1, RequestRows
  <2>3. \A r \in Writes : /\ approval'[r].args = approval[r].args
                          /\ approval'[r].ready = approval[r].ready
                          /\ \/ approval'[r].status = approval[r].status
                             \/ approval'[r].status = "rejected"
    <3>1. CASE UNCHANGED approval
      BY <3>1
    <3>2. ASSUME NEW s \in Steps, approval' = [approval EXCEPT ![s].status = "rejected"],
                 NEW r \in Writes
          PROVE  /\ approval'[r].args = approval[r].args
                 /\ approval'[r].ready = approval[r].ready
                 /\ \/ approval'[r].status = approval[r].status
                    \/ approval'[r].status = "rejected"
      <4>1. /\ approval \in [Writes -> ApprovalRow] /\ approval[r] \in ApprovalRow
        BY DEF Typed, TypeOK
      <4>2. approval'[r] = IF r = s THEN [approval[r] EXCEPT !.status = "rejected"]
                           ELSE approval[r]
        BY <3>2, <4>1
      <4>. QED BY <4>1, <4>2 DEF ApprovalRow
    <3>. QED BY <2>1, <3>1, <3>2
  <2>4. \A d \in Clients, r \in Writes : Approving(d, r)' => Approving(d, r) /\ req'[d] = req[d]
    BY <2>1 DEF Approving, Typed, TypeOK
  <2>. QED BY <2>1, <2>2, <2>3, <2>4, FrameAuthority
<1>. QED BY <1>1, <1>2, <1>3 DEF Ask

\* Nothing is authorised or approved in the plan that was just approved.
LEMMA InitAuthority == Init => Authority
<1>. SUFFICES ASSUME Init PROVE Authority
  OBVIOUS
<1>1. ASSUME NEW w \in Workers PROVE wk[w].pc = "idle"
  BY BlankPoint DEF Init
<1>2. ASSUME NEW s \in Writes
      PROVE  /\ step[s].args = PlannedAction /\ authorised[s] = {} /\ sent[s] = {}
             /\ approval[s].status = "pending" /\ ~approval[s].ready
             /\ \A c \in Clients : ~Approving(c, s)
  BY PlanAssumption DEF Init, PlannedRow, Approving
<1>3. \A s \in Writes \ StartAuthorized : ByPerson(s)
  BY <1>1, <1>2 DEF ByPerson, Carries, Gone
<1>4. \A s \in StartAuthorized : ByStart(s)
  BY <1>2, PlanAssumption DEF ByStart
<1>5. \A w \in Workers : Reviewed(wk[w])
  BY <1>1 DEF Reviewed, Arming
<1>. QED BY <1>2, <1>3, <1>4, <1>5 DEF Authority

\* Authority is kept by every step, as long as the lock is reliable.
LEMMA StepAuthority ==
  ASSUME LockMayDrop = FALSE
  PROVE  Typed /\ Once /\ Receipts /\ Authority /\ [Next]_vars => Authority'
<1>. SUFFICES ASSUME Typed, Once, Receipts, Authority, [Next]_vars PROVE Authority'
  OBVIOUS
<1>1. ASSUME NEW w \in Workers, Work(w) PROVE Authority'
  BY <1>1, EndingAuthority, StopAuthority, PrepareAuthority, LoadAuthority, AuthorizeAuthority,
     StartAuthority, AttemptAuthority, CallAuthority, AnswerAuthority, ResultAuthority,
     EndsAuthority, RecoveryAuthority DEF Work, DropLock
<1>2. ASSUME NEW c \in Clients, Ask(c) PROVE Authority'
  BY <1>2, RequestAuthority
<1>3. CASE RecoverStale \/ UNCHANGED vars
  <2>1. UNCHANGED <<wk, ledger, step, req, approval, authorised, sent, calls>>
    BY <1>3 DEF RecoverStale, ledgers, history, vars
  <2>. QED BY <2>1, FrameAuthority DEF Approving
<1>. QED BY <1>1, <1>2, <1>3 DEF Next

\* All of it together is inductive.
LEMMA AuthorityInvariance ==
  ASSUME LockMayDrop = FALSE
  PROVE  Spec => [](Typed /\ Once /\ Receipts /\ Authority)
<1>1. Init => Authority
  BY InitAuthority
<1>2. Typed /\ Once /\ Receipts /\ Authority /\ [Next]_vars => Authority'
  BY StepAuthority
<1>. QED BY <1>1, <1>2, ReceiptsInvariance, PTL DEF Spec

\* A step of the run that no write can tell from a stutter.
Unseen ==
  \A s \in Writes : /\ authorised'[s] = authorised[s] /\ sent'[s] = sent[s]
                    /\ calls'[s] = calls[s]
                    /\ (Dispatched(s)' = {}) <=> (Dispatched(s) = {})
                    /\ (step'[s].receipt = "none") <=> (step[s].receipt = "none")

LEMMA UnseenStutters ==
  ASSUME Unseen
  PROVE  UNCHANGED Promise!vars
<1>1. /\ [s \in Writes |-> authorised[s]]' = [s \in Writes |-> authorised[s]]
      /\ [s \in Writes |-> sent[s]]' = [s \in Writes |-> sent[s]]
      /\ [s \in Writes |-> calls[s]]' = [s \in Writes |-> calls[s]]
      /\ {s \in Writes : Dispatched(s) # {}}' = {s \in Writes : Dispatched(s) # {}}
      /\ {s \in Writes : step[s].receipt # "none"}' = {s \in Writes : step[s].receipt # "none"}
  BY DEF Unseen
<1>. QED BY <1>1 DEF Promise!vars

\* Rows that keep their receipts, and a history and a ledger left alone.
LEMMA SettledUnseen ==
  ASSUME Settled, Kept, UNCHANGED <<ledger, authorised, sent, calls>>
  PROVE  Unseen
BY PlanAssumption DEF Settled, Kept, Unseen, Dispatched

\* The mark spends the authority of its write: authorised, unspent, without a
\* result.
LEMMA MarkKeepsPromise ==
  ASSUME Typed, Once, Receipts, Authority, Kept, NEW w \in Workers, MarkDispatched(w)
  PROVE  [Promise!Next]_Promise!vars
<1>1. PICK s \in Steps : s = wk[w].at /\ Point(w) = "inserted"
  BY DEF MarkDispatched, Point, CallPoints, Typed, WorkerTyped
<1>2. PICK n \in 1..Len(ledger[s]) : n = wk[w].number
  BY <1>1 DEF Point, HasRow, Typed, WorkerTyped
<1>. DEFINE row == [ledger[s][n] EXCEPT !.dispatched = TRUE]
<1>3. row \in Attempt /\ row.dispatched
  <2>1. ledger[s] \in Seq(Attempt)
    BY DEF Typed, TypeOK
  <2>2. ledger[s][n] \in Attempt
    BY <2>1, ElementOfSeq
  <2>. QED BY <2>2 DEF Attempt
<1>4. /\ ledger' = [ledger EXCEPT ![s] = [@ EXCEPT ![n] = row]]
      /\ UNCHANGED <<step, authorised, sent, calls>>
  BY <1>1, <1>2 DEF MarkDispatched, rows, history, Typed, TypeOK
<1>. HIDE DEF row
<1>5. /\ \A r \in Steps : r # s => Dispatched(r)' = Dispatched(r)
      /\ Dispatched(s)' # {}
  BY <1>3, <1>4, UpdateDispatches, UpdateKeepsDispatched
<1>6. CASE s \notin Writes
  <2>1. Unseen
    BY <1>4, <1>5, <1>6, PlanAssumption DEF Unseen
  <2>. QED BY <2>1, UnseenStutters
<1>7. CASE s \in Writes
  <2>1. authorised[s] # {} /\ Dispatched(s) = {} /\ step[s].receipt = "none"
    <3>1. wk[w].arg \in authorised[s]
      BY <1>1, <1>7 DEF Authority, Reviewed, Point, Arming
    <3>2. Dispatched(s) = {}
      BY <1>1, <1>7 DEF Once, FreshWrite, Point
    <3>3. step[s].receipt = "none"
      BY <1>1 DEF Receipts, Loaded, Point, BeforeResult, Gone
    <3>. QED BY <3>1, <3>2, <3>3
  <2>2. /\ [r \in Writes |-> authorised[r]][s] # {}
        /\ s \notin {r \in Writes : Dispatched(r) # {}}
        /\ s \notin {r \in Writes : step[r].receipt # "none"}
    BY <1>7, <2>1
  <2>3. {r \in Writes : Dispatched(r) # {}}' = {r \in Writes : Dispatched(r) # {}} \cup {s}
    BY <1>5, <1>7, PlanAssumption
  <2>4. /\ [r \in Writes |-> authorised[r]]' = [r \in Writes |-> authorised[r]]
        /\ [r \in Writes |-> sent[r]]' = [r \in Writes |-> sent[r]]
        /\ [r \in Writes |-> calls[r]]' = [r \in Writes |-> calls[r]]
        /\ {r \in Writes : step[r].receipt # "none"}' = {r \in Writes : step[r].receipt # "none"}
    BY <1>4
  <2>5. Promise!Spend(s)
    BY <2>2, <2>3, <2>4 DEF Promise!Spend
  <2>. QED BY <1>7, <2>5 DEF Promise!Next
<1>. QED BY <1>6, <1>7

\* The call follows the mark, is the first one, and carries an authorised action.
LEMMA CallKeepsPromise ==
  ASSUME Typed, Once, Receipts, Authority, Kept, NEW w \in Workers, CallProvider(w)
  PROVE  [Promise!Next]_Promise!vars
<1>1. PICK s \in Steps : s = wk[w].at /\ Point(w) = "marked"
  BY DEF CallProvider, Point, CallPoints, Typed, WorkerTyped
<1>2. PICK a : a = wk[w].arg
  OBVIOUS
<1>3. /\ calls' = [calls EXCEPT ![s] = @ + 1]
      /\ sent' = [sent EXCEPT ![s] = @ \cup {a}]
      /\ UNCHANGED <<ledger, step, authorised>>
  BY <1>1, <1>2 DEF CallProvider, rows, ledgers
<1>4. \A r \in Steps : r # s => calls'[r] = calls[r] /\ sent'[r] = sent[r]
  BY <1>3 DEF Typed, TypeOK
<1>5. CASE s \notin Writes
  <2>1. Unseen
    BY <1>3, <1>4, <1>5, PlanAssumption DEF Unseen, Dispatched
  <2>. QED BY <2>1, UnseenStutters
<1>6. CASE s \in Writes
  <2>1. a \in authorised[s] /\ Dispatched(s) # {} /\ calls[s] = 0
    BY <1>1, <1>2, <1>6 DEF Authority, Reviewed, Once, FreshWrite, Point, Arming
  <2>2. step[s].receipt = "none"
    BY <1>1 DEF Receipts, Loaded, Point, BeforeResult, Gone
  <2>3. sent[s] = {}
    BY <1>6, <2>1 DEF Authority
  <2>4. calls'[s] = 1 /\ sent'[s] = {a}
    BY <1>3, <2>1, <2>3 DEF Typed, TypeOK
  <2>5. /\ s \in {r \in Writes : Dispatched(r) # {}}
        /\ s \notin {r \in Writes : step[r].receipt # "none"}
        /\ [r \in Writes |-> calls[r]][s] = 0
        /\ a \in [r \in Writes |-> authorised[r]][s]
    BY <1>6, <2>1, <2>2
  <2>6. /\ [r \in Writes |-> calls[r]]' = [[r \in Writes |-> calls[r]] EXCEPT ![s] = 1]
        /\ [r \in Writes |-> sent[r]]' = [[r \in Writes |-> sent[r]] EXCEPT ![s] = {a}]
    BY <1>4, <1>6, <2>4, PlanAssumption
  <2>7. /\ [r \in Writes |-> authorised[r]]' = [r \in Writes |-> authorised[r]]
        /\ {r \in Writes : Dispatched(r) # {}}' = {r \in Writes : Dispatched(r) # {}}
        /\ {r \in Writes : step[r].receipt # "none"}' = {r \in Writes : step[r].receipt # "none"}
    BY <1>3 DEF Dispatched
  <2>8. Promise!Call(s)
    BY <2>5, <2>6, <2>7 DEF Promise!Call
  <2>. QED BY <1>6, <2>8 DEF Promise!Next
<1>. QED BY <1>5, <1>6

\* A result is recorded after the mark.
LEMMA AnswerKeepsPromise ==
  ASSUME Typed, Once, Receipts, Authority, Kept, NEW w \in Workers,
         CallSucceeds(w) \/ ReconcileWrite(w)
  PROVE  [Promise!Next]_Promise!vars
<1>1. PICK s \in Steps : s = wk[w].at
  BY DEF CallSucceeds, ReconcileWrite, Point, CallPoints, Typed, WorkerTyped
<1>2. /\ UNCHANGED <<ledger, authorised, sent, calls>> /\ Point(w) \in {"call", "sent"}
      /\ SaveStep(w, [Row(w) EXCEPT !.receipt = "review"], "review")
  BY DEF CallSucceeds, ReconcileWrite, ledgers, history
<1>. DEFINE row == [Row(w) EXCEPT !.receipt = "review"]
<1>3. row.receipt = "review" /\ wk[w].steps[s].receipt = "none" /\ step[s].receipt = "none"
  <2>1. Row(w) \in StepRow
    BY <1>1, RowType
  <2>2. row.receipt = "review"
    BY <2>1 DEF StepRow
  <2>. QED BY <1>1, <1>2, <2>2 DEF Receipts, Loaded, Point, BeforeResult, Gone
<1>4. step' = [step EXCEPT ![s] = Merge(@, wk[w].steps[s], row)]
  BY <1>1, <1>2 DEF SaveStep, Row
<1>. HIDE DEF row
<1>5. /\ step'[s].receipt = "review"
      /\ \A r \in Steps : r # s => step'[r] = step[r]
  BY <1>3, <1>4 DEF Merge, Typed, TypeOK
<1>6. CASE s \notin Writes
  <2>1. Unseen
    BY <1>2, <1>5, <1>6, PlanAssumption DEF Unseen, Dispatched
  <2>. QED BY <2>1, UnseenStutters
<1>7. CASE s \in Writes
  <2>1. Dispatched(s) # {}
    <3>1. CASE CallSucceeds(w)
      BY <1>1, <1>7, <3>1 DEF CallSucceeds, Authority, Reviewed, Point
    <3>2. CASE ReconcileWrite(w)
      BY <1>1, <1>7, <3>2 DEF ReconcileWrite, CurrentCycle
    <3>. QED BY <3>1, <3>2
  <2>2. s \in {r \in Writes : Dispatched(r) # {}}
    BY <1>7, <2>1
  <2>3. {r \in Writes : step[r].receipt # "none"}'
          = {r \in Writes : step[r].receipt # "none"} \cup {s}
    BY <1>5, <1>7, PlanAssumption
  <2>4. /\ [r \in Writes |-> authorised[r]]' = [r \in Writes |-> authorised[r]]
        /\ [r \in Writes |-> sent[r]]' = [r \in Writes |-> sent[r]]
        /\ [r \in Writes |-> calls[r]]' = [r \in Writes |-> calls[r]]
        /\ {r \in Writes : Dispatched(r) # {}}' = {r \in Writes : Dispatched(r) # {}}
    BY <1>2 DEF Dispatched
  <2>5. Promise!Record(s)
    BY <2>2, <2>3, <2>4 DEF Promise!Record
  <2>. QED BY <1>7, <2>5 DEF Promise!Next
<1>. QED BY <1>6, <1>7

\* Authorising an action reviews it, and changes nothing else that a write
\* shows.
LEMMA ReviewingKeepsPromise ==
  ASSUME Typed, NEW s \in Steps, NEW a \in Actions,
         authorised' = [authorised EXCEPT ![s] = @ \cup {a}],
         \A r \in Steps : (step'[r].receipt = "none") <=> (step[r].receipt = "none"),
         UNCHANGED <<ledger, sent, calls>>
  PROVE  [Promise!Next]_Promise!vars
<1>1. /\ authorised'[s] = authorised[s] \cup {a}
      /\ \A r \in Steps : r # s => authorised'[r] = authorised[r]
  BY DEF Typed, TypeOK
<1>2. CASE s \notin Writes
  <2>1. Unseen
    BY <1>1, <1>2, PlanAssumption DEF Unseen, Dispatched
  <2>. QED BY <2>1, UnseenStutters
<1>3. CASE s \in Writes
  <2>1. [r \in Writes |-> authorised[r]]'
          = [[r \in Writes |-> authorised[r]] EXCEPT ![s] = @ \cup {a}]
    BY <1>1, <1>3, PlanAssumption
  <2>2. /\ [r \in Writes |-> sent[r]]' = [r \in Writes |-> sent[r]]
        /\ [r \in Writes |-> calls[r]]' = [r \in Writes |-> calls[r]]
        /\ {r \in Writes : Dispatched(r) # {}}' = {r \in Writes : Dispatched(r) # {}}
        /\ {r \in Writes : step[r].receipt # "none"}' = {r \in Writes : step[r].receipt # "none"}
    BY PlanAssumption DEF Dispatched
  <2>3. Promise!Review(s)
    BY <2>1, <2>2 DEF Promise!Review
  <2>. QED BY <1>3, <2>3 DEF Promise!Next
<1>. QED BY <1>2, <1>3

\* An attempt inserted or failed is none dispatched or taken back.
LEMMA AttemptUnseen ==
  ASSUME Typed, NEW w \in Workers, InsertAttempt(w) \/ FailAttempt(w)
  PROVE  Unseen
<1>1. PICK s \in Steps : s = wk[w].at
  BY DEF InsertAttempt, FailAttempt, Point, CallPoints, Typed, WorkerTyped
<1>2. UNCHANGED <<step, authorised, sent, calls>>
  BY DEF InsertAttempt, FailAttempt, rows, history
<1>3. CASE InsertAttempt(w)
  <2>. DEFINE row == [dispatched |-> FALSE, error |-> "none"]
  <2>1. row \in Attempt /\ ~row.dispatched /\ ledger' = [ledger EXCEPT ![s] = Append(@, row)]
    BY <1>1, <1>3 DEF InsertAttempt, Attempt, Error
  <2>. HIDE DEF row
  <2>2. \A r \in Steps : Dispatched(r)' = Dispatched(r)
    BY <2>1, InsertDispatchesNothing
  <2>. QED BY <1>2, <2>2, PlanAssumption DEF Unseen
<1>4. CASE FailAttempt(w)
  <2>1. PICK n \in 1..Len(ledger[s]) : n = wk[w].number
    BY <1>1, <1>4 DEF FailAttempt, Point, HasRow, Typed, WorkerTyped
  <2>2. PICK e \in {"final", "transient"} :
          ledger' = [ledger EXCEPT ![s][n] = [@ EXCEPT !.error = e]]
    BY <1>1, <1>4, <2>1 DEF FailAttempt
  <2>. DEFINE row == [ledger[s][n] EXCEPT !.error = e]
  <2>3. row \in Attempt /\ row.dispatched = ledger[s][n].dispatched
    <3>1. ledger[s] \in Seq(Attempt)
      BY DEF Typed, TypeOK
    <3>2. ledger[s][n] \in Attempt
      BY <3>1, ElementOfSeq
    <3>. QED BY <3>2, AttemptUpdate DEF Attempt, Error
  <2>4. ledger' = [ledger EXCEPT ![s] = [@ EXCEPT ![n] = row]]
    BY <2>2 DEF Typed, TypeOK
  <2>. HIDE DEF row
  <2>5. /\ \A r \in Steps : r # s => Dispatched(r)' = Dispatched(r)
        /\ Dispatched(s)' \subseteq Dispatched(s)
        /\ Dispatched(s) \subseteq Dispatched(s)'
    BY <2>3, <2>4, UpdateDispatches, UpdateKeepsDispatched
  <2>. QED BY <1>2, <2>5, PlanAssumption DEF Unseen
<1>. QED BY <1>3, <1>4

\* Everything else that a delivery does, no write can tell from a stutter.
LEMMA WorkKeepsPromise ==
  ASSUME LockMayDrop = FALSE, Typed, Once, Receipts, Authority, Kept,
         NEW w \in Workers, Work(w)
  PROVE  [Promise!Next]_Promise!vars
<1>1. CASE MarkDispatched(w) \/ CallProvider(w) \/ CallSucceeds(w) \/ ReconcileWrite(w)
  BY <1>1, MarkKeepsPromise, CallKeepsPromise, AnswerKeepsPromise
<1>2. CASE InsertAttempt(w) \/ FailAttempt(w)
  BY <1>2, AttemptUnseen, UnseenStutters
<1>3. CASE AuthorizeByStart(w)
  <2>1. PICK s \in Steps, a \in Actions :
          /\ authorised' = [authorised EXCEPT ![s] = @ \cup {a}]
          /\ UNCHANGED <<ledger, sent, calls>>
    BY <1>3 DEF AuthorizeByStart, NeedsApproval, Open, AtStep, ledgers
  <2>2. \A r \in Steps : (step'[r].receipt = "none") <=> (step[r].receipt = "none")
    BY <1>3, AuthorizeAuthority DEF Settled, Kept
  <2>. QED BY <2>1, <2>2, ReviewingKeepsPromise
<1>4. CASE \/ ObserveCancellation(w) \/ StartRun(w) \/ FailPreflight(w) \/ SupervisorPauses(w)
           \/ FailIncomplete(w) \/ FinishRun(w) \/ SettleRecorded(w) \/ SkipStep(w)
           \/ ParkUnresolved(w) \/ ApprovalMissing(w) \/ ParkUngoverned(w)
           \/ ParkUnprepared(w) \/ ProposeAction(w) \/ LoadApproval(w) \/ StartStep(w)
           \/ AdmitCall(w) \/ RefuseCall(w) \/ RefreshCancellation(w)
           \/ AcceptResult(w) \/ DeferReview(w) \/ RejectResult(w) \/ GiveUpCall(w)
           \/ Begin(w) \/ ReadRecovery(w) \/ HandOff(w) \/ Crash(w) \/ CollideAttempt(w)
           \/ ScheduleRecovery(w)
  <2>1. Settled
    BY <1>4, EndingAuthority, StopAuthority, PrepareAuthority, LoadAuthority, StartAuthority,
       AttemptAuthority, ResultAuthority, EndsAuthority, RecoveryAuthority
  <2>2. UNCHANGED <<ledger, authorised, sent, calls>>
    BY <1>4
       DEF ObserveCancellation, StartRun, FailPreflight, SupervisorPauses, FailIncomplete,
           FinishRun, SettleRecorded, SkipStep, ParkUnresolved, ApprovalMissing, ParkUngoverned,
           ParkUnprepared, ProposeAction, LoadApproval, StartStep, AdmitCall, RefuseCall,
           RefreshCancellation, AcceptResult, DeferReview, RejectResult, GiveUpCall, Begin,
           ReadRecovery, HandOff, Crash, CollideAttempt, ScheduleRecovery, rows, ledgers, history
  <2>. QED BY <2>1, <2>2, SettledUnseen, UnseenStutters
<1>. QED BY <1>1, <1>2, <1>3, <1>4 DEF Work, DropLock

\* So are the API requests, but for an approval.
LEMMA RequestKeepsPromise ==
  ASSUME Typed, NEW c \in Clients, Ask(c)
  PROVE  [Promise!Next]_Promise!vars
<1>1. \A r \in Steps : step'[r].receipt = step[r].receipt
  BY RequestRows
<1>2. CASE WriteApproval(c)
  <2>1. PICK s \in Steps, a \in Actions : s = req[c].step /\ a = req[c].arg
    BY <1>2, AskedTyped DEF WriteApproval
  <2>2. /\ authorised' = [authorised EXCEPT ![s] = @ \cup {a}]
        /\ UNCHANGED <<ledger, sent, calls>>
    BY <1>2, <2>1 DEF WriteApproval, ledgers
  <2>. QED BY <1>1, <2>2, ReviewingKeepsPromise
<1>3. CASE ~WriteApproval(c)
  <2>1. UNCHANGED <<ledger, authorised, sent, calls>>
    BY <1>3 DEF Ask, ReadCancel, ReadAbandon, ReadRetry, ReadRecheck, ReadSkip, ReadDecision,
                LoadRun, LoadStep, Load, WriteCancel, WriteAbandon, WriteRetry, WriteRecheck,
                WriteSkip, WriteRejection, RefuseDecision, ledgers, history
  <2>2. Unseen
    BY <1>1, <2>1, PlanAssumption DEF Unseen, Dispatched
  <2>. QED BY <2>2, UnseenStutters
<1>. QED BY <1>2, <1>3

\* Every step of the run is a step of the promise, or none.
LEMMA StepKeepsPromise ==
  ASSUME LockMayDrop = FALSE
  PROVE  Typed /\ Once /\ Receipts /\ Authority /\ [Next]_vars => [Promise!Next]_Promise!vars
<1>. SUFFICES ASSUME Typed, Once, Receipts, Authority, [Next]_vars
              PROVE  [Promise!Next]_Promise!vars
  OBVIOUS
<1>1. Kept
  BY StepReceipts
<1>2. ASSUME NEW w \in Workers, Work(w) PROVE [Promise!Next]_Promise!vars
  BY <1>1, <1>2, WorkKeepsPromise
<1>3. ASSUME NEW c \in Clients, Ask(c) PROVE [Promise!Next]_Promise!vars
  BY <1>3, RequestKeepsPromise
<1>4. CASE RecoverStale \/ UNCHANGED vars
  <2>1. UNCHANGED <<ledger, step, authorised, sent, calls>>
    BY <1>4 DEF RecoverStale, ledgers, history, vars
  <2>2. Unseen
    BY <2>1 DEF Unseen, Dispatched
  <2>. QED BY <2>2, UnseenStutters
<1>. QED BY <1>2, <1>3, <1>4 DEF Next

\* The approved plan is where the promise begins.
LEMMA InitKeepsPromise == Init => Promise!Init
<1>. SUFFICES ASSUME Init PROVE Promise!Init
  OBVIOUS
<1>1. ASSUME NEW s \in Writes
      PROVE  /\ authorised[s] = {} /\ sent[s] = {} /\ calls[s] = 0
             /\ Dispatched(s) = {} /\ step[s].receipt = "none"
  <2>1. s \in Steps /\ ledger[s] = <<>>
    BY PlanAssumption DEF Init
  <2>2. Len(ledger[s]) = 0
    BY <2>1
  <2>3. 1..Len(ledger[s]) = {}
    BY <2>2
  <2>4. Dispatched(s) = {}
    BY <2>3 DEF Dispatched
  <2>. QED BY <2>1, <2>4 DEF Init, PlannedRow
<1>2. /\ [s \in Writes |-> authorised[s]] = [s \in Writes |-> {}]
      /\ [s \in Writes |-> sent[s]] = [s \in Writes |-> {}]
      /\ [s \in Writes |-> calls[s]] = [s \in Writes |-> 0]
      /\ {s \in Writes : Dispatched(s) # {}} = {}
      /\ {s \in Writes : step[s].receipt # "none"} = {}
  BY <1>1
<1>. QED BY <1>2 DEF Promise!Init

\* While the lock's connection lives, the run keeps its promise about its
\* consequential steps: for every write, one authority that is reviewed first,
\* then spent in the ledger, then used for one call at most, with an action that
\* a person or the start of the plan authorised, and a result recorded only for
\* a spent authority (orchestrator.py, the call loop of _execute_run).
THEOREM PromiseIsKept ==
  ASSUME LockMayDrop = FALSE
  PROVE  Spec => KeepsPromise
<1>1. Init => Promise!Init
  BY InitKeepsPromise
<1>2. Typed /\ Once /\ Receipts /\ Authority /\ [Next]_vars => [Promise!Next]_Promise!vars
  BY StepKeepsPromise
<1>3. Spec => Promise!Spec
  BY <1>1, <1>2, AuthorityInvariance, PTL DEF Spec, Promise!Spec
<1>. QED BY <1>3 DEF KeepsPromise
-------------------------------------------------------------------------------
\* What goes out still stands approved, as long as decisions come one at a time

OneClient == \A c, d \in Clients : c = d

\* A decision on the approval of s that has been read and not yet written.
Deciding(c, s) == req[c] # NoRequest /\ req[c].kind \in {"approve", "reject"} /\ req[c].step = s

\* The approval that a session has matched, or goes out with, is the stored one.
Backed(v) ==
  v.at \in Writes \ StartAuthorized =>
    /\ (v.pc \in {"steps", "call"} /\ v.approval # Unread /\ v.approval.status = "approved") =>
         approval[v.at].status = "approved" /\ approval[v.at].args = v.approval.args
    /\ v.pc \in Arming => approval[v.at].status = "approved" /\ approval[v.at].args = v.arg

\* Only an undecided approval is being decided.
Standing ==
  /\ \A s \in Writes \ StartAuthorized, c \in Clients :
       Deciding(c, s) => approval[s].status = "pending"
  /\ \A w \in Workers : Backed(wk[w])

\* The owner takes a step that leaves approvals and requests alone.
LEMMA OwnerStanding ==
  ASSUME Typed, Once, Standing, NEW w \in Workers, NEW v, Become(w, v),
         Point(w) # "idle" \/ holder = NoWorker, UNCHANGED <<req, approval>>, Backed(v)'
  PROVE  Standing'
<1>1. /\ wk'[w] = v /\ \A u \in Workers : u # w => wk'[u] = wk[u] /\ wk[u].pc = "idle"
  BY Alone DEF Become, Typed, TypeOK, Point
<1>2. \A u \in Workers : Backed(wk[u])'
  BY <1>1 DEF Backed, Arming
<1>. QED BY <1>2 DEF Standing, Deciding

\* A session that carries no approval, or is past every use of it.
LEMMA NothingBacked ==
  ASSUME NEW v, v.pc \in {"steps", "call"} => v.approval = Unread, v.pc \notin Arming
  PROVE  Backed(v)'
BY DEF Backed

\* A saved row ends the use of the approval.
LEMMA SavingStanding ==
  ASSUME Typed, Once, Standing, NEW w \in Workers,
         \/ SettleRecorded(w) \/ SkipStep(w) \/ ParkUnresolved(w) \/ ApprovalMissing(w)
         \/ ParkUngoverned(w) \/ AcceptResult(w) \/ DeferReview(w) \/ RejectResult(w)
         \/ GiveUpCall(w) \/ CallSucceeds(w) \/ ReconcileWrite(w)
  PROVE  Standing'
<1>1. /\ Point(w) # "idle" /\ wk[w].at \in Steps /\ UNCHANGED <<req, approval>>
  BY DEF SettleRecorded, SkipStep, ParkUnresolved, ApprovalMissing, ParkUngoverned, AcceptResult,
         DeferReview, RejectResult, GiveUpCall, CallSucceeds, ReconcileWrite, Startable, Reviewing,
         NeedsApproval, Open, AtStep, Point, CallPoints, Typed, WorkerTyped
<1>2. \E row : \/ SaveStep(w, row, "review") \/ SaveAndAdvance(w, row)
               \/ \E target : SaveAndPark(w, row, target)
  BY DEF SettleRecorded, SkipStep, ParkUnresolved, ApprovalMissing, ParkUngoverned, AcceptResult,
         DeferReview, RejectResult, GiveUpCall, CallSucceeds, ReconcileWrite
<1>3. PICK s \in Steps : s = wk[w].at
  BY <1>1
<1>4. PICK row, v : HasSaved(w, s, row, v)
  BY <1>2, <1>3, SavingSession
<1>5. Backed(v)'
  BY <1>4, NothingBacked DEF HasSaved, Arming
<1>. QED BY <1>1, <1>4, <1>5, OwnerStanding DEF HasSaved

\* So does every other step that is not on the way to the call.
LEMMA EndsStanding ==
  ASSUME Typed, Once, Authority, Standing, NEW w \in Workers,
         \/ ObserveCancellation(w) \/ StartRun(w) \/ FailPreflight(w) \/ SupervisorPauses(w)
         \/ FailIncomplete(w) \/ FinishRun(w) \/ CallProvider(w)
         \/ Begin(w) \/ ReadRecovery(w) \/ HandOff(w) \/ Crash(w) \/ CollideAttempt(w)
         \/ ScheduleRecovery(w)
  PROVE  Standing'
<1>1. UNCHANGED <<req, approval>> /\ (Point(w) # "idle" \/ holder = NoWorker)
  BY DEF ObserveCancellation, StartRun, FailPreflight, SupervisorPauses, FailIncomplete,
         FinishRun, CallProvider, Begin, ReadRecovery, HandOff, Crash, CollideAttempt,
         ScheduleRecovery, AtEnd, rows
<1>2. PICK v : /\ Become(w, v) /\ v.pc \notin Arming
               /\ v.pc \in {"steps", "call"} => v.approval = Unread
  <2>1. CASE StartRun(w)
    <3>. DEFINE v == [wk[w] EXCEPT !.status = "running", !.pc = "steps"]
    <3>1. v.pc = "steps" /\ v.approval = wk[w].approval
      BY RowType DEF Session
    <3>2. Become(w, v)
      BY <2>1 DEF StartRun
    <3>3. wk[w].approval = Unread
      BY <2>1 DEF StartRun, Authority, Reviewed, Point
    <3>. HIDE DEF v
    <3>. QED BY <3>1, <3>2, <3>3 DEF Arming
  <2>2. CASE CallProvider(w)
    <3>. DEFINE v == [wk[w] EXCEPT !.pc = "sent"]
    <3>1. v.pc = "sent"
      BY RowType DEF Session
    <3>2. Become(w, v)
      BY <2>2 DEF CallProvider, Goto
    <3>. HIDE DEF v
    <3>. QED BY <3>1, <3>2 DEF Arming
  <2>3. CASE Release(w)
    BY <2>3, BlankPoint DEF Release, Arming
  <2>4. CASE \/ ObserveCancellation(w) \/ FailPreflight(w) \/ SupervisorPauses(w)
             \/ FailIncomplete(w) \/ FinishRun(w)
    <3>1. Become(w, [Blank EXCEPT !.pc = "recover"])
      BY <2>4 DEF ObserveCancellation, FailPreflight, SupervisorPauses, FailIncomplete,
                  FinishRun, Park
    <3>. QED BY <3>1, BlankPoint DEF Arming
  <2>5. CASE (Begin(w) \/ ReadRecovery(w)) /\ ~Release(w)
    <3>1. PICK point \in {"loaded", "recovering"} :
            Become(w, [Blank EXCEPT !.pc = point, !.status = status, !.cancel = cancelReq,
                                    !.steps = step])
      BY <2>5 DEF Begin, ReadRecovery
    <3>. DEFINE v == [Blank EXCEPT !.pc = point, !.status = status, !.cancel = cancelReq,
                                   !.steps = step]
    <3>2. v.pc = point
      BY DEF Blank
    <3>. HIDE DEF v
    <3>3. Become(w, v)
      BY <3>1 DEF v
    <3>. QED BY <3>2, <3>3 DEF Arming
  <2>. QED BY <2>1, <2>2, <2>3, <2>4, <2>5
           DEF HandOff, Crash, CollideAttempt, ScheduleRecovery
<1>3. Backed(v)'
  BY <1>2, NothingBacked
<1>. QED BY <1>1, <1>2, <1>3, OwnerStanding

\* What is loaded stands, and starting the step keeps it.
LEMMA LoadStanding ==
  ASSUME Typed, Once, Standing, NEW w \in Workers, LoadApproval(w) \/ StartStep(w)
  PROVE  Standing'
<1>1. /\ Point(w) = "steps" /\ wk[w].at \in Steps /\ UNCHANGED <<req, approval>>
  BY DEF LoadApproval, StartStep, Startable, NeedsApproval, Open, AtStep, rows
<1>2. PICK s \in Steps : s = wk[w].at
  BY <1>1
<1>3. PICK v : /\ Become(w, v) /\ v.at = s /\ v.pc \in {"steps", "call"}
               /\ v.approval = approval[s] \/ v.approval = wk[w].approval
  <2>1. CASE LoadApproval(w)
    <3>. DEFINE v == [wk[w] EXCEPT !.approval = approval[s], !.arg = Row(w).args]
    <3>1. v.pc = "steps" /\ v.at = s /\ v.approval = approval[s]
      BY <1>1, <1>2, RowType DEF Session, Point
    <3>2. Become(w, v)
      BY <1>2, <2>1 DEF LoadApproval
    <3>. HIDE DEF v
    <3>. QED BY <3>1, <3>2
  <2>2. CASE StartStep(w)
    <3>. DEFINE row == [Row(w) EXCEPT !.status = "running"]
                arg == IF wk[w].approval = Unread THEN row.args ELSE wk[w].arg
                v == [wk[w] EXCEPT !.pc = "call", !.steps[s] = row, !.arg = arg]
    <3>1. v.pc = "call" /\ v.at = s /\ v.approval = wk[w].approval
      <4>. HIDE DEF arg, row
      <4>. QED BY <1>2, RowType DEF Session
    <3>2. Become(w, v)
      BY <1>2, <2>2, RowType DEF StartStep, Session
    <3>. HIDE DEF v
    <3>. QED BY <3>1, <3>2
  <2>. QED BY <2>1, <2>2
<1>4. Backed(wk[w])
  BY DEF Standing
<1>5. Backed(v)'
  BY <1>1, <1>2, <1>3, <1>4 DEF Backed, Arming, Point
<1>6. Point(w) # "idle"
  BY <1>1
<1>. QED BY <1>1, <1>3, <1>5, <1>6, OwnerStanding

\* The call is admitted with the arguments that stand approved.
LEMMA AttemptStanding ==
  ASSUME Typed, Once, Standing, NEW w \in Workers,
         \/ AdmitCall(w) \/ RefuseCall(w) \/ RefreshCancellation(w) \/ InsertAttempt(w)
         \/ MarkDispatched(w) \/ FailAttempt(w)
  PROVE  Standing'
<1>1. /\ Point(w) # "idle" /\ wk[w].at \in Steps /\ UNCHANGED <<req, approval>>
  BY DEF AdmitCall, RefuseCall, RefreshCancellation, InsertAttempt, MarkDispatched, FailAttempt,
         rows, Point, CallPoints, Typed, WorkerTyped
<1>2. PICK v : OnTheWay(w, v)
  BY <1>1, AttemptSession
<1>3. ASSUME v.pc # "error", wk[w].at \in Writes \ StartAuthorized
      PROVE  /\ approval[wk[w].at].status = "approved"
             /\ approval[wk[w].at].args = wk[w].arg
  <2>1. Backed(wk[w])
    BY DEF Standing
  <2>2. CASE AdmitCall(w)
    BY <1>3, <2>1, <2>2 DEF AdmitCall, MayDispatch, Matches, Backed, Point
  <2>3. CASE Point(w) \in Arming
    BY <1>3, <2>1, <2>3 DEF Backed, Point
  <2>. QED BY <1>2, <1>3, <2>2, <2>3 DEF OnTheWay
<1>4. Backed(v)'
  BY <1>1, <1>2, <1>3 DEF OnTheWay, Backed, Arming
<1>. QED BY <1>1, <1>2, <1>4, OwnerStanding DEF OnTheWay

\* Preparing an action leaves an approval that is being decided undecided.
LEMMA ReviewStanding ==
  ASSUME Typed, Once, Standing, NEW w \in Workers,
         ParkUnprepared(w) \/ ProposeAction(w) \/ AuthorizeByStart(w)
  PROVE  Standing'
<1>1. /\ Point(w) = "steps" /\ wk[w].at \in Writes /\ UNCHANGED req
  BY DEF ParkUnprepared, ProposeAction, AuthorizeByStart, NeedsApproval, Open, AtStep
<1>2. PICK s \in Writes : s = wk[w].at
  BY <1>1
<1>3. PICK target \in {"pending", "approved"}, ready \in BOOLEAN, a \in Actions :
        /\ approval' = approval \/ StoreApproval(s, wk[w].approval, target, ready, a)
        /\ target = "approved" => AuthorizeByStart(w)
  <2>1. CASE ParkUnprepared(w)
    BY <1>2, <2>1, ShownAction, PlanAssumption DEF ParkUnprepared, PlanAssumption
  <2>2. CASE ProposeAction(w) \/ AuthorizeByStart(w)
    BY <1>2, <2>2 DEF ProposeAction, AuthorizeByStart
  <2>. QED BY <2>1, <2>2
<1>4. /\ \A r \in Writes : r # s => approval'[r] = approval[r]
      /\ s \notin StartAuthorized =>
           (approval[s].status = "pending" => approval'[s].status = "pending")
  <2>1. s \notin StartAuthorized => target = "pending"
    BY <1>2, <1>3 DEF AuthorizeByStart
  <2>. QED BY <1>3, <2>1 DEF StoreApproval, Typed, TypeOK
<1>5. PICK v : Become(w, v) /\ (v.pc = "recover" \/ (v.at = s /\ s \in StartAuthorized))
  <2>1. CASE AuthorizeByStart(w)
    <3>1. PICK a1 \in Actions :
            Become(w, [wk[w] EXCEPT !.steps[s].status = "pending", !.arg = a1,
                         !.approval = [status |-> "approved", ready |-> TRUE, args |-> a1]])
      BY <1>2, <2>1 DEF AuthorizeByStart
    <3>. DEFINE v == [wk[w] EXCEPT !.steps[s].status = "pending", !.arg = a1,
                         !.approval = [status |-> "approved", ready |-> TRUE, args |-> a1]]
    <3>2. v.at = s /\ s \in StartAuthorized
      BY <1>2, <2>1, RowType DEF Session, AuthorizeByStart
    <3>. HIDE DEF v
    <3>3. Become(w, v)
      BY <3>1 DEF v
    <3>. QED BY <3>2, <3>3
  <2>2. CASE ParkUnprepared(w) \/ ProposeAction(w)
    BY <2>2, BlankPoint DEF ParkUnprepared, ProposeAction, SaveAndPark, Park
  <2>. QED BY <2>1, <2>2
<1>6. /\ wk'[w] = v /\ \A u \in Workers : u # w => wk'[u] = wk[u] /\ wk[u].pc = "idle"
  BY <1>1, <1>5, Alone DEF Become, Typed, TypeOK, Point
<1>7. \A u \in Workers : Backed(wk[u])'
  BY <1>5, <1>6 DEF Backed, Arming
<1>. QED BY <1>1, <1>4, <1>7 DEF Standing, Deciding

\* Reading a decision finds the approval undecided.
LEMMA ReadingDecision ==
  ASSUME Typed, NEW c \in Clients,
         \/ ReadCancel(c) \/ ReadAbandon(c) \/ ReadRetry(c) \/ ReadRecheck(c) \/ ReadSkip(c)
         \/ ReadDecision(c)
  PROVE  \A r : Deciding(c, r)' => approval[r].status = "pending"
<1>1. CASE ReadCancel(c) \/ ReadAbandon(c) \/ ReadRecheck(c)
  <2>1. PICK k \in {"cancel", "abandon", "recheck"} : LoadRun(c, k)
    BY <1>1 DEF ReadCancel, ReadAbandon, ReadRecheck
  <2>2. req'[c].kind = k
    BY <2>1 DEF LoadRun, Load, Typed, TypeOK
  <2>. QED BY <2>2 DEF Deciding
<1>2. CASE ReadRetry(c) \/ ReadSkip(c)
  <2>1. PICK k \in {"retry", "skip"}, s \in Steps, a \in Actions : LoadStep(c, k, s, a)
    BY <1>2, PlanAssumption DEF PlanAssumption, ReadRetry, ReadSkip
  <2>2. req'[c].kind = k
    BY <2>1 DEF LoadStep, Load, Typed, TypeOK
  <2>. QED BY <2>2 DEF Deciding
<1>3. CASE ReadDecision(c)
  <2>1. PICK s \in Writes, k \in {"approve", "reject"}, a \in Actions :
          approval[s].status = "pending" /\ LoadStep(c, k, s, a)
    BY <1>3, PlanAssumption DEF PlanAssumption, ReadDecision
  <2>2. req'[c].step = s
    BY <2>1 DEF LoadStep, Load, Typed, TypeOK
  <2>. QED BY <2>1, <2>2 DEF Deciding
<1>. QED BY <1>1, <1>2, <1>3

\* With one client nobody decides an approval that has just been decided.
LEMMA RequestStanding ==
  ASSUME OneClient, Typed, Standing, NEW c \in Clients, Ask(c)
  PROVE  Standing'
<1>1. CASE \/ ReadCancel(c) \/ ReadAbandon(c) \/ ReadRetry(c) \/ ReadRecheck(c) \/ ReadSkip(c)
           \/ ReadDecision(c)
  <2>1. UNCHANGED <<wk, approval>> /\ \A d \in Clients : d # c => req'[d] = req[d]
    BY <1>1, ReadingApproval DEF rows
  <2>2. \A r : Deciding(c, r)' => approval[r].status = "pending"
    BY <1>1, ReadingDecision
  <2>. QED BY <2>1, <2>2 DEF Standing, Deciding, Backed
<1>2. CASE WriteApproval(c) \/ WriteRejection(c)
  <2>1. PICK s \in Steps : s = req[c].step
    BY <1>2, AskedTyped DEF WriteApproval, WriteRejection
  <2>2. Deciding(c, s)
    BY <1>2, <2>1 DEF WriteApproval, WriteRejection, Asked, Deciding
  <2>3. UNCHANGED wk /\ req'[c] = NoRequest
    BY <1>2 DEF WriteApproval, WriteRejection, Done, Typed, TypeOK
  <2>4. \A r \in Writes : r # s => approval'[r] = approval[r]
    BY <1>2, <2>1 DEF WriteApproval, WriteRejection, Typed, TypeOK
  <2>5. \A d \in Clients, r \in Writes : ~Deciding(d, r)'
    BY <2>3 DEF OneClient, Deciding
  <2>6. ASSUME NEW u \in Workers PROVE Backed(wk[u])'
    <3>1. Backed(wk[u]) /\ (s \in Writes \ StartAuthorized => approval[s].status = "pending")
      BY <2>2 DEF Standing
    <3>. QED BY <2>3, <2>4, <3>1 DEF Backed
  <2>. QED BY <2>5, <2>6 DEF Standing
<1>3. CASE \/ WriteCancel(c) \/ WriteAbandon(c) \/ WriteRetry(c) \/ WriteRecheck(c)
           \/ WriteSkip(c) \/ RefuseDecision(c)
  <2>1. UNCHANGED <<wk, approval>> /\ req' = [req EXCEPT ![c] = NoRequest]
    BY <1>3 DEF WriteCancel, WriteAbandon, WriteRetry, WriteRecheck, WriteSkip, RefuseDecision,
                Done, rows
  <2>2. \A d \in Clients, r \in Writes : Deciding(d, r)' => Deciding(d, r)
    BY <2>1 DEF Deciding, Typed, TypeOK
  <2>. QED BY <2>1, <2>2 DEF Standing, Backed
<1>. QED BY <1>1, <1>2, <1>3 DEF Ask

\* Standing is kept by every step, and a call goes out with what stands.
LEMMA StepStanding ==
  ASSUME LockMayDrop = FALSE, OneClient
  PROVE  Typed /\ Once /\ Receipts /\ Authority /\ Standing /\ [Next]_vars => Standing'
<1>. SUFFICES ASSUME Typed, Once, Authority, Standing, [Next]_vars PROVE Standing'
  OBVIOUS
<1>1. ASSUME NEW w \in Workers, Work(w) PROVE Standing'
  BY <1>1, SavingStanding, EndsStanding, LoadStanding, AttemptStanding, ReviewStanding
     DEF Work, DropLock
<1>2. ASSUME NEW c \in Clients, Ask(c) PROVE Standing'
  BY <1>2, RequestStanding
<1>3. CASE RecoverStale \/ UNCHANGED vars
  BY <1>3 DEF RecoverStale, vars, Standing, Deciding, Backed
<1>. QED BY <1>1, <1>2, <1>3 DEF Next

\* Only CallProvider calls.
LEMMA OnlyCalls ==
  ASSUME Next, calls' # calls
  PROVE  \E w \in Workers : CallProvider(w)
<1>1. ASSUME NEW w \in Workers, Work(w) PROVE CallProvider(w)
  BY <1>1
     DEF Work, ObserveCancellation, StartRun, FailPreflight, SupervisorPauses, FailIncomplete,
         FinishRun, SettleRecorded, SkipStep, ParkUnresolved, ApprovalMissing, ParkUngoverned,
         ParkUnprepared, ProposeAction, LoadApproval, AuthorizeByStart, StartStep, AdmitCall,
         RefuseCall, RefreshCancellation, ReconcileWrite, InsertAttempt, CollideAttempt,
         MarkDispatched, CallSucceeds, FailAttempt, AcceptResult, DeferReview, RejectResult,
         GiveUpCall, Begin, ReadRecovery, HandOff, Crash, ScheduleRecovery, DropLock, history
<1>2. ASSUME NEW c \in Clients, Ask(c) PROVE FALSE
  BY <1>2
     DEF Ask, ReadCancel, ReadAbandon, ReadRetry, ReadRecheck, ReadSkip, ReadDecision, LoadRun,
         LoadStep, Load, WriteCancel, WriteAbandon, WriteRetry, WriteRecheck, WriteSkip,
         WriteApproval, WriteRejection, RefuseDecision, history
<1>3. ~RecoverStale
  BY DEF RecoverStale, history
<1>. QED BY <1>1, <1>2, <1>3 DEF Next

\* With a reliable lock and decisions that come one at a time, a write that a
\* person approves goes out while its approval row still says approved, with
\* the arguments of that row, whatever requests and deliveries came in between
\* (orchestrator.py, the comparison before the call).
THEOREM ApprovalStands ==
  ASSUME LockMayDrop = FALSE, OneClient
  PROVE  Spec => StandingApproval
<1>1. Init => Standing
  <2>. SUFFICES ASSUME Init PROVE Standing
    OBVIOUS
  <2>1. \A w \in Workers : wk[w].pc = "idle"
    BY BlankPoint DEF Init
  <2>. QED BY <2>1 DEF Init, Standing, Deciding, Backed, Arming
<1>2. Typed /\ Once /\ Receipts /\ Authority /\ Standing /\ [Next]_vars => Standing'
  BY StepStanding
<1>3. Typed /\ Standing /\ [Next]_vars =>
        [\A s \in Writes \ StartAuthorized : calls'[s] # calls[s] =>
           approval[s].status = "approved" /\ approval[s].args \in sent'[s]]_vars
  <2>. SUFFICES ASSUME Typed, Standing, Next, NEW s \in Writes \ StartAuthorized,
                       calls'[s] # calls[s]
                PROVE  approval[s].status = "approved" /\ approval[s].args \in sent'[s]
    OBVIOUS
  <2>1. PICK w \in Workers : CallProvider(w)
    BY OnlyCalls
  <2>2. s = wk[w].at /\ Point(w) = "marked"
    BY <2>1 DEF CallProvider, Typed, TypeOK
  <2>3. approval[s].status = "approved" /\ approval[s].args = wk[w].arg
    BY <2>2 DEF Standing, Backed, Point, Arming
  <2>4. wk[w].arg \in sent'[s]
    BY <2>1, <2>2, PlanAssumption DEF CallProvider, Typed, TypeOK
  <2>. QED BY <2>3, <2>4
<1>. QED BY <1>1, <1>2, <1>3, AuthorityInvariance, PTL DEF Spec, StandingApproval
===============================================================================
