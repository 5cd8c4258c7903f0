----------------------------- MODULE RunExecution -----------------------------
(***************************************************************************)
(* One approved workflow run being executed: the per-run advisory lock,    *)
(* the worker that walks the plan (orchestrator.py, _execute_run), the     *)
(* ledger of provider attempts behind the rule that an external write is   *)
(* never sent twice, the bounded recovery that ends every delivery, and    *)
(* the API requests that touch the same rows (cancel, resume, decide).     *)
(*                                                                         *)
(* Grain.  A worker action is one database commit or one read whose result *)
(* is used later.  A worker keeps the rows its session loaded (the session *)
(* never expires them on commit) and an UPDATE carries only the columns it *)
(* changed; an API request is a read followed by such a write.  A delivery *)
(* may arrive at any moment, any number of times: the outbox and the       *)
(* broker are the subject of RunDelivery.                                  *)
(***************************************************************************)
EXTENDS Naturals, Sequences, FiniteSets, RunStateMachine

CONSTANTS
  Workers,          \* deliveries that may be alive at the same time
  Clients,          \* API requests that may be in flight at the same time
  NSteps,           \* the plan is steps 1..NSteps, in position order
  Writes,           \* steps whose provider contract is consequential
  Reconcilable,     \* writes the provider can confirm by reading back
  StartAuthorized,  \* writes the user authorised by starting the reviewed plan
  Optional,         \* steps the plan marks optional
  Conditional,      \* steps whose condition may evaluate to false
  Deps,             \* Deps[s]: the steps s needs completed (none in mode all_settled:
                    \* the walk has settled every earlier step when it reaches s)
  Actions,          \* argument values a provider action may carry
  PlannedAction,    \* the arguments of the approved plan
  ReadBudget,       \* provider attempts of one read cycle
  MaxAttempts,      \* bound: attempt rows of one step
  LockMayDrop,      \* may the lock's own connection die under a live worker?
  NoWorker, NoRequest

Steps == 1..NSteps

ASSUME StepAssumption == NSteps \in Nat /\ MaxAttempts \in Nat /\ ReadBudget \in Nat
ASSUME PlanAssumption ==
  /\ Writes \subseteq Steps /\ Reconcilable \subseteq Writes /\ StartAuthorized \subseteq Writes
  /\ Optional \subseteq Steps /\ Conditional \subseteq Steps
  /\ Deps \in [Steps -> SUBSET Steps]
  /\ PlannedAction \in Actions
ASSUME ActorAssumption == NoWorker \notin Workers /\ LockMayDrop \in BOOLEAN

VARIABLES
  status,      \* workflow_runs.status
  cancelReq,   \* workflow_runs.cancellation_requested
  step,        \* run_steps: status, recorded receipt, arguments
  approval,    \* approvals of the writes: status, preview readiness, reviewed arguments
  ledger,      \* step_attempts of a step, by attempt number
  aside,       \* the attempts an explicit read recovery no longer counts
  holder,      \* owner of the advisory lock
  wk,          \* the session of every worker
  req,         \* API requests that have read and not yet written
  authorised,  \* history: arguments ever authorised for a step
  sent,        \* history: arguments of the provider calls made for a step
  calls,       \* history: provider calls made for a step
  late         \* history: provider calls made while cancellation was requested

rows    == <<status, cancelReq, step, approval>>
ledgers == <<ledger, aside>>
history == <<authorised, sent, calls, late>>
vars    == <<status, cancelReq, step, approval, ledger, aside, holder, wk, req,
             authorised, sent, calls, late>>

StepStatus == {"pending", "awaiting_approval", "running", "completed", "failed", "skipped"}
Receipt    == {"none", "review", "accepted"}
StepRow    == [status : StepStatus, receipt : Receipt, args : Actions]
ApprovalRow == [status : {"pending", "approved", "rejected"}, ready : BOOLEAN, args : Actions]
\* "final": a failure the next call repeats to its caller without any attempt;
\* "transient": one that a read may retry, and that leaves a write uncertain.
Error      == {"none", "final", "transient"}
Attempt    == [dispatched : BOOLEAN, error : Error]
Unread     == [status |-> "unread"]
Points     == {"idle", "loaded", "steps", "call", "attempt", "insert", "inserted", "marked",
               "sent", "review", "error", "recover", "recovering"}

\* What a worker's session holds: where it stands, the run and step rows as it
\* loaded or wrote them, the approval row once loaded, the resolved arguments
\* of the step, the provider attempts left and the number of the next one.
Session == [pc : Points, at : 1..(NSteps + 1), status : RunStatus, cancel : BOOLEAN,
            steps : [Steps -> StepRow], approval : ApprovalRow \cup {Unread},
            arg : Actions, left : Nat, number : Nat]
Request == [kind : {"cancel", "abandon", "recheck"}, status : RunStatus]
           \cup [kind : {"retry", "skip", "approve", "reject"}, status : RunStatus,
                 step : Steps, row : StepRow, arg : Actions,
                 approval : ApprovalRow \cup {Unread}]

PlannedRow(s) == [status |-> IF s \in Writes THEN "awaiting_approval" ELSE "pending",
                  receipt |-> "none", args |-> PlannedAction]
Blank == [pc |-> "idle", at |-> 1, status |-> "running", cancel |-> FALSE,
          steps |-> [s \in Steps |-> PlannedRow(s)], approval |-> Unread,
          arg |-> PlannedAction, left |-> 0, number |-> 0]
-------------------------------------------------------------------------------
\* The ledger

Dispatched(s) == {n \in 1..Len(ledger[s]) : ledger[s][n].dispatched}

\* attempts_for_current_cycle: an attempt that never reached the provider does
\* not count; a write sees all the others, a read those since its last recovery.
CurrentCycle(s) == IF s \in Writes THEN Dispatched(s) ELSE Dispatched(s) \ aside[s]

LatestIsFinal(s) == \E n \in CurrentCycle(s) :
                      /\ \A m \in CurrentCycle(s) : m <= n
                      /\ ledger[s][n].error = "final"

Budget(s) == IF s \in Writes THEN 1 ELSE ReadBudget
-------------------------------------------------------------------------------
\* Sessions

Point(w) == wk[w].pc
Row(w)   == wk[w].steps[wk[w].at]
Become(w, session) == wk' = [wk EXCEPT ![w] = session]
Goto(w, point)     == Become(w, [wk[w] EXCEPT !.pc = point])

\* Mutant: an UPDATE that writes the whole row back.
MergeWholeRow(stored, loaded, new) == new

\* An UPDATE of a step row carries only the columns its session changed.
Merge(stored, loaded, new) ==
  [status  |-> IF new.status = loaded.status THEN stored.status ELSE new.status,
   receipt |-> IF new.receipt = loaded.receipt THEN stored.receipt ELSE new.receipt,
   args    |-> IF new.args = loaded.args THEN stored.args ELSE new.args]

\* A session at point with the rows it has and nothing of the step's call.
At(w, point, at, rowsSeen) ==
  [Blank EXCEPT !.pc = point, !.at = at, !.status = wk[w].status, !.cancel = wk[w].cancel,
                !.steps = rowsSeen]

\* The worker commits row for its current step and goes on from point.
SaveStep(w, row, point) ==
  LET s == wk[w].at IN
  /\ step' = [step EXCEPT ![s] = Merge(@, Row(w), row)]
  /\ Become(w, At(w, point, s, [wk[w].steps EXCEPT ![s] = row]))

\* The worker commits row and moves on to the next step.
SaveAndAdvance(w, row) ==
  LET s == wk[w].at IN
  /\ step' = [step EXCEPT ![s] = Merge(@, Row(w), row)]
  /\ Become(w, At(w, "steps", s + 1, [wk[w].steps EXCEPT ![s] = row]))

\* The run moves, and this session is over: a new one follows for the recovery.
Park(w, target) ==
  /\ MayTransition(wk[w].status, target, target \in {"running", "recovering"})
  /\ status' = StoreStatus(status, wk[w].status, target)
  /\ Become(w, [Blank EXCEPT !.pc = "recover"])

\* The same commit also saves the step at hand.
SaveAndPark(w, row, target) ==
  /\ step' = [step EXCEPT ![wk[w].at] = Merge(@, Row(w), row)]
  /\ Park(w, target)

\* Leaving execution_lock: the lock is given back if this worker still has it.
Release(w) == /\ Become(w, Blank)
              /\ holder' = IF holder = w THEN NoWorker ELSE holder
-------------------------------------------------------------------------------
\* Taking the run

\* A delivery takes the lock and loads the rows; one that finds the lock taken
\* or the run in another status returns without a trace.
Begin(w) ==
  /\ Point(w) = "idle" /\ holder = NoWorker /\ status \in Executable
  /\ holder' = w
  /\ Become(w, [Blank EXCEPT !.pc = "loaded", !.status = status, !.cancel = cancelReq,
                             !.steps = step])
  /\ UNCHANGED <<rows, ledgers, req, history>>

ObserveCancellation(w) ==
  /\ Point(w) = "loaded" /\ wk[w].cancel
  /\ Park(w, "cancelled")
  /\ UNCHANGED <<cancelReq, step, approval, ledgers, holder, req, history>>

\* The plan is the approved one and its connections answer.
StartRun(w) ==
  /\ Point(w) = "loaded" /\ ~wk[w].cancel
  /\ status' = StoreStatus(status, wk[w].status, "running")
  /\ Become(w, [wk[w] EXCEPT !.status = "running", !.pc = "steps"])
  /\ UNCHANGED <<cancelReq, step, approval, ledgers, holder, req, history>>

\* A preflight that must wait for a provider leaves the run recovering, one
\* that needs a person parks it.
FailPreflight(w) ==
  /\ Point(w) = "loaded" /\ ~wk[w].cancel
  /\ \E target \in {"recovering", "waiting_for_action"} : Park(w, target)
  /\ UNCHANGED <<cancelReq, step, approval, ledgers, holder, req, history>>

\* The supervisor may pause a walk before its first step, but only when some
\* step has failed or was left running without a receipt.
SupervisorPauses(w) ==
  /\ Point(w) = "steps" /\ wk[w].at = 1 /\ wk[w].approval = Unread
  /\ \E s \in Steps : LET row == wk[w].steps[s] IN
       row.status = "failed" \/ (row.status = "running" /\ row.receipt = "none")
  /\ Park(w, "waiting_for_action")
  /\ UNCHANGED <<cancelReq, step, approval, ledgers, holder, req, history>>
-------------------------------------------------------------------------------
\* Walking the plan

\* Mutant: a skipped dependency is good enough.
MetUnlessPending(w) ==
  \A d \in Deps[wk[w].at] : wk[w].steps[d].status \in {"completed", "skipped"}

AtStep(w) == Point(w) = "steps" /\ wk[w].at \in Steps
Met(w)    == \A d \in Deps[wk[w].at] : wk[w].steps[d].status = "completed"
Open(w)   == AtStep(w) /\ Row(w).receipt = "none" /\ Row(w).status \notin {"completed", "skipped"}

\* A recorded and accepted result completes its step whatever the row says.
SettleRecorded(w) ==
  /\ AtStep(w) /\ Row(w).receipt = "accepted"
  /\ SaveAndAdvance(w, [Row(w) EXCEPT !.status = "completed"])
  /\ UNCHANGED <<status, cancelReq, approval, ledgers, holder, req, history>>

\* A step is skipped by a person, by a dependency that did not complete, or by
\* its condition.
SkipStep(w) ==
  /\ \/ AtStep(w) /\ Row(w).receipt = "none" /\ Row(w).status = "skipped"
     \/ Open(w) /\ (~Met(w) \/ wk[w].at \in Conditional)
  /\ SaveAndAdvance(w, [Row(w) EXCEPT !.status = "skipped"])
  /\ UNCHANGED <<status, cancelReq, approval, ledgers, holder, req, history>>

\* Mutant: the approved arguments are not compared with those of the call.
MatchesAnyAction(w, row) == row.status = "approved" /\ row.ready

Matches(w, row) == /\ row.status = "approved" /\ row.ready
                   /\ row.args = wk[w].arg
NeedsApproval(w) == Open(w) /\ Met(w) /\ wk[w].at \in Writes
                    /\ Row(w).status \in {"pending", "awaiting_approval"}

StoreApproval(s, loaded, target, ready, a) ==
  approval' = [approval EXCEPT
    ![s] = [status |-> IF loaded.status = target THEN @.status ELSE target,
            ready |-> ready, args |-> a]]

\* A pending write whose approval is not for this action: asked anew.
AsksAnew(w) == /\ NeedsApproval(w) /\ wk[w].approval # Unread
               /\ Row(w).status = "pending" /\ ~Matches(w, wk[w].approval)

\* The arguments cannot be resolved from the results recorded so far.
ParkUnresolved(w) ==
  /\ Open(w) /\ Met(w) /\ wk[w].approval = Unread
  /\ SaveAndPark(w, [Row(w) EXCEPT !.status = "failed"], "waiting_for_action")
  /\ UNCHANGED <<cancelReq, approval, ledgers, holder, req, history>>
-------------------------------------------------------------------------------
\* Reviewing the exact action of a write

LoadApproval(w) ==
  /\ NeedsApproval(w) /\ wk[w].approval = Unread
  /\ Become(w, [wk[w] EXCEPT !.approval = approval[wk[w].at], !.arg = Row(w).args])
  /\ UNCHANGED <<rows, ledgers, holder, req, history>>

\* A step that waits for its approval is prepared while that is undecided.
MayPrepare(w) ==
  \/ AsksAnew(w)
  \/ Row(w).status = "awaiting_approval" /\ wk[w].approval.status = "pending"

\* No exact action can be previewed: connection, content, attachment or
\* recipient. An approval that was being asked anew is saved all the same.
ParkUnprepared(w) ==
  /\ NeedsApproval(w) /\ wk[w].approval # Unread /\ MayPrepare(w)
  /\ IF AsksAnew(w)
     THEN StoreApproval(wk[w].at, wk[w].approval, "pending", FALSE, wk[w].approval.args)
     ELSE UNCHANGED approval
  /\ \E outcome \in {"failed", "awaiting_approval"} :
       SaveAndPark(w, [Row(w) EXCEPT !.status = outcome], "waiting_for_action")
  /\ UNCHANGED <<cancelReq, ledgers, holder, req, history>>

\* The preview becomes ready and the run waits for the decision, in one commit.
ProposeAction(w) ==
  /\ NeedsApproval(w) /\ wk[w].approval # Unread /\ MayPrepare(w)
  /\ wk[w].at \notin StartAuthorized
  /\ \E a \in Actions : StoreApproval(wk[w].at, wk[w].approval, "pending", TRUE, a)
  /\ SaveAndPark(w, [Row(w) EXCEPT !.status = "awaiting_approval"], "awaiting_approval")
  /\ UNCHANGED <<cancelReq, ledgers, holder, req, history>>

\* Starting the reviewed plan authorised this step: its exact action is
\* approved here, when it is known, and the walk goes on.
AuthorizeByStart(w) ==
  LET s == wk[w].at IN
  /\ NeedsApproval(w) /\ wk[w].approval # Unread /\ MayPrepare(w)
  /\ s \in StartAuthorized /\ ~wk[w].cancel
  /\ \E a \in Actions :
       /\ StoreApproval(s, wk[w].approval, "approved", TRUE, a)
       /\ authorised' = [authorised EXCEPT ![s] = @ \cup {a}]
       /\ step' = [step EXCEPT ![s] = Merge(@, Row(w), [Row(w) EXCEPT !.status = "pending"])]
       /\ Become(w, [wk[w] EXCEPT !.steps[s].status = "pending", !.arg = a,
                        !.approval = [status |-> "approved", ready |-> TRUE, args |-> a]])
  /\ UNCHANGED <<status, cancelReq, ledgers, holder, req, sent, calls, late>>

\* A step waits for an approval that has already been decided.
ApprovalMissing(w) ==
  /\ NeedsApproval(w) /\ wk[w].approval # Unread
  /\ Row(w).status = "awaiting_approval" /\ wk[w].approval.status # "pending"
  /\ SaveAndPark(w, [Row(w) EXCEPT !.status = "failed"], "waiting_for_action")
  /\ UNCHANGED <<cancelReq, approval, ledgers, holder, req, history>>

\* A step that asks for no approval, or has the one it needs.
Startable(w) ==
  /\ Open(w) /\ Met(w)
  /\ \/ wk[w].at \notin Writes
     \/ Row(w).status \in {"running", "failed"}
     \/ Row(w).status = "pending" /\ wk[w].approval # Unread /\ Matches(w, wk[w].approval)

\* Its attachments, its tool, the certification of the operation, an incident
\* of the connector or the policy keep it from starting.
ParkUngoverned(w) ==
  /\ Startable(w)
  /\ \E target \in {"waiting_for_action", "blocked"}, outcome \in {"failed", Row(w).status} :
       SaveAndPark(w, [Row(w) EXCEPT !.status = outcome], target)
  /\ UNCHANGED <<cancelReq, approval, ledgers, holder, req, history>>

StartStep(w) ==
  /\ Startable(w)
  /\ LET s == wk[w].at
         row == [Row(w) EXCEPT !.status = "running"] IN
     /\ step' = [step EXCEPT ![s] = Merge(@, Row(w), row)]
     /\ Become(w, [wk[w] EXCEPT !.pc = "call", !.steps[s] = row,
                      !.arg = IF wk[w].approval = Unread THEN row.args ELSE @])
  /\ UNCHANGED <<status, cancelReq, approval, ledgers, holder, req, history>>
-------------------------------------------------------------------------------
\* The provider call

\* Only the approved action may be dispatched; the approval row is read here
\* unless this session has it already.
MayDispatch(w) ==
  wk[w].at \in Writes =>
    Matches(w, IF wk[w].approval = Unread THEN approval[wk[w].at] ELSE wk[w].approval)

Spent(s) == Cardinality(CurrentCycle(s))

\* Mutant: the attempts already spent are not held against the budget.
AdmitOverBudget(w) ==
  LET s == wk[w].at IN
  /\ Point(w) = "call" /\ MayDispatch(w) /\ ~LatestIsFinal(s)
  /\ Become(w, [wk[w] EXCEPT !.pc = "attempt", !.left = Budget(s) - Spent(s),
                             !.number = Len(ledger[s]) + 1])
  /\ UNCHANGED <<rows, ledgers, holder, req, history>>

AdmitCall(w) ==
  LET s == wk[w].at IN
  /\ Point(w) = "call" /\ MayDispatch(w) /\ ~LatestIsFinal(s)
  /\ s \in Writes => CurrentCycle(s) = {}
  /\ Spent(s) < Budget(s)
  /\ Become(w, [wk[w] EXCEPT !.pc = "attempt", !.left = Budget(s) - Spent(s),
                             !.number = Len(ledger[s]) + 1])
  /\ UNCHANGED <<rows, ledgers, holder, req, history>>

\* The action does not match its approval, the last failure is final, the
\* budget of the cycle is spent, or a write has been dispatched before.
RefuseCall(w) ==
  LET s == wk[w].at IN
  /\ Point(w) = "call"
  /\ \/ ~MayDispatch(w) \/ LatestIsFinal(s)
     \/ s \in Writes /\ CurrentCycle(s) # {}
     \/ s \notin Writes /\ Spent(s) >= Budget(s)
  /\ Goto(w, "error")
  /\ UNCHANGED <<rows, ledgers, holder, req, history>>

\* The outcome of an earlier dispatch is unknown and the provider confirms, by
\* a read, the state the write asked for.
ReconcileWrite(w) ==
  LET s == wk[w].at IN
  /\ Point(w) = "call" /\ MayDispatch(w) /\ ~LatestIsFinal(s)
  /\ s \in Reconcilable /\ CurrentCycle(s) # {}
  /\ SaveStep(w, [Row(w) EXCEPT !.receipt = "review"], "review")
  /\ UNCHANGED <<status, cancelReq, approval, ledgers, holder, req, history>>

\* Mutant: the cancellation flag of the start of the delivery is trusted.
TrustLoadedCancellation(w) ==
  /\ Point(w) = "attempt"
  /\ Goto(w, IF wk[w].cancel THEN "error" ELSE "insert")
  /\ UNCHANGED <<rows, ledgers, holder, req, history>>

RefreshCancellation(w) ==
  /\ Point(w) = "attempt"
  /\ Become(w, [wk[w] EXCEPT !.cancel = cancelReq,
                             !.pc = IF cancelReq THEN "error" ELSE "insert"])
  /\ UNCHANGED <<rows, ledgers, holder, req, history>>

\* (step_id, attempt_number) is unique: a number someone else has taken in
\* the meantime kills the delivery.
InsertAttempt(w) ==
  LET s == wk[w].at IN
  /\ Point(w) = "insert" /\ wk[w].number = Len(ledger[s]) + 1
  /\ Len(ledger[s]) < MaxAttempts
  /\ ledger' = [ledger EXCEPT ![s] = Append(@, [dispatched |-> FALSE, error |-> "none"])]
  /\ Become(w, [wk[w] EXCEPT !.pc = "inserted", !.left = @ - 1])
  /\ UNCHANGED <<rows, aside, holder, req, history>>
CollideAttempt(w) ==
  /\ Point(w) = "insert" /\ wk[w].number <= Len(ledger[wk[w].at])
  /\ Release(w)
  /\ UNCHANGED <<rows, ledgers, req, history>>

\* Mutant: the provider is called before the dispatch is on record.
CallUnmarked(w) ==
  /\ Point(w) = "inserted" /\ Goto(w, "marked")
  /\ UNCHANGED <<rows, ledgers, holder, req, history>>

\* The no-return boundary: committed before the provider is called.
MarkDispatched(w) ==
  /\ Point(w) = "inserted"
  /\ ledger' = [ledger EXCEPT ![wk[w].at][wk[w].number] = [@ EXCEPT !.dispatched = TRUE]]
  /\ Goto(w, "marked")
  /\ UNCHANGED <<rows, aside, holder, req, history>>

CallProvider(w) ==
  LET s == wk[w].at IN
  /\ Point(w) = "marked"
  /\ calls' = [calls EXCEPT ![s] = @ + 1]
  /\ sent' = [sent EXCEPT ![s] = @ \cup {wk[w].arg}]
  /\ late' = IF cancelReq THEN late + 1 ELSE late
  /\ Goto(w, "sent")
  /\ UNCHANGED <<rows, ledgers, holder, req, authorised>>

\* The receipt is committed with the attempt, before the result is reviewed.
CallSucceeds(w) ==
  /\ Point(w) = "sent"
  /\ SaveStep(w, [Row(w) EXCEPT !.receipt = "review"], "review")
  /\ UNCHANGED <<status, cancelReq, approval, ledgers, holder, req, history>>

\* The attempt fails, before the provider is called or after; only a
\* transient failure with attempts left is tried again.
FailAttempt(w) ==
  /\ Point(w) \in {"inserted", "sent"}
  /\ \E e \in {"final", "transient"}, again \in BOOLEAN :
       /\ again => e = "transient" /\ wk[w].left > 0
       /\ ledger' = [ledger EXCEPT ![wk[w].at][wk[w].number] = [@ EXCEPT !.error = e]]
       /\ Become(w, IF again THEN [wk[w] EXCEPT !.pc = "attempt", !.number = @ + 1]
                    ELSE At(w, "error", wk[w].at, wk[w].steps))
  /\ UNCHANGED <<rows, aside, holder, req, history>>

GiveUpCall(w) ==
  /\ Point(w) = "error"
  /\ SaveAndPark(w, [Row(w) EXCEPT !.status = "failed"],
                 IF wk[w].cancel THEN "cancelled" ELSE "waiting_for_action")
  /\ UNCHANGED <<cancelReq, approval, ledgers, holder, req, history>>
-------------------------------------------------------------------------------
\* Reviewing a recorded result: right after the call, or when a later delivery
\* finds a receipt nobody has accepted.

Reviewing(w) == Point(w) = "review" \/ (AtStep(w) /\ Row(w).receipt = "review")

AcceptResult(w) ==
  /\ Reviewing(w)
  /\ SaveAndAdvance(w, [Row(w) EXCEPT !.status = "completed", !.receipt = "accepted"])
  /\ UNCHANGED <<status, cancelReq, approval, ledgers, holder, req, history>>

\* The provider job is not finished, or its next check is not due: the run
\* stays running, and a delayed delivery will look again.
DeferReview(w) ==
  /\ Reviewing(w)
  /\ \E outcome \in {"running", Row(w).status} :
       SaveAndPark(w, [Row(w) EXCEPT !.status = outcome], "running")
  /\ UNCHANGED <<cancelReq, approval, ledgers, holder, req, history>>

\* The review rejects the result, or accepts a read whose output cannot be
\* mapped into the workflow variables.
RejectResult(w) ==
  /\ Reviewing(w)
  /\ \E r \in {"review", "accepted"} :
       /\ r = "accepted" => wk[w].at \notin Writes /\ Point(w) = "review"
       /\ SaveAndPark(w, [Row(w) EXCEPT !.status = "failed", !.receipt = r],
                      "waiting_for_action")
  /\ UNCHANGED <<cancelReq, approval, ledgers, holder, req, history>>

AtEnd(w) == Point(w) = "steps" /\ wk[w].at = NSteps + 1

\* Mutant: only a failed step keeps the run from completing.
NoneFailed(w) == \A s \in Steps \ Optional : wk[w].steps[s].status # "failed"

RequiredDone(w) == \A s \in Steps \ Optional : wk[w].steps[s].status = "completed"

FailIncomplete(w) ==
  /\ AtEnd(w) /\ ~RequiredDone(w) /\ Park(w, "failed")
  /\ UNCHANGED <<cancelReq, step, approval, ledgers, holder, req, history>>

\* The outcome is verified, or left for a person.
FinishRun(w) ==
  /\ AtEnd(w) /\ RequiredDone(w)
  /\ \E target \in {"completed", "waiting_for_action"} : Park(w, target)
  /\ UNCHANGED <<cancelReq, step, approval, ledgers, holder, req, history>>
-------------------------------------------------------------------------------
\* The end of a delivery: one bounded recovery or a handoff, on freshly loaded
\* rows; a model is asked between the read and the write.

ReadRecovery(w) ==
  /\ Point(w) = "recover"
  /\ IF status \in {"failed", "waiting_for_action"}
     THEN /\ Become(w, [Blank EXCEPT !.pc = "recovering", !.status = status,
                                     !.cancel = cancelReq, !.steps = step])
          /\ UNCHANGED holder
     ELSE Release(w)
  /\ UNCHANGED <<rows, ledgers, req, history>>

StepsIn(w, st) == {s \in Steps : wk[w].steps[s].status = st}

\* A recorded result is reviewed again; a write that reached the provider can
\* only be read back; one that did not, and a read, may be tried again.
Recoverable(s, row) == \/ row.receipt # "none"
                       \/ s \notin Writes
                       \/ Dispatched(s) = {}
                       \/ s \in Reconcilable
KeepsReceiptOrReadsBack(s, row) ==
  row.receipt # "none" \/ (s \in Writes /\ Dispatched(s) # {})

Awaited(s, row) == s \in Writes /\ approval[s].status = "pending"

\* The step that stopped the run: the first failed one, else the first one
\* that waits for an approval nobody can give yet.
StoppedAt(w, s) ==
  \E st \in {"failed", "awaiting_approval"} :
    /\ s \in StepsIn(w, st) /\ \A t \in StepsIn(w, st) : s <= t
    /\ st = "awaiting_approval" => StepsIn(w, "failed") = {}

ScheduleRecovery(w) ==
  /\ Point(w) = "recovering" /\ ~wk[w].cancel
  /\ \E s \in Steps, reset \in BOOLEAN :
       LET row == wk[w].steps[s] IN
       /\ StoppedAt(w, s) /\ Recoverable(s, row)
       /\ step' = [step EXCEPT ![s] = Merge(@, row, [row EXCEPT !.status =
             IF Awaited(s, row) /\ ~KeepsReceiptOrReadsBack(s, row) THEN "awaiting_approval"
             ELSE "pending"])]
       /\ reset => s \notin Writes /\ row.receipt = "none"
       /\ aside' = IF reset THEN [aside EXCEPT ![s] = Dispatched(s)] ELSE aside
  /\ status' = StoreStatus(status, wk[w].status, "recovering")
  /\ Release(w)
  /\ UNCHANGED <<cancelReq, approval, ledger, req, history>>

\* The recovery is over and a person has to look; a handoff for the same
\* reason as the last one leaves the run as it is.
HandOff(w) ==
  /\ Point(w) = "recovering"
  /\ \E target \in {"waiting_for_action", wk[w].status} :
       status' = StoreStatus(status, wk[w].status, target)
  /\ Release(w)
  /\ UNCHANGED <<cancelReq, step, approval, ledgers, req, history>>
-------------------------------------------------------------------------------
\* What the environment does to a delivery

\* The process dies: what it had not committed is gone, the lock is freed.
Crash(w) ==
  /\ Point(w) # "idle"
  /\ Release(w)
  /\ UNCHANGED <<rows, ledgers, req, history>>

\* Only the lock's dedicated connection dies; PostgreSQL frees the lock.
DropLock(w) ==
  /\ LockMayDrop /\ holder = w
  /\ holder' = NoWorker
  /\ UNCHANGED <<rows, ledgers, wk, req, history>>

\* recover_stale_runs redispatches a run nobody owns.
RecoverStale ==
  /\ holder = NoWorker /\ status \in Executable
  /\ status' = "recovering"
  /\ UNCHANGED <<cancelReq, step, approval, ledgers, holder, wk, req, history>>
-------------------------------------------------------------------------------
\* API requests: what they read, then what they write

Load(c, request) ==
  /\ req[c] = NoRequest
  /\ req' = [req EXCEPT ![c] = request]
  /\ UNCHANGED <<rows, ledgers, holder, wk, history>>
LoadRun(c, k) == Load(c, [kind |-> k, status |-> status])
LoadStep(c, k, s, a) ==
  Load(c, [kind |-> k, status |-> status, step |-> s, row |-> step[s], arg |-> a,
           approval |-> IF s \in Writes THEN approval[s] ELSE Unread])

Parked == status \in {"waiting_for_action", "failed"}

\* cancel_run is open in every status that is not terminal; resume_run in a
\* parked one: "abandon" is its cancel; a retry, by the same tool or its approved
\* fallback, takes up a failed step, or one paused with a receipt, but never a
\* write that may have been executed; with no such step it asks for the
\* preflight or the final review again.
ReadCancel(c)  == status \notin {"completed", "cancelled"} /\ LoadRun(c, "cancel")
ReadAbandon(c) == Parked /\ LoadRun(c, "abandon")
ToRetry(s) == \/ step[s].status = "failed"
              \/ step[s].status = "running" /\ step[s].receipt # "none"
ReadRecheck(c) == /\ Parked /\ \A s \in Steps : ~ToRetry(s)
                  /\ LoadRun(c, "recheck")
ReadRetry(c)   == /\ Parked
                  /\ \E s \in Steps :
                       /\ ToRetry(s)
                       /\ s \in Writes /\ Dispatched(s) # {} => step[s].receipt # "none"
                       /\ LoadStep(c, "retry", s, PlannedAction)
ReadSkip(c)    == /\ Parked
                  /\ \E s \in Optional : /\ step[s].status = "failed"
                                         /\ LoadStep(c, "skip", s, PlannedAction)

\* decide_approval looks at the approval only, whatever the run is doing.
ReadDecision(c) ==
  \E s \in Writes :
    /\ approval[s].status = "pending"
    /\ \/ LoadStep(c, "reject", s, PlannedAction)
       \/ approval[s].ready /\ \E a \in Actions : LoadStep(c, "approve", s, a)

Done(c) == req' = [req EXCEPT ![c] = NoRequest]
Asked(c, k) == req[c] # NoRequest /\ req[c].kind = k

\* A running or planning run is only asked to stop, any other is cancelled.
WriteCancel(c) ==
  /\ Asked(c, "cancel")
  /\ cancelReq' = TRUE
  /\ status' = IF req[c].status \in {"running", "planning"} THEN status
               ELSE StoreStatus(status, req[c].status, "cancelled")
  /\ Done(c)
  /\ UNCHANGED <<step, approval, ledgers, holder, wk, history>>

WriteAbandon(c) ==
  /\ Asked(c, "abandon")
  /\ status' = StoreStatus(status, req[c].status, "cancelled")
  /\ Done(c)
  /\ UNCHANGED <<cancelReq, step, approval, ledgers, holder, wk, history>>

WriteRecheck(c) ==
  /\ Asked(c, "recheck")
  /\ status' = StoreStatus(status, req[c].status, "recovering")
  /\ Done(c)
  /\ UNCHANGED <<cancelReq, step, approval, ledgers, holder, wk, history>>

WriteRetry(c) ==
  /\ Asked(c, "retry")
  /\ LET s == req[c].step
         row == req[c].row IN
     /\ step' = [step EXCEPT ![s] = Merge(@, row, [row EXCEPT !.status =
          IF s \in Writes /\ req[c].approval.status = "pending" THEN "awaiting_approval"
          ELSE "pending"])]
     /\ aside' = IF s \in Writes THEN aside ELSE [aside EXCEPT ![s] = Dispatched(s)]
  /\ status' = StoreStatus(status, req[c].status, "recovering")
  /\ Done(c)
  /\ UNCHANGED <<cancelReq, approval, ledger, holder, wk, history>>

WriteSkip(c) ==
  /\ Asked(c, "skip")
  /\ LET s == req[c].step
         row == req[c].row IN
     step' = [step EXCEPT ![s] = Merge(@, row, [row EXCEPT !.status = "skipped"])]
  /\ status' = StoreStatus(status, req[c].status, "recovering")
  /\ Done(c)
  /\ UNCHANGED <<cancelReq, approval, ledgers, holder, wk, history>>

\* The reviewed arguments, edited or not, become those of the step; the run is
\* dispatched if the supervisor allows the edge, else the request fails whole.
WriteApproval(c) ==
  /\ Asked(c, "approve") /\ MayTransition(req[c].status, "running", TRUE)
  /\ LET s == req[c].step
         row == req[c].row
         a == req[c].arg
         new == [row EXCEPT !.status = "pending", !.args = a] IN
     /\ approval' = [approval EXCEPT ![s] =
          [status |-> "approved", ready |-> TRUE,
           args |-> IF a = row.args /\ a = req[c].approval.args THEN @.args ELSE a]]
     /\ authorised' = [authorised EXCEPT ![s] = @ \cup {a}]
     /\ step' = [step EXCEPT ![s] = Merge(@, row, new)]
  /\ status' = StoreStatus(status, req[c].status, "running")
  /\ Done(c)
  /\ UNCHANGED <<cancelReq, ledgers, holder, wk, sent, calls, late>>

WriteRejection(c) ==
  /\ Asked(c, "reject") /\ MayTransition(req[c].status, "running", TRUE)
  /\ LET s == req[c].step
         row == req[c].row IN
     /\ approval' = [approval EXCEPT ![s].status = "rejected"]
     /\ step' = [step EXCEPT ![s] = Merge(@, row, [row EXCEPT !.status = "skipped"])]
  /\ status' = StoreStatus(status, req[c].status, "running")
  /\ Done(c)
  /\ UNCHANGED <<cancelReq, ledgers, holder, wk, history>>

\* The supervisor refuses the edge: nothing is written.
RefuseDecision(c) ==
  /\ Asked(c, "approve") \/ Asked(c, "reject")
  /\ ~MayTransition(req[c].status, "running", TRUE)
  /\ Done(c)
  /\ UNCHANGED <<rows, ledgers, holder, wk, history>>
-------------------------------------------------------------------------------
\* approve_plan has just made the run executable: reads are pending, every
\* write waits for a preview of its exact action.
Init ==
  /\ status = "running" /\ cancelReq = FALSE
  /\ step = [s \in Steps |-> PlannedRow(s)]
  /\ approval = [s \in Writes |-> [status |-> "pending", ready |-> FALSE, args |-> PlannedAction]]
  /\ ledger = [s \in Steps |-> <<>>] /\ aside = [s \in Steps |-> {}]
  /\ holder = NoWorker /\ wk = [w \in Workers |-> Blank]
  /\ req = [c \in Clients |-> NoRequest]
  /\ authorised = [s \in Steps |-> {}] /\ sent = [s \in Steps |-> {}]
  /\ calls = [s \in Steps |-> 0] /\ late = 0

Work(w) ==
  \/ Begin(w) \/ ObserveCancellation(w) \/ StartRun(w) \/ FailPreflight(w)
  \/ SupervisorPauses(w) \/ SettleRecorded(w) \/ SkipStep(w)
  \/ ParkUnresolved(w) \/ ParkUnprepared(w) \/ ParkUngoverned(w)
  \/ LoadApproval(w) \/ ProposeAction(w) \/ AuthorizeByStart(w) \/ ApprovalMissing(w)
  \/ StartStep(w) \/ AdmitCall(w) \/ RefuseCall(w) \/ ReconcileWrite(w)
  \/ RefreshCancellation(w) \/ InsertAttempt(w) \/ CollideAttempt(w) \/ MarkDispatched(w)
  \/ CallProvider(w) \/ CallSucceeds(w) \/ FailAttempt(w) \/ GiveUpCall(w)
  \/ AcceptResult(w) \/ DeferReview(w) \/ RejectResult(w)
  \/ FailIncomplete(w) \/ FinishRun(w)
  \/ ReadRecovery(w) \/ ScheduleRecovery(w) \/ HandOff(w)
  \/ Crash(w) \/ DropLock(w)

Ask(c) ==
  \/ ReadCancel(c) \/ ReadAbandon(c) \/ ReadRetry(c) \/ ReadRecheck(c) \/ ReadSkip(c)
  \/ ReadDecision(c)
  \/ WriteCancel(c) \/ WriteAbandon(c) \/ WriteRetry(c) \/ WriteRecheck(c) \/ WriteSkip(c)
  \/ WriteApproval(c) \/ WriteRejection(c) \/ RefuseDecision(c)

Next == (\E w \in Workers : Work(w)) \/ (\E c \in Clients : Ask(c)) \/ RecoverStale

Spec == Init /\ [][Next]_vars
-------------------------------------------------------------------------------
\* Properties

\* Every variable ranges over the values its column or object can hold.
TypeOK ==
  /\ status \in RunStatus /\ cancelReq \in BOOLEAN
  /\ step \in [Steps -> StepRow] /\ approval \in [Writes -> ApprovalRow]
  /\ ledger \in [Steps -> Seq(Attempt)] /\ aside \in [Steps -> SUBSET Nat]
  /\ holder \in Workers \cup {NoWorker} /\ wk \in [Workers -> Session]
  /\ req \in [Clients -> Request \cup {NoRequest}]
  /\ authorised \in [Steps -> SUBSET Actions] /\ sent \in [Steps -> SUBSET Actions]
  /\ calls \in [Steps -> Nat] /\ late \in Nat

\* Whatever crashes, duplicate deliveries, stale recoveries, retries by a user
\* and automatic recoveries happen, the provider is called at most once for a
\* consequential step.
WriteAtMostOnce == \A s \in Writes : calls[s] <= 1

\* Once cancellation is requested, at most the one provider call that was past
\* its last check still goes out, over all later deliveries of the run.
CancelBoundsCalls == late <= 1

\* No provider is called for a step before the results of all the steps it
\* depends on are recorded and accepted.
DependenciesFirst ==
  \A s \in Steps : calls[s] > 0 => \A d \in Deps[s] : step[d].receipt = "accepted"

\* The rows and the sessions are well formed, and the steps are taken in the order
\* of the plan, whatever restarts, skips and retries do to it.
StepsInOrder == TypeOK /\ DependenciesFirst

\* A completed run has an accepted result for every required step.
CompletedIsComplete ==
  status = "completed" => \A s \in Steps \ Optional : step[s].receipt = "accepted"

\* Duplicate deliveries and crashes do not refill the provider budget of a
\* read: only an explicit recovery opens a new cycle.
ReadsStayInBudget ==
  \A s \in Steps \ Writes : Cardinality(Dispatched(s) \ aside[s]) <= ReadBudget

\* A recorded provider result is never dropped, and its step never calls the
\* provider again.
ReceiptIsFinal ==
  [][\A s \in Steps : step[s].receipt # "none" =>
       step'[s].receipt # "none" /\ calls'[s] = calls[s]]_vars

\* When a write that a person approves goes out, its approval row still says
\* approved, for exactly the arguments sent.  This holds as long as decisions
\* come one at a time: decide_approval takes no lock on the row it has read, and
\* a rejection that races an approval is stored after it, too late for the call.
StandingApproval ==
  [][\A s \in Writes \ StartAuthorized : calls'[s] # calls[s] =>
       approval[s].status = "approved" /\ approval[s].args \in sent'[s]]_vars

\* Without the lock a write may go out twice, but never more often than
\* there are deliveries alive together: a dispatched row stops all later ones.
RepeatsBoundedByOverlap == \A s \in Writes : calls[s] <= Cardinality(Workers)

\* The run does to its consequential steps only what ExternalWrite allows:
\* reviewed, spent once in the ledger, called once after that with an action that
\* a person or the start of the plan approved, recorded.
Promise == INSTANCE ExternalWrite WITH
  reviewed <- [s \in Writes |-> authorised[s]],
  sent     <- [s \in Writes |-> sent[s]],
  calls    <- [s \in Writes |-> calls[s]],
  spent    <- {s \in Writes : Dispatched(s) # {}},
  recorded <- {s \in Writes : step[s].receipt # "none"}
KeepsPromise == Promise!Spec
===============================================================================
