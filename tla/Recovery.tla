------------------------------ MODULE Recovery ------------------------------
(***************************************************************************)
(* What happens to an approved run that stopped: the automatic recovery of *)
(* a delivery (autonomous_delivery.py), the repair planner                 *)
(* (replanning.py), the recovery engineer and its isolated code repairs    *)
(* (recovery_engineer.py), the sweeps that take up what a dead worker left *)
(* (scheduler_runtime.py), and the person's own retry or cancellation.     *)
(*                                                                         *)
(* One run.  Its row keeps the status, the steps and `ctx', the JSON       *)
(* column execution_context in which every one of these parts keeps its    *)
(* counters.  A part loads the row, awaits a model, a provider or GitHub,  *)
(* and writes back the columns it changed: `ctx' as a whole.  The lock of  *)
(* the run orders the workers and the sweeps; requests and the callback of *)
(* the repair pipeline do not take it.                                     *)
(*                                                                         *)
(* Execution itself is one action per step (RunExecution has its inside),  *)
(* planning is Planning's, the approvals of actions are PlanReview's.      *)
(***************************************************************************)
EXTENDS Integers, Sequences, FiniteSets, SequencesExt

CONSTANTS
    Configs,        \* planner mode, kinds of the steps, the failures a run may meet,
                    \* and the results of an isolated repair
    MaxRounds,      \* max_autonomous_recovery_rounds
    MaxStep,        \* max_autonomous_step_recoveries
    MaxReviews,     \* max_autonomous_review_recoveries
    MaxEngineer,    \* max_recovery_engineer_attempts
    MaxReplans,     \* attempts of the repair planner
    MaxPasses,      \* passes of one delivery over the run
    MaxRestarts,    \* max_restart_recoveries
    MaxFaults       \* bound: requests of the person, workers and loops that die

Found == {"transient", "invalid", "auth", "unsure", "defect"}

ASSUME RecoveryAssumption ==
    /\ \A c \in Configs :
          /\ c.planner \in {"agent", "llm"}
          /\ c.kinds \in Seq({"read", "update", "derivative", "jira"})
          /\ c.fails \subseteq Found \union {"person"}
          /\ c.results \subseteq {"promoted", "failed", "canary_failed", "rolled_back"}
    /\ {MaxRounds, MaxStep, MaxReviews, MaxEngineer, MaxReplans, MaxPasses,
        MaxRestarts, MaxFaults} \subseteq Nat

VARIABLES
    run,        \* the row of the run, its steps and the category its last failure left
    incidents,  \* the rows of recovery_incidents, oldest first
    later,      \* a dispatch intent waits for its time, which is next_attempt_at
    mail,       \* a delivery of the run waits in the broker
    lock,       \* who owns the run
    at,         \* where each part is
    seen,       \* the row each part has loaded
    passes,     \* passes the present delivery has made
    config,     \* one of Configs
    faults,     \* requests made and deaths so far
    made, worked, overlaps  \* history: rounds scheduled, retries of the engineer,
                            \* columns written over a change their writer had not seen

vars == <<run, incidents, later, mail, lock, at, seen, passes, config, faults,
          made, worked, overlaps>>

Worker == "worker"
Loop == "loop"
Person == "person"
Parts == {Worker, Loop, Person}
Owners == {Worker, Loop}

Steps == DOMAIN config.kinds
Phases == {"connection", "execution", "verification"}
Active == {"queued", "repairing", "awaiting_sandbox"}
Closed == {"configuration_required", "quarantined", "failed", "canary_failed", "rolled_back"}
Incident == Active \union Closed \union {"workflow_retry", "promoted"}
Stopped == {"failed", "waiting_for_action"}
Live == {"running", "recovering"}
Ended == {"completed", "cancelled"}
NoRow == [status |-> "none"]

Allowed(from, to) ==
    CASE to = "recovering" -> from \in {"running", "waiting_for_action", "failed", "blocked"}
      [] to = "blocked"    -> from \in {"running", "recovering", "waiting_for_action", "failed"}
      [] to = "cancelled"  -> from \notin Ended
      [] OTHER             -> TRUE

Consequential(s) == config.kinds[s] # "read"
AllDone(r) == \A s \in Steps : r.st[s] = "completed"
FailedSteps(r) == {s \in Steps : r.st[s] = "failed"}

-----------------------------------------------------------------------------
(* Writing a row back: a session updates the columns that differ from what it  *)
(* had loaded; execution_context is one column.                                *)
Column(now, old, new) == IF new = old THEN now ELSE new

Saved(old, new) ==
    [status   |-> Column(run.status, old.status, new.status),
     cancel   |-> Column(run.cancel, old.cancel, new.cancel),
     approved |-> Column(run.approved, old.approved, new.approved),
     found    |-> Column(run.found, old.found, new.found),
     sent     |-> run.sent,
     st       |-> [s \in Steps |-> Column(run.st[s], old.st[s], new.st[s])],
     recorded |-> [s \in Steps |-> Column(run.recorded[s], old.recorded[s], new.recorded[s])],
     ctx      |-> Column(run.ctx, old.ctx, new.ctx)]

Write(old, new) ==
    /\ run' = Saved(old, new)
    /\ overlaps' = IF new.ctx # old.ctx /\ run.ctx # old.ctx /\ new.ctx # run.ctx
                   THEN 1 ELSE overlaps

(* The dispatch intent a transition into recovering leaves in the same commit. *)
Dispatch == mail' = TRUE /\ UNCHANGED later
NoDispatch == UNCHANGED <<later, mail>>

-----------------------------------------------------------------------------
Init ==
    /\ config \in Configs
    /\ run = [status |-> "running", cancel |-> FALSE, approved |-> TRUE, found |-> "none",
              sent |-> [s \in Steps |-> 0],
              st |-> [s \in Steps |-> "pending"],
              recorded |-> [s \in Steps |-> FALSE],
              ctx |-> [phase |-> "execution", blocker |-> FALSE, rounds |-> 0,
                       per |-> [s \in Steps |-> 0], reviews |-> 0, refreshed |-> {},
                       handoff |-> "none", due |-> FALSE,
                       engineer |-> [p \in Phases |-> 0], code |-> 0,
                       incident |-> "none", replans |-> 0,
                       offset |-> [s \in Steps |-> 0], reread |-> {}, restarts |-> 0]]
    /\ incidents = <<>>
    /\ later = FALSE
    /\ mail = TRUE
    /\ lock = "free"
    /\ at = [p \in Parts |-> "idle"]
    /\ seen = [p \in Parts |-> NoRow]
    /\ passes = 0
    /\ faults = 0
    /\ made = 0
    /\ worked = [p \in Phases |-> 0]
    /\ overlaps = 0

Goto(p, l) == at' = [at EXCEPT ![p] = l]
Keep(p) == seen' = [seen EXCEPT ![p] = run]
Forget(p) == seen' = [seen EXCEPT ![p] = NoRow]

(* The end of one attempt to recover: the lock is released.  The worker goes   *)
(* on to the engineer, the recovery loop to its next sweep.                    *)
Release(p) ==
    /\ lock' = "free"
    /\ passes' = IF p = Worker THEN 0 ELSE passes
    /\ Goto(p, IF p = Worker THEN "engineer" ELSE "idle")
    /\ Forget(p)

-----------------------------------------------------------------------------
(* Delivery and execution.                                                     *)

Mature ==
    /\ later
    /\ later' = FALSE
    /\ mail' = (mail \/ run.status \in Live)
    /\ UNCHANGED <<run, incidents, lock, at, seen, passes, config, faults, made, worked, overlaps>>

Deliver ==
    /\ mail
    /\ at[Worker] = "idle"
    /\ mail' = FALSE
    /\ \/ /\ lock = "free"
          /\ run.status \in Live
          /\ lock' = Worker
          /\ Goto(Worker, "run")
       \/ /\ lock # "free" \/ run.status \notin Live
          /\ Goto(Worker, "engineer")
          /\ UNCHANGED lock
    /\ UNCHANGED <<run, incidents, later, seen, passes, config, faults,
                   made, worked, overlaps>>

(* What a call of step s may come to.  A write that went out in the present    *)
(* cycle is never sent again: it is read back or stays uncertain.              *)
Sendable(s) == ~Consequential(s) \/ run.sent[s] <= run.ctx.offset[s]

Failures(s) ==
    {f \in [found : (config.fails \ {"person"}) \union {"unsure"},
            sent : BOOLEAN, recorded : BOOLEAN] :
        /\ f.recorded => f.found = "defect"
        /\ f.sent => Consequential(s) /\ Sendable(s)
        /\ Consequential(s) => /\ f.found = "unsure" => f.sent \/ ~Sendable(s)
                               /\ f.found = "invalid" => f.sent
                               /\ f.found = "transient" => ~f.sent /\ Sendable(s)
                               /\ f.found = "defect" => f.recorded
                               /\ f.recorded => f.sent \/ run.recorded[s]
                               /\ f.found = "auth" => ~f.sent
        /\ ~Consequential(s) => f.found # "unsure"
        /\ config.kinds[s] = "derivative" /\ Sendable(s) => f.found # "unsure"
        /\ run.recorded[s] => f.recorded}

Fail(s) ==
    \E f \in Failures(s) :
        /\ run' = [run EXCEPT !.status = IF f.found = "defect" THEN "failed"
                                         ELSE "waiting_for_action",
                              !.st[s] = "failed", !.found = f.found,
                              !.sent[s] = IF f.sent THEN @ + 1 ELSE @,
                              !.recorded[s] = f.recorded,
                              !.ctx.phase = "execution", !.ctx.due = FALSE,
                              !.ctx.blocker = FALSE]
        /\ Goto(Worker, "rescue")

Succeed(s) ==
    /\ Sendable(s) \/ run.recorded[s] \/ config.kinds[s] \in {"update", "jira"}
    /\ run' = [run EXCEPT !.st[s] = "completed", !.recorded[s] = TRUE,
                          !.sent[s] = IF Consequential(s) /\ ~run.recorded[s] /\ Sendable(s)
                                      THEN @ + 1 ELSE @,
                          !.ctx.due = FALSE, !.ctx.blocker = FALSE]
    /\ UNCHANGED at

AskPerson ==
    /\ "person" \in config.fails
    /\ run' = [run EXCEPT !.status = "waiting_for_action", !.ctx.phase = "connection",
                          !.ctx.blocker = TRUE, !.ctx.due = FALSE]
    /\ Goto(Worker, "rescue")

Review ==
    /\ AllDone(run)
    /\ \/ run' = [run EXCEPT !.status = "completed", !.ctx.blocker = FALSE]
       \/ run' = [run EXCEPT !.status = "waiting_for_action", !.ctx.phase = "verification",
                             !.ctx.due = FALSE]
    /\ Goto(Worker, "rescue")

Execute ==
    /\ at[Worker] = "run"
    /\ \/ /\ run.status \notin Live
          /\ Goto(Worker, "rescue")
          /\ UNCHANGED run
       \/ /\ run.status \in Live /\ run.cancel
          /\ run' = [run EXCEPT !.status = "cancelled"]
          /\ Goto(Worker, "rescue")
       \/ /\ run.status = "recovering" /\ ~run.cancel /\ run.ctx.due /\ later
          /\ Goto(Worker, "rescue")
          /\ UNCHANGED run
       \/ /\ run.status \in Live /\ ~run.cancel
          /\ ~(run.status = "recovering" /\ run.ctx.due /\ later)
          /\ \/ /\ ~AllDone(run)
                /\ LET s == CHOOSE x \in Steps :
                              run.st[x] # "completed" /\ \A y \in 1..(x - 1) :
                                                              run.st[y] = "completed"
                   IN Fail(s) \/ Succeed(s)
             \/ ~AllDone(run) /\ AskPerson
             \/ Review
    /\ UNCHANGED <<incidents, later, mail, lock, seen, passes, config, faults,
                   made, worked, overlaps>>

-----------------------------------------------------------------------------
(* autonomous_delivery.py: one round of the automatic recovery.  The owner of  *)
(* the lock loads the row, asks the supervisor which of the safe options to    *)
(* take, and commits.                                                          *)

Applicable(r) == r.approved /\ ~r.cancel /\ r.status \in Stopped

FailedStep(r) == CHOOSE s \in FailedSteps(r) : TRUE

Option(action, s) == [action |-> action, step |-> s]

StepLimit(r, s) ==
    IF config.kinds[s] = "derivative" /\ r.found = "invalid" THEN MaxRounds ELSE MaxStep

StepOptions(r, s) ==
    CASE r.recorded[s] -> {Option("retry_recorded_review", s)}
      [] ~r.recorded[s] /\ config.kinds[s] = "derivative" /\ r.found = "invalid" ->
            {Option("retry_derivative", s)}
      [] ~r.recorded[s] /\ Consequential(s)
                        /\ ~(config.kinds[s] = "derivative" /\ r.found = "invalid") ->
            IF r.sent[s] > 0
            THEN IF config.kinds[s] = "update" THEN {Option("reconcile_write", s)} ELSE {}
            ELSE IF r.found = "transient" THEN {Option("retry_step", s)} ELSE {}
      [] ~r.recorded[s] /\ ~Consequential(s) ->
            CASE r.found = "auth"      -> {Option("revalidate_connection", s)}
              [] r.found = "invalid"   -> IF s \in r.ctx.refreshed THEN {}
                                          ELSE {Option("refresh_capabilities", s)}
              [] r.found = "transient" -> {Option("retry_step", s)}
              [] OTHER                 -> {}

SafeOptions(r) ==
    IF AllDone(r)
    THEN IF r.ctx.reviews < MaxReviews THEN {Option("retry_final_review", 0)} ELSE {}
    ELSE IF FailedSteps(r) = {} THEN {}
    ELSE LET s == FailedStep(r)
         IN IF r.ctx.per[s] >= StepLimit(r, s) THEN {} ELSE StepOptions(r, s)

HandOff(r, reason) ==
    IF r.ctx.handoff = reason THEN r
    ELSE [r EXCEPT !.status = "waiting_for_action", !.ctx.phase = "execution",
                   !.ctx.handoff = reason, !.ctx.due = FALSE]

Scheduled(r, o) ==
    LET s == o.step
        counted == [r EXCEPT !.status = "recovering", !.ctx.rounds = @ + 1, !.ctx.due = TRUE]
    IN IF o.action = "retry_final_review"
       THEN [counted EXCEPT !.ctx.reviews = @ + 1, !.ctx.phase = "verification"]
       ELSE [counted EXCEPT
                !.st[s] = "pending", !.ctx.per[s] = @ + 1, !.ctx.phase = "execution",
                !.ctx.refreshed = IF o.action = "refresh_capabilities" THEN @ \union {s} ELSE @,
                !.ctx.offset[s] = IF o.action = "retry_derivative" THEN r.sent[s] ELSE @]

(* The result of discovering a connector's operations again, and of checking   *)
(* its account: still usable, worth another attempt, or neither.               *)
RefreshCapabilities == {"usable", "retryable", "gone"}
RevalidateConnection == {"usable", "retryable", "gone"}

LoadRescue(p) ==
    /\ at[p] = "rescue"
    /\ lock = p
    /\ Keep(p)
    /\ Goto(p, IF Applicable(run) THEN "deciding" ELSE "replan")
    /\ UNCHANGED <<run, incidents, later, mail, lock, passes, config,
                   faults, made, worked, overlaps>>

GiveUp(p, reason) ==
    /\ Write(seen[p], HandOff(seen[p], reason))
    /\ Release(p)
    /\ UNCHANGED <<later, made>>

Schedule(p, o) ==
    /\ Write(seen[p], Scheduled(seen[p], o))
    /\ made' = made + 1
    /\ later' = TRUE
    /\ Release(p)

GoReplan(p) ==
    /\ Goto(p, "replan")
    /\ UNCHANGED <<run, later, lock, seen, passes, made, overlaps>>

Refresh(p, o) ==
    \E result \in RefreshCapabilities :
        IF result = "gone"
        THEN /\ Write(seen[p], [seen[p] EXCEPT !.ctx.refreshed = @ \union {o.step}])
             /\ Goto(p, "replan")
             /\ UNCHANGED <<later, lock, seen, passes, made>>
        ELSE Schedule(p, o)

Revalidate(p, o) ==
    \E result \in RevalidateConnection :
        IF result = "gone" THEN GiveUp(p, "connection") ELSE Schedule(p, o)

Recover(p) ==
    LET r == seen[p]
        unverified == AllDone(r)
    IN IF r.ctx.rounds >= MaxRounds THEN GiveUp(p, "budget")
       ELSE IF config.planner = "llm" /\ unverified THEN GiveUp(p, "final")
       ELSE IF SafeOptions(r) = {}
            THEN IF unverified THEN GiveUp(p, "final") ELSE GoReplan(p)
       ELSE \E o \in SafeOptions(r) :
                CASE o.action = "refresh_capabilities"  -> Refresh(p, o)
                  [] o.action = "revalidate_connection" -> Revalidate(p, o)
                  [] OTHER                              -> Schedule(p, o)

Decide(p) ==
    /\ at[p] = "deciding"
    /\ Recover(p)
    /\ UNCHANGED <<incidents, mail, config, faults, worked>>

-----------------------------------------------------------------------------
(* replanning.py: a model proposes another call for the failed step.           *)

Repairable(r) ==
    /\ config.planner = "agent"
    /\ Applicable(r)
    /\ FailedSteps(r) # {}
    /\ r.found \notin {"auth", "unsure"}
    /\ Consequential(FailedStep(r)) => /\ ~r.recorded[FailedStep(r)]
                                       /\ r.found = "invalid"
    /\ r.ctx.replans < MaxReplans

(* What the proposal turns out to be: not usable; within what was approved;    *)
(* within the read repairs the person delegated; or wider, for a new approval. *)
Proposals(r) ==
    {"refused", "wider"} \union
        (IF Consequential(FailedStep(r)) THEN {} ELSE {"preserved", "delegated"})

Replaced(r, s) ==
    [r EXCEPT !.st[s] = "pending", !.recorded[s] = FALSE, !.ctx.offset[s] = r.sent[s],
              !.ctx.phase = "execution"]

(* A wider plan is stored as a new version, which a person has to approve.      *)
Widened(r, s) ==
    [Replaced(r, s) EXCEPT !.status = "awaiting_approval", !.approved = FALSE]

Retried(p) ==
    /\ Dispatch
    /\ IF p = Worker /\ passes + 1 < MaxPasses
       THEN passes' = passes + 1 /\ Goto(p, "run") /\ Forget(p) /\ UNCHANGED lock
       ELSE Release(p)

MarkHandoff(r) == IF r.status \in Stopped THEN HandOff(r, "no_safe_recovery") ELSE r

Unrepaired(p) ==
    /\ Write(run, MarkHandoff(run))
    /\ Release(p)
    /\ NoDispatch

(* Mutant: an attempt of the repair planner is not counted.                     *)
LoadReplanUncounted(p) ==
    /\ at[p] = "replan"
    /\ lock = p
    /\ IF Repairable(run)
       THEN /\ seen' = [seen EXCEPT ![p] = run]
            /\ Goto(p, "replanning")
            /\ UNCHANGED <<run, lock, overlaps, passes, later, mail>>
       ELSE Unrepaired(p)
    /\ UNCHANGED <<incidents, config, faults, made, worked>>

LoadReplan(p) ==
    /\ at[p] = "replan"
    /\ lock = p
    /\ IF Repairable(run)
       THEN /\ run' = [run EXCEPT !.ctx.replans = @ + 1]
            /\ seen' = [seen EXCEPT ![p] = run']
            /\ Goto(p, "replanning")
            /\ UNCHANGED <<lock, overlaps, passes, later, mail>>
       ELSE Unrepaired(p)
    /\ UNCHANGED <<incidents, config, faults, made, worked>>

Replan(p) ==
    /\ at[p] = "replanning"
    /\ \E proposal \in Proposals(seen[p]) :
         LET r == [seen[p] EXCEPT !.status = run.status, !.cancel = run.cancel]
             s == FailedStep(seen[p])
         IN IF proposal = "refused" \/ run.cancel \/ run.status \notin Stopped
            THEN Unrepaired(p)
            ELSE IF proposal = "wider"
            THEN /\ Write(r, Widened(r, s))
                 /\ Release(p)
                 /\ NoDispatch
            ELSE /\ Write(r, [Replaced(r, s) EXCEPT !.status = "recovering"])
                 /\ Retried(p)
    /\ UNCHANGED <<incidents, config, faults, made, worked>>

-----------------------------------------------------------------------------
(* recovery_engineer.py: the engineer takes up what recovery handed off.       *)

Candidate(r) ==
    /\ ~r.ctx.blocker
    /\ r.ctx.incident \notin Active \union Closed
    /\ r.status = "blocked" \/ r.ctx.handoff # "none"

Category(r) ==
    IF r.found = "none"
    THEN IF r.ctx.phase = "verification" THEN "verification_incomplete" ELSE "defect"
    ELSE r.found

(* Mutant: only the category of the failure is looked at.                       *)
HumanActionCategory(r) == Category(r) \in {"auth", "unsure"}

HumanAction(r) == r.ctx.blocker \/ Category(r) \in {"auth", "unsure"}

CodeRepair(r) ==
    /\ ~HumanAction(r)
    /\ \/ Category(r) = "defect"
       \/ /\ Category(r) \in {"invalid", "verification_incomplete"}
          /\ r.ctx.engineer[r.ctx.phase] >= MaxEngineer

(* The incident an engineer works on: the active one, or a new row.            *)
Opened(r) ==
    IF \E i \in DOMAIN incidents : incidents[i].status \in Active THEN incidents
    ELSE Append(incidents, [status |-> "queued", phase |-> r.ctx.phase])

Current(rows) == Max({i \in DOMAIN rows : rows[i].status \in Active})

Settle(r, status) ==
    incidents' = [Opened(r) EXCEPT ![Current(Opened(r))].status = status]

Leave(p) == Goto(p, "idle") /\ Forget(p) /\ lock' = "free"

(* A transition the table of run statuses refuses raises: nothing is written.  *)
Raise(p) == UNCHANGED <<run, incidents, later, worked, overlaps>>

Block(p, r, status) ==
    IF r.status # "blocked" /\ ~Allowed(r.status, "blocked") THEN Raise(p)
    ELSE /\ Settle(r, status)
         /\ Write(r, [r EXCEPT !.status = "blocked", !.ctx.incident = status])
         /\ UNCHANGED <<later, worked>>

(* Mutant: a retry of the engineer is not counted.                              *)
RetryUncounted(p, r) ==
    IF ~Allowed(r.status, "recovering") THEN Raise(p)
    ELSE /\ Settle(r, "workflow_retry")
         /\ Write(r, [r EXCEPT !.status = "recovering", !.ctx.incident = "workflow_retry"])
         /\ worked' = [worked EXCEPT ![r.ctx.phase] = @ + 1]
         /\ later' = TRUE

RetryWorkflow(p, r) ==
    IF ~Allowed(r.status, "recovering") THEN Raise(p)
    ELSE /\ Settle(r, "workflow_retry")
         /\ Write(r, [r EXCEPT !.status = "recovering", !.ctx.incident = "workflow_retry",
                               !.ctx.engineer[r.ctx.phase] = @ + 1])
         /\ worked' = [worked EXCEPT ![r.ctx.phase] = @ + 1]
         /\ later' = TRUE

(* The sandbox takes the incident, or does not answer.                         *)
IsolateRepair(r) ==
    \E status \in {"repairing", "awaiting_sandbox"} :
        /\ Settle(r, status)
        /\ Write(r, [r EXCEPT !.ctx.incident = status, !.ctx.code = @ + 1])
        /\ UNCHANGED <<later, worked>>

Engineer(p) ==
    LET r == seen[p]
        busy == Opened(r)[Current(Opened(r))].status # "queued"
    IN /\ at[p] = "engineering"
       /\ \/ /\ r.status \in Ended \/ (HumanAction(r) /\ r.ctx.blocker)
             /\ Raise(p)
          \/ /\ r.status \notin Ended /\ HumanAction(r) /\ ~r.ctx.blocker
             /\ Block(p, r, "configuration_required")
          \/ /\ r.status \notin Ended /\ ~HumanAction(r) /\ busy
             /\ Raise(p)
          \/ /\ r.status \notin Ended /\ ~HumanAction(r) /\ ~busy
             /\ CASE ~CodeRepair(r) /\ r.ctx.engineer[r.ctx.phase] >= MaxEngineer ->
                         Block(p, r, "quarantined")
                  [] ~CodeRepair(r) /\ r.ctx.engineer[r.ctx.phase] < MaxEngineer ->
                         RetryWorkflow(p, r)
                  [] CodeRepair(r) /\ r.ctx.code >= MaxEngineer ->
                         Block(p, r, "quarantined")
                  [] OTHER -> IsolateRepair(r)
       /\ Leave(p)
       /\ UNCHANGED <<mail, passes, config, faults, made>>

(* The worker looks again under the lock; the sweep goes by its earlier list.  *)
LoadEngineer(p) ==
    /\ at[p] = "engineer"
    /\ IF lock = "free" /\ (p = Worker => Candidate(run))
       THEN lock' = p /\ Keep(p) /\ Goto(p, "engineering")
       ELSE UNCHANGED lock /\ Forget(p) /\ Goto(p, "idle")
    /\ UNCHANGED <<run, incidents, later, mail, passes, config, faults, made, worked, overlaps>>

-----------------------------------------------------------------------------
(* scheduler_runtime.py: the sweeps of the elected recovery loop.              *)

(* Mutant: only failed runs are looked for, not those that wait.                *)
WaitingFailed(r) == Applicable(r) /\ r.ctx.handoff = "none" /\ r.status = "failed"

Waiting(r) == Applicable(r) /\ r.ctx.handoff = "none"
Exhausted(r) == ~r.cancel /\ r.status \in Stopped \union {"blocked"} /\ Candidate(r)

ListWaiting ==
    /\ at[Loop] = "idle"
    /\ Waiting(run)
    /\ Goto(Loop, "listed")
    /\ UNCHANGED <<run, incidents, later, mail, lock, seen, passes, config,
                   faults, made, worked, overlaps>>

TakeWaiting ==
    /\ at[Loop] = "listed"
    /\ IF lock = "free" THEN lock' = Loop /\ Goto(Loop, "rescue")
       ELSE UNCHANGED lock /\ Goto(Loop, "idle")
    /\ UNCHANGED <<run, incidents, later, mail, seen, passes, config,
                   faults, made, worked, overlaps>>

ListExhausted ==
    /\ at[Loop] = "idle"
    /\ Exhausted(run)
    /\ Goto(Loop, "engineer")
    /\ UNCHANGED <<run, incidents, later, mail, lock, seen, passes, config,
                   faults, made, worked, overlaps>>

(* A recorded Jira receipt is read back once, whatever the run waits for.      *)
ReadBack ==
    /\ at[Loop] = "idle"
    /\ lock = "free"
    /\ Applicable([run EXCEPT !.status = IF @ = "blocked" THEN "failed" ELSE @])
    /\ \E s \in Steps :
         /\ config.kinds[s] = "jira"
         /\ run.recorded[s]
         /\ run.st[s] \in {"failed", "pending"}
         /\ s \notin run.ctx.reread
         /\ run' = [run EXCEPT !.status = "recovering", !.st[s] = "pending",
                               !.ctx.phase = "verification", !.ctx.blocker = FALSE,
                               !.ctx.reread = @ \union {s}]
    /\ Dispatch
    /\ UNCHANGED <<incidents, lock, at, seen, passes, config, faults,
                   made, worked, overlaps>>

(* recover_stale_runs: a run in progress that nobody has touched for long.     *)
Restart ==
    /\ at[Loop] = "idle"
    /\ lock = "free"
    /\ run.status \in Live
    /\ ~mail /\ ~later
    /\ IF run.ctx.restarts < MaxRestarts
       THEN /\ run' = [run EXCEPT !.status = "recovering", !.ctx.phase = "execution",
                                  !.ctx.restarts = @ + 1]
            /\ Dispatch
       ELSE /\ run' = [run EXCEPT !.status = "waiting_for_action", !.ctx.phase = "execution"]
            /\ NoDispatch
    /\ UNCHANGED <<incidents, lock, at, seen, passes, config, faults,
                   made, worked, overlaps>>

(* A worker or the recovery loop dies: its session and its lock end, and the   *)
(* broker hands the unacknowledged delivery out again.                         *)
Crash(p) ==
    /\ at[p] # "idle"
    /\ faults < MaxFaults
    /\ faults' = faults + 1
    /\ Goto(p, "idle")
    /\ Forget(p)
    /\ lock' = IF lock = p THEN "free" ELSE lock
    /\ mail' = (mail \/ p = Worker)
    /\ passes' = IF p = Worker THEN 0 ELSE passes
    /\ UNCHANGED <<run, incidents, later, config, made,
                   worked, overlaps>>

-----------------------------------------------------------------------------
(* Requests, and the callback of the repair pipeline: no lock of the run.      *)

Resumable(r) ==
    IF FailedSteps(r) = {} THEN r.ctx.blocker \/ AllDone(r)
    ELSE LET s == FailedStep(r)
         IN Consequential(s) => r.sent[s] = 0 \/ r.recorded[s]

Ask ==
    /\ at[Person] = "idle"
    /\ faults < MaxFaults
    /\ faults' = faults + 1
    /\ run.status \in Stopped
    /\ Resumable(run)
    /\ Keep(Person)
    /\ Goto(Person, "resume")
    /\ UNCHANGED <<run, incidents, later, mail, lock, passes, config, made,
                   worked, overlaps>>

(* resume_run with the decision to retry.                                      *)
Resumed(r) ==
    IF FailedSteps(r) = {}
    THEN [r EXCEPT !.status = "recovering", !.ctx.blocker = FALSE,
                   !.ctx.phase = IF r.ctx.blocker THEN "connection" ELSE "verification"]
    ELSE [r EXCEPT !.status = "recovering", !.st[FailedStep(r)] = "pending",
                   !.ctx.handoff = "none", !.ctx.due = FALSE, !.ctx.phase = "execution",
                   !.ctx.offset[FailedStep(r)] =
                       IF config.kinds[FailedStep(r)] = "derivative" /\ r.found = "invalid"
                       THEN r.sent[FailedStep(r)] ELSE @]

Resume ==
    /\ at[Person] = "resume"
    /\ Write(seen[Person], Resumed(seen[Person]))
    /\ Dispatch
    /\ Goto(Person, "idle")
    /\ Forget(Person)
    /\ UNCHANGED <<incidents, lock, passes, config, faults, made, worked>>

(* Cancelling and approving a plan are short: RunExecution and PlanReview have *)
(* their windows.                                                              *)
Cancel ==
    /\ faults < MaxFaults
    /\ faults' = faults + 1
    /\ run.status \notin Ended
    /\ run' = [run EXCEPT !.cancel = TRUE,
                          !.status = IF @ = "running" THEN @ ELSE "cancelled"]
    /\ NoDispatch
    /\ UNCHANGED <<incidents, lock, at, seen, passes, config, made, worked, overlaps>>

Approve ==
    /\ run.status = "awaiting_approval"
    /\ run' = [run EXCEPT !.status = "running", !.approved = TRUE]
    /\ Dispatch
    /\ UNCHANGED <<incidents, lock, at, seen, passes, config, faults, made, worked,
                   overlaps>>

(* The pipeline reports on a repair it was given (also when the answer to the  *)
(* dispatch was lost), perhaps a failure first and a promotion later; nothing  *)
(* replaces a promotion.  A transition that is refused answers 409.            *)
CallBack ==
    \E i \in DOMAIN incidents, result \in config.results :
      LET restart == result = "promoted" /\ run.status \notin Ended
      IN /\ incidents[i].status \in
               {"repairing", "awaiting_sandbox", "failed", "canary_failed"} \ {result}
         /\ restart => Allowed(run.status, "recovering")
         /\ incidents' = [incidents EXCEPT ![i].status = result]
         /\ run' = [run EXCEPT !.ctx.incident = result,
                               !.ctx.phase = IF restart THEN incidents[i].phase ELSE @,
                               !.status = IF restart THEN "recovering" ELSE @]
         /\ IF restart THEN Dispatch ELSE NoDispatch
         /\ UNCHANGED <<lock, at, seen, passes, config, faults, made, worked,
                        overlaps>>

-----------------------------------------------------------------------------
Work(p) == LoadRescue(p) \/ Decide(p) \/ LoadReplan(p) \/ Replan(p)
               \/ LoadEngineer(p) \/ Engineer(p)

Next ==
    \/ Mature \/ Deliver \/ Execute
    \/ \E p \in Owners : Work(p) \/ Crash(p)
    \/ ListWaiting \/ TakeWaiting \/ ListExhausted \/ ReadBack \/ Restart
    \/ Ask \/ Resume \/ Cancel \/ Approve
    \/ CallBack

Spec == Init /\ [][Next]_vars

(* The broker and the recovery loop keep running; a part that has begun goes   *)
(* on.  No person has to ask for anything, and no pipeline to call back.       *)
Fairness ==
    /\ WF_vars(Mature)
    /\ WF_vars(Deliver)
    /\ WF_vars(Execute)
    /\ \A p \in Owners : WF_vars(Work(p))
    /\ WF_vars(ListWaiting \/ TakeWaiting \/ ListExhausted \/ ReadBack \/ Restart)
    /\ WF_vars(Resume)

FairSpec == Spec /\ Fairness

-----------------------------------------------------------------------------
(* Every column keeps its range; no incident stays merely queued once the      *)
(* engineer has committed, and the lock of the run is held exactly while its   *)
(* owner executes, recovers or repairs it (sync_run_lock).                     *)
TypeOK ==
    /\ run.status \in {"running", "recovering", "failed", "waiting_for_action", "blocked",
                       "awaiting_approval", "completed", "cancelled"}
    /\ run.st \in [Steps -> {"pending", "failed", "completed"}]
    /\ run.found \in Found \union {"none"}
    /\ run.ctx.incident \in Incident \union {"none"}
    /\ \A i \in DOMAIN incidents : incidents[i].status \in Incident \ {"queued"}
    /\ lock \in Owners \union {"free"}
    /\ \A p \in Owners : at[p] \in {"rescue", "deciding", "replan", "replanning",
                                    "engineering", "run"} <=> lock = p

(* A run never has two repairs in progress: the engineer goes on with the      *)
(* incident that is open instead of handing the same failure out twice.        *)
OneRepair ==
    Cardinality({i \in DOMAIN incidents : incidents[i].status \in Active}) <= 1

(* However the worker, the sweeps, the person and the engineer follow each     *)
(* other, a run gets no more automatic rounds than allowed, no step more       *)
(* recoveries, and no phase more retries of the engineer: the counters live in *)
(* the column everyone writes back, so this holds until one of them writes     *)
(* over a change it has not seen.                                              *)
BudgetsKept ==
    /\ TypeOK /\ OneRepair
    /\ overlaps = 0 =>
        /\ made <= MaxRounds
        /\ \A s \in Steps : config.kinds[s] # "derivative" => run.ctx.per[s] <= MaxStep
        /\ \A p \in Phases : worked[p] <= MaxEngineer

(* Recovery, repair planner, engineer, read-backs and restarts all start the   *)
(* run again; between them they give it up after finitely many attempts.       *)
RecoveryEnds == <>[](run.status \notin Live)

(* A stopped run that waits for no person and is in no repair.                 *)
Unattended ==
    /\ run.status \in Stopped
    /\ run.approved /\ ~run.cancel /\ ~run.ctx.blocker
    /\ incidents = <<>> \/ Last(incidents).status \in {"workflow_retry", "promoted"}

(* An approved run that stopped is not left lying: recovery or the engineer    *)
(* takes it up and ends in a round, a person's task, a repair or quarantine,   *)
(* unless a column was written over a change its writer had not seen.          *)
StopsAreTakenUp == <>[](overlaps = 0 => ~Unattended)

(* The engineer never moves a run that asks a person for something, even when  *)
(* the question came up after it had listed the run.                           *)
HumanBlockersExcluded ==
    [][ \A p \in Owners :
          at[p] = "engineering" /\ at'[p] = "idle" /\ run'.status # run.status
              => ~run.ctx.blocker \/ overlaps > 0 ]_vars
=============================================================================
