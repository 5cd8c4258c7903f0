------------------------------ MODULE RunDelivery ------------------------------
(***************************************************************************)
(* How an executable run reaches a worker: the transactional outbox        *)
(* (dispatch_intents), the dispatchers that hand it to the broker, the     *)
(* broker's at-least-once queue, the worker's per-run lock, delayed        *)
(* retries, and the elected sweep that redispatches a stale run.           *)
(*                                                                         *)
(* Grain.  The execution of the plan is one step with an outcome here (it  *)
(* is the subject of RunExecution); reading the outbox, publishing and     *)
(* committing are separate steps.  Intents and messages are counted: they  *)
(* carry nothing but the run.  Only the "execute" kind is modelled; "plan" *)
(* goes through the same functions.  Delays are not compared with each     *)
(* other: when time passes, every delay is over.                           *)
(***************************************************************************)
EXTENDS Naturals, FiniteSets, RunStateMachine

CONSTANTS
  Workers,      \* Celery workers
  Dispatchers,  \* other callers of dispatch_pending: the scheduler tick, requests
  Outcomes,     \* the statuses in which the walk over the plan may end
  MaxRestarts,  \* the restart budget of a run (MAX_RESTART_RECOVERIES)
  MaxRetries,   \* bound: delayed retries of a run (the code's budgets per kind)
  MaxResumes,   \* bound: times a person or an approval resumes the run
  MaxFaults,    \* bound: crashes, lost messages, broker outages
  NoWorker

ASSUME BoundAssumption == /\ MaxRestarts \in Nat /\ MaxRetries \in Nat
                          /\ MaxResumes \in Nat /\ MaxFaults \in Nat
ASSUME OutcomeAssumption == Outcomes \subseteq AllowedTransitions["running"] \ {"recovering"}
ASSUME ProcessAssumption == NoWorker \notin Workers /\ Workers \cap Dispatchers = {}

VARIABLES
  status,    \* workflow_runs.status
  waiting,   \* the retry whose time has not come: its kind, or "none"
  stale,     \* updated_at is older than the stale cutoff
  due,       \* pending intents whose available_at has passed
  later,     \* pending intents whose available_at is in the future
  ready,     \* broker messages a worker may receive
  delayed,   \* broker messages with a countdown
  hand,      \* the intent each publisher has locked, by its class
  out,       \* has the publisher handed it to the broker?
  holder,    \* owner of the run's advisory lock
  wk,        \* the workers
  sweep,     \* the stale sweep: a park it has decided and not yet committed
  restarts,  \* execution_context.restart_recoveries
  retries, resumes, faults   \* counters of the bounds

outbox   == <<due, later>>
broker   == <<ready, delayed>>
hands    == <<hand, out>>
counters == <<restarts, retries, resumes, faults>>
vars == <<status, waiting, stale, outbox, broker, hands, holder, wk, sweep, counters>>

Publishers == Workers \cup Dispatchers
Retry      == {"preflight", "recovery"}
Worker     == [pc : {"idle", "early", "working", "retrying", "closing", "tail"}, status : RunStatus,
               saw : Nat, retry : Retry]
Idle       == [pc |-> "idle", status |-> "running", saw |-> 0, retry |-> "preflight"]

Pending    == due + later
Held(k)    == Cardinality({p \in Publishers : hand[p] = k})
NoneHeld   == \A p \in Publishers : hand[p] = "none"
At(w, pc)  == wk[w].pc = pc
Goto(w, pc) == wk' = [wk EXCEPT ![w].pc = pc]

\* The run moves, and its row is fresh again.
Move(new) == status' = new /\ stale' = FALSE

\* A new intent, due at once or later.
AddDue   == due' = due + 1 /\ UNCHANGED later
AddLater == later' = later + 1 /\ UNCHANGED due

\* A pending intent gets a later available_at.
PutOffOne == \/ due > 0 /\ due' = due - 1 /\ later' = later + 1
             \/ later > 0 /\ UNCHANGED outbox

\* So do all that the worker saw pending and that still are; an intent added
\* since then is not touched.
PutOffSeen(w) == /\ due' = IF Pending > wk[w].saw THEN Pending - wk[w].saw ELSE 0
                 /\ later' = Pending - due'
-------------------------------------------------------------------------------
\* dispatch_pending: pending intents are locked with SKIP LOCKED, published
\* one after the other, and committed together

\* Mutant: the rows that another publisher has locked are not skipped.
SelectableLocked(p) == {k \in IF p \in Workers THEN {"due", "later"} ELSE {"due"} :
                          (IF k = "due" THEN due ELSE later) > 0}

\* A worker that ends its delivery publishes delayed intents as well.
Selectable(p) == {k \in IF p \in Workers THEN {"due", "later"} ELSE {"due"} :
                    Held(k) < IF k = "due" THEN due ELSE later}
MaySelect(p) == hand[p] = "none" /\ (p \in Workers => At(p, "tail"))

Remove(k) == /\ due' = IF k = "due" THEN due - 1 ELSE due
             /\ later' = IF k = "later" THEN later - 1 ELSE later

Select(p) ==
  /\ MaySelect(p) /\ status \in Executable
  /\ \E k \in Selectable(p) : hand' = [hand EXCEPT ![p] = k]
  /\ out' = [out EXCEPT ![p] = FALSE]
  /\ UNCHANGED <<status, waiting, stale, outbox, broker, holder, wk, sweep, counters>>

\* The run is not in a status the intent is for.
Supersede(p) ==
  /\ MaySelect(p) /\ status \notin Executable
  /\ \E k \in Selectable(p) : Remove(k)
  /\ UNCHANGED <<status, waiting, stale, broker, hands, holder, wk, sweep, counters>>

Publish(p) ==
  /\ hand[p] # "none" /\ ~out[p]
  /\ IF hand[p] = "due" THEN ready' = ready + 1 /\ UNCHANGED delayed
     ELSE delayed' = delayed + 1 /\ UNCHANGED ready
  /\ out' = [out EXCEPT ![p] = TRUE]
  /\ UNCHANGED <<status, waiting, stale, outbox, hand, holder, wk, sweep, counters>>

CommitPublished(p) ==
  /\ out[p]
  /\ Remove(hand[p])
  /\ hand' = [hand EXCEPT ![p] = "none"] /\ out' = [out EXCEPT ![p] = FALSE]
  /\ UNCHANGED <<status, waiting, stale, broker, holder, wk, sweep, counters>>

\* The broker refuses: the intent stays pending and backs off.
BrokerDown(p) ==
  /\ faults < MaxFaults /\ hand[p] # "none" /\ ~out[p]
  /\ IF hand[p] = "due" THEN due' = due - 1 /\ later' = later + 1 ELSE UNCHANGED <<due, later>>
  /\ hand' = [hand EXCEPT ![p] = "none"]
  /\ faults' = faults + 1
  /\ UNCHANGED <<status, waiting, stale, broker, out, holder, wk, sweep, restarts,
                 retries, resumes>>
-------------------------------------------------------------------------------
\* The broker, the clock, and faults

\* Time passes: every delay is over.
Elapse ==
  /\ later > 0 \/ delayed > 0 \/ waiting # "none"
  /\ due' = due + later /\ later' = 0
  /\ ready' = ready + delayed /\ delayed' = 0
  /\ hand' = [p \in Publishers |-> IF hand[p] = "later" THEN "due" ELSE hand[p]]
  /\ waiting' = "none"
  /\ UNCHANGED <<status, stale, out, holder, wk, sweep, counters>>

Age ==
  /\ ~stale /\ status \in Executable
  /\ stale' = TRUE
  /\ UNCHANGED <<status, waiting, outbox, broker, hands, holder, wk, sweep, counters>>

Fault == faults < MaxFaults /\ faults' = faults + 1
         /\ UNCHANGED <<restarts, retries, resumes>>

LoseMessage ==
  /\ Fault
  /\ \/ ready > 0 /\ ready' = ready - 1 /\ UNCHANGED delayed
     \/ delayed > 0 /\ delayed' = delayed - 1 /\ UNCHANGED ready
  /\ UNCHANGED <<status, waiting, stale, due, later, hands, holder, wk, sweep>>

\* A dispatcher dies before its commit: what it has published stays published.
DispatcherDies(p) ==
  /\ Fault /\ hand[p] # "none"
  /\ hand' = [hand EXCEPT ![p] = "none"] /\ out' = [out EXCEPT ![p] = FALSE]
  /\ UNCHANGED <<status, waiting, stale, due, later, broker, holder, wk, sweep>>

\* A worker dies: the lock is freed, and the message, acknowledged only at the
\* end, is delivered again.
WorkerDies(w) ==
  /\ Fault /\ ~At(w, "idle")
  /\ ready' = ready + 1
  /\ wk' = [wk EXCEPT ![w] = Idle]
  /\ holder' = IF holder = w THEN NoWorker ELSE holder
  /\ hand' = [hand EXCEPT ![w] = "none"] /\ out' = [out EXCEPT ![w] = FALSE]
  /\ UNCHANGED <<status, waiting, stale, due, later, delayed, sweep>>
-------------------------------------------------------------------------------
\* A delivery: execute_delivery

\* The lock is free and the run executable: the worker takes both.
Begin(w) ==
  /\ ready > 0 /\ At(w, "idle") /\ holder = NoWorker /\ status \in Executable
  /\ ready' = ready - 1
  /\ holder' = w
  /\ wk' = [wk EXCEPT ![w] = [pc |-> IF status = "recovering" /\ waiting = "recovery"
                                     THEN "early" ELSE "working",
                              status |-> status, saw |-> Pending, retry |-> "recovery"]]
  /\ UNCHANGED <<status, waiting, stale, outbox, delayed, hands, sweep, counters>>

\* The retry of an autonomous recovery came too early (preserve_retry_dispatch):
\* the intent it will need is kept for the time that was set, and if none was
\* seen pending, one is added.
PreserveRetry(w) ==
  /\ At(w, "early")
  /\ IF wk[w].saw > 0 THEN NoneHeld /\ IF waiting = "none" THEN UNCHANGED outbox ELSE PutOffSeen(w)
     ELSE IF waiting = "none" THEN AddDue ELSE AddLater
  /\ Goto(w, "closing")
  /\ UNCHANGED <<status, waiting, stale, broker, hands, holder, sweep, counters>>

\* A delivery that finds the lock taken or the run elsewhere ends at once and its message is gone.
Drop(w) ==
  /\ ready > 0 /\ At(w, "idle") /\ (holder # NoWorker \/ status \notin Executable)
  /\ ready' = ready - 1
  /\ Goto(w, "tail")
  /\ UNCHANGED <<status, waiting, stale, outbox, delayed, hands, holder, sweep,
                 counters>>

\* The walk over the plan ends: done, or waiting for somebody.
Finish(w) ==
  /\ At(w, "working")
  /\ \E target \in Outcomes :
       /\ MayTransition(wk[w].status, target, FALSE)
       /\ Move(StoreStatus(status, wk[w].status, target))
  /\ waiting' = "none"
  /\ Goto(w, "closing")
  /\ UNCHANGED <<outbox, broker, hands, holder, sweep, counters>>

\* A preflight asks for a retry (_schedule_retry), or the recovery at the end
\* of the delivery schedules one (autonomously_recover_run): first, whether an
\* intent is pending already is read, without a lock.
AskRetry(w) ==
  /\ retries < MaxRetries
  /\ \/ At(w, "working") /\ wk' = [wk EXCEPT ![w] = [@ EXCEPT !.pc = "retrying",
                                      !.saw = Pending, !.retry = "preflight"]]
     \/ /\ At(w, "closing") /\ status \in {"failed", "waiting_for_action"}
        /\ wk' = [wk EXCEPT ![w] = [pc |-> "retrying", status |-> status,
                                    saw |-> Pending, retry |-> "recovery"]]
  /\ retries' = retries + 1
  /\ UNCHANGED <<status, waiting, stale, outbox, broker, hands, holder, sweep, restarts,
                 resumes, faults>>

\* Then the retry is committed: an intent seen pending is put off, once its
\* row lock is free, whatever has become of it; else one is added.  A recovery
\* puts off all it has seen, a preflight the latest.
CommitRetry(w) ==
  /\ At(w, "retrying")
  /\ IF wk[w].saw = 0 THEN AddLater
     ELSE /\ NoneHeld
          /\ IF wk[w].retry = "recovery" THEN PutOffSeen(w)
             ELSE PutOffOne \/ (wk[w].saw > Pending /\ UNCHANGED outbox)
  /\ waiting' = wk[w].retry
  /\ Move(IF wk[w].retry = "recovery" THEN StoreStatus(status, wk[w].status, "recovering")
          ELSE status)
  /\ Goto(w, "closing")
  /\ UNCHANGED <<broker, hands, holder, sweep, counters>>

\* defer_verification: the same, but the pending intent is read FOR UPDATE.
DeferVerification(w) ==
  /\ At(w, "working") /\ retries < MaxRetries /\ NoneHeld
  /\ IF Pending = 0 THEN AddLater ELSE PutOffOne
  /\ waiting' = "preflight"
  /\ Move(StoreStatus(status, wk[w].status, "running"))
  /\ Goto(w, "closing")
  /\ retries' = retries + 1
  /\ UNCHANGED <<broker, hands, holder, sweep, restarts, resumes, faults>>

Release(w) ==
  /\ At(w, "closing")
  /\ holder' = IF holder = w THEN NoWorker ELSE holder
  /\ Goto(w, "tail")
  /\ UNCHANGED <<status, waiting, stale, outbox, broker, hands, sweep, counters>>

EndDelivery(w) ==
  /\ MaySelect(w) /\ Selectable(w) = {}
  /\ wk' = [wk EXCEPT ![w] = Idle]
  /\ UNCHANGED <<status, waiting, stale, outbox, broker, hands, holder, sweep, counters>>
-------------------------------------------------------------------------------
\* recover_stale_runs, by the elected scheduler

\* Mutant: only a running run is taken for abandoned.
AbandonedRunning == /\ stale /\ status = "running" /\ holder = NoWorker /\ Pending = 0
                    /\ sweep = "idle"

Abandoned == /\ stale /\ status \in Executable /\ holder = NoWorker /\ Pending = 0
             /\ sweep = "idle"

\* Taken and committed under the run's lock.
RecoverStale ==
  /\ Abandoned /\ restarts < MaxRestarts
  /\ restarts' = restarts + 1
  /\ Move("recovering")
  /\ AddDue
  /\ UNCHANGED <<waiting, broker, hands, holder, wk, sweep, retries, resumes, faults>>

\* The budget is spent: the park is decided under the lock, and committed with
\* the other runs of the workspace after the lock has been given back.  The
\* SELECT .. FOR UPDATE of the sweep does not hold the row that long: the
\* commit for an earlier run ends its transaction.
DecidePark ==
  /\ Abandoned /\ restarts = MaxRestarts
  /\ sweep' = "parking"
  /\ UNCHANGED <<status, waiting, stale, outbox, broker, hands, holder, wk, counters>>
CommitPark ==
  /\ sweep = "parking"
  /\ Move("waiting_for_action")
  /\ sweep' = "idle"
  /\ UNCHANGED <<waiting, outbox, broker, hands, holder, wk, counters>>

\* A person decides or retries: the run is executable again, and the
\* supervisor adds the edge's own intent in the same transaction.
Resume ==
  /\ resumes < MaxResumes
  /\ status \in {"awaiting_approval", "waiting_for_action", "failed"}
  /\ LET target == IF status = "awaiting_approval" THEN "running" ELSE "recovering" IN
     /\ Move(target)
     /\ IF AutomaticDispatch(status, target) = "execute" THEN AddDue ELSE UNCHANGED outbox
  /\ waiting' = "none"
  /\ resumes' = resumes + 1
  /\ UNCHANGED <<broker, hands, holder, wk, sweep, restarts, retries, faults>>
-------------------------------------------------------------------------------
Init ==
  /\ status = "running" /\ waiting = "none" /\ stale = FALSE
  /\ due = 1 /\ later = 0 /\ ready = 0 /\ delayed = 0
  /\ hand = [p \in Publishers |-> "none"] /\ out = [p \in Publishers |-> FALSE]
  /\ holder = NoWorker /\ wk = [w \in Workers |-> Idle] /\ sweep = "idle"
  /\ restarts = 0 /\ retries = 0 /\ resumes = 0 /\ faults = 0

Dispatch(p) == Select(p) \/ Supersede(p) \/ Publish(p) \/ CommitPublished(p)
Deliver(w)  == Begin(w) \/ Drop(w)
Work(w)     == \/ PreserveRetry(w) \/ Finish(w) \/ AskRetry(w) \/ CommitRetry(w)
               \/ DeferVerification(w)
Close(w)    == Release(w) \/ EndDelivery(w)
Sweep       == RecoverStale \/ DecidePark \/ CommitPark
Faults      == \/ LoseMessage \/ \E p \in Publishers : BrokerDown(p)
               \/ \E p \in Dispatchers : DispatcherDies(p)
               \/ \E w \in Workers : WorkerDies(w)

Next == \/ \E p \in Publishers : Dispatch(p)
        \/ \E w \in Workers : Deliver(w) \/ Work(w) \/ Close(w)
        \/ Elapse \/ Age \/ Sweep \/ Resume \/ Faults

Spec == Init /\ [][Next]_vars

\* The scheduler ticks for ever, its tick and a worker's delivery are bounded
\* in time, the clock runs, and the broker hands out what it has.  Nobody is
\* obliged to resume a run, and faults need not happen.
Fairness == /\ \A p \in Publishers : WF_vars(Dispatch(p))
            /\ WF_vars(\E w \in Workers : Deliver(w))
            /\ \A w \in Workers : WF_vars(Work(w)) /\ WF_vars(Close(w))
            /\ WF_vars(Elapse) /\ WF_vars(Age) /\ WF_vars(Sweep)

FairSpec == Spec /\ Fairness
-------------------------------------------------------------------------------
\* Properties

TypeOK ==
  /\ status \in RunStatus /\ waiting \in Retry \cup {"none"} /\ stale \in BOOLEAN
  /\ due \in Nat /\ later \in Nat /\ ready \in Nat /\ delayed \in Nat
  /\ hand \in [Publishers -> {"none", "due", "later"}] /\ out \in [Publishers -> BOOLEAN]
  /\ holder \in Workers \cup {NoWorker} /\ wk \in [Workers -> Worker]
  /\ sweep \in {"idle", "parking"}
  /\ restarts \in 0..MaxRestarts /\ retries \in Nat /\ resumes \in Nat /\ faults \in Nat

\* Every publisher that holds an intent holds one of its own, and it is still
\* pending until that publisher commits.
HeldIsPending == Held("due") <= due /\ Held("later") <= later

\* Publishers, sweeps and workers never disagree about what is in the outbox or
\* about how often a run was restarted.
OutboxConsistent == TypeOK /\ HeldIsPending

\* An executable run is not left executable for ever: it completes, fails or
\* comes to wait for a person, through lost messages, crashes, outages,
\* dropped deliveries and lost retries.
Progress == (status \in Executable) ~> (status \notin Executable)

\* Nothing stays in the outbox for ever once it is due.
OutboxDrains == (due > 0) ~> (due = 0)

\* Neither the run nor what is in its outbox is left behind.
DeliveryGoesOn == Progress /\ OutboxDrains
================================================================================
