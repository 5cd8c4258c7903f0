-------------------------- MODULE ProcessCoordinator --------------------------
(***************************************************************************)
(* One case of a business process: the elected tick that moves it from     *)
(* stage to stage (process_runtime.py), the API requests that pause,       *)
(* resume, stop it or bring it an event (main.py), and the workflow runs   *)
(* its stages start, which live a life of their own.                       *)
(*                                                                         *)
(* Grain.  The tick locks the case (FOR UPDATE) and is one step.  A        *)
(* request reads the case without a lock and writes later; its UPDATE      *)
(* names the columns it changed, and "state" is one JSON column.           *)
(***************************************************************************)
EXTENDS Naturals, FiniteSets

CONSTANTS
  Clients,        \* API requests in flight at the same time
  Kinds,          \* the requests made: "pause", "resume", "stop", "event"
  NStages,        \* the stages of the definition are 1..NStages
  NextStage,      \* the declared transition of a stage, 0 after the last
  AwaitsEvent,    \* stages with a start_on_event
  Waits,          \* stages with a positive wait_seconds
  Retries,        \* is the failure policy "retry"?
  MaxAttempts,    \* attempts of a stage under that policy (3 in the code)
  Keys,           \* dedupe keys of the events that may be delivered
  EventOf,        \* EventOf[k]: the stage that waits for the type of event k
  MaxRecoveries,  \* bound: failed runs that are recovered
  NoRequest

Stages == 1..NStages

ASSUME StageAssumption ==
  /\ NStages \in Nat \ {0} /\ NextStage \in [Stages -> 0..NStages]
  /\ \A s \in Stages : NextStage[s] = 0 \/ NextStage[s] > s   \* ProcessDefinitionCreate
  /\ AwaitsEvent \subseteq Stages /\ Waits \subseteq Stages
  /\ EventOf \in [Keys -> AwaitsEvent]
ASSUME PolicyAssumption ==
  /\ Retries \in BOOLEAN /\ MaxAttempts \in Nat \ {0} /\ MaxRecoveries \in Nat
  /\ Kinds \subseteq {"pause", "resume", "stop", "event"}

Attempts == 1..MaxAttempts
Runs     == Stages \X Attempts        \* the unique request key of a stage's run
NoRun    == <<0, 0>>
Statuses == {"pending", "waiting", "waiting_event", "running", "paused", "attention",
             "completed", "stopped"}
Active   == {"pending", "waiting", "waiting_event", "running"}
Case     == [status : Statuses, stage : Stages, attempt : Attempts, run : Runs \cup {NoRun},
             later : BOOLEAN,
             state : [outputs : SUBSET Stages, from : Statuses \cup {"none"},
                      event : Keys \cup {"none"}]]
Request  == [kind : {"pause", "resume", "stop"}, row : Case]
            \cup [kind : {"event"}, row : Case, key : Keys]

VARIABLES
  case,        \* process_instances: one row; "later": next_wake_at is in the future
  run,         \* workflow_runs, by request key: "none" until the receipt exists
  seen,        \* process_events: the dedupe keys on record
  req,         \* requests that have read and not yet written
  recoveries,  \* counter of the bound
  released,    \* history: stages whose event was accepted
  paused       \* history: was the case ever paused?

past == <<recoveries, released, paused>>
vars == <<case, run, seen, req, past>>
-------------------------------------------------------------------------------
\* The UPDATE carries the columns that differ from the row that was loaded.
Save(loaded, new) ==
  case' = [status  |-> IF new.status = loaded.status THEN case.status ELSE new.status,
           stage   |-> IF new.stage = loaded.stage THEN case.stage ELSE new.stage,
           attempt |-> IF new.attempt = loaded.attempt THEN case.attempt ELSE new.attempt,
           run     |-> IF new.run = loaded.run THEN case.run ELSE new.run,
           later   |-> IF new.later = loaded.later THEN case.later ELSE new.later,
           state   |-> IF new.state = loaded.state THEN case.state ELSE new.state]

\* Mutant: an armed stage does not look at its event.
ArmAtOnce(i, s, satisfied) ==
  [i EXCEPT !.stage = s, !.attempt = 1, !.run = NoRun, !.later = s \in Waits,
            !.status = IF s \in Waits THEN "waiting" ELSE "pending"]

\* _arm_stage: the case waits for the stage's event, for its delay, or for the
\* next tick.
Arm(i, s, satisfied) ==
  LET awaits == s \in AwaitsEvent /\ ~satisfied IN
  [i EXCEPT !.stage = s, !.attempt = 1, !.run = NoRun,
            !.later = ~awaits /\ s \in Waits,
            !.status = IF awaits THEN "waiting_event"
                       ELSE IF s \in Waits THEN "waiting" ELSE "pending"]

\* advance_process_instance, on the row i of a session that loaded the row
\* loaded: at most one transition.

\* Mutant: a cancelled run is not taken for an ended one.
FailedOnly(r) == run[r] = "failed"

Failed(r) == run[r] \in {"failed", "cancelled"}

\* Nothing to do: not active, waiting, or its run is not finished.
StayPut(loaded, i) ==
  /\ \/ i.status \notin {"pending", "waiting", "running"}
     \/ i.status = "running" /\ i.run # NoRun /\ run[i.run] = "live"
     \/ i.status \in {"pending", "waiting"} /\ i.later
  /\ Save(loaded, i)
  /\ UNCHANGED run

\* The run of the stage is gone.
LoseRun(loaded, i) ==
  /\ i.status = "running" /\ i.run = NoRun
  /\ Save(loaded, [i EXCEPT !.status = "attention"])
  /\ UNCHANGED run

\* Mutant: the output of the finished stage is not carried forward.
PassStageEmpty(loaded, i) ==
  /\ i.status = "running" /\ i.run # NoRun /\ run[i.run] = "completed"
  /\ Save(loaded, IF NextStage[i.stage] = 0 THEN [i EXCEPT !.status = "completed", !.later = FALSE]
                  ELSE Arm(i, NextStage[i.stage], FALSE))
  /\ UNCHANGED run

\* The run completed: its output is kept and the next stage armed.
PassStage(loaded, i) ==
  /\ i.status = "running" /\ i.run # NoRun /\ run[i.run] = "completed"
  /\ LET kept == [i EXCEPT !.state.outputs = @ \cup {i.stage}] IN
     Save(loaded, IF NextStage[i.stage] = 0
                  THEN [kept EXCEPT !.status = "completed", !.later = FALSE]
                  ELSE Arm(kept, NextStage[i.stage], FALSE))
  /\ UNCHANGED run

\* The run failed or was cancelled: one more attempt of the same stage.
RetryStage(loaded, i) ==
  /\ i.status = "running" /\ i.run # NoRun /\ Failed(i.run)
  /\ Retries /\ i.attempt < MaxAttempts
  /\ Save(loaded, [i EXCEPT !.attempt = @ + 1, !.run = NoRun, !.status = "waiting",
                            !.later = TRUE])
  /\ UNCHANGED run

\* Mutant: the case ends with the stage that is given up.
GiveUpAsDone(loaded, i) ==
  /\ i.status = "running" /\ i.run # NoRun /\ Failed(i.run)
  /\ ~Retries \/ i.attempt = MaxAttempts
  /\ Save(loaded, [i EXCEPT !.status = "completed", !.later = FALSE])
  /\ UNCHANGED run

\* The attempts are used up: a person has to look.
GiveUpStage(loaded, i) ==
  /\ i.status = "running" /\ i.run # NoRun /\ Failed(i.run)
  /\ ~Retries \/ i.attempt = MaxAttempts
  /\ Save(loaded, [i EXCEPT !.status = "attention", !.later = FALSE])
  /\ UNCHANGED run

Due(i)   == i.status \in {"pending", "waiting"} /\ ~i.later
KeyOf(i) == <<i.stage, i.attempt>>
Started(i) == [i EXCEPT !.run = KeyOf(i), !.status = "running", !.later = FALSE]

\* _dispatch_stage: the receipt of this attempt exists, or its run is built
\* with it, or its workflow cannot be used.
JoinRun(loaded, i) ==
  /\ Due(i) /\ run[KeyOf(i)] # "none"
  /\ Save(loaded, Started(i))
  /\ UNCHANGED run
StartRun(loaded, i) ==
  /\ Due(i) /\ run[KeyOf(i)] = "none"
  /\ run' = [run EXCEPT ![KeyOf(i)] = "live"]
  /\ Save(loaded, Started(i))
MissWorkflow(loaded, i) ==
  /\ Due(i) /\ run[KeyOf(i)] = "none"
  /\ Save(loaded, [i EXCEPT !.status = "attention", !.later = FALSE])
  /\ UNCHANGED run

Advance(loaded, i) ==
  \/ StayPut(loaded, i) \/ LoseRun(loaded, i)
  \/ PassStage(loaded, i) \/ RetryStage(loaded, i) \/ GiveUpStage(loaded, i)
  \/ JoinRun(loaded, i) \/ StartRun(loaded, i) \/ MissWorkflow(loaded, i)
-------------------------------------------------------------------------------
\* dispatch_due_processes, under the row lock of the case
Tick ==
  /\ case.status \in {"running", "pending", "waiting"}
  /\ Advance(case, case)
  /\ UNCHANGED <<seen, req, past>>

Elapse == /\ case.later /\ case' = [case EXCEPT !.later = FALSE]
          /\ UNCHANGED <<run, seen, req, past>>

\* What a run does by itself: it ends in a terminal status, and a failed one
\* may be recovered by its worker or taken up again by a person.
EndRun(r) ==
  /\ run[r] = "live"
  /\ \E end \in {"completed", "failed", "cancelled"} : run' = [run EXCEPT ![r] = end]
  /\ UNCHANGED <<case, seen, req, past>>
RecoverRun(r) ==
  /\ run[r] = "failed" /\ recoveries < MaxRecoveries
  /\ run' = [run EXCEPT ![r] = "live"]
  /\ recoveries' = recoveries + 1
  /\ UNCHANGED <<case, seen, req, released, paused>>
-------------------------------------------------------------------------------
\* Requests: the case as they load it, then what they write

Load(c, request) == /\ req[c] = NoRequest /\ request.kind \in Kinds
                    /\ req' = [req EXCEPT ![c] = request]
                    /\ UNCHANGED <<case, run, seen, past>>
LoadPause(c)    == case.status \in Active /\ Load(c, [kind |-> "pause", row |-> case])
LoadResume(c)   == case.status = "paused" /\ Load(c, [kind |-> "resume", row |-> case])
LoadStop(c)     == /\ case.status \notin {"completed", "stopped"}
                   /\ Load(c, [kind |-> "stop", row |-> case])
LoadEvent(c, k) == Load(c, [kind |-> "event", row |-> case, key |-> k])

Asked(c, k) == req[c] # NoRequest /\ req[c].kind = k
Done(c) == req' = [req EXCEPT ![c] = NoRequest]

Pause(c) ==
  /\ Asked(c, "pause")
  /\ LET row == req[c].row IN
     Save(row, [row EXCEPT !.status = "paused", !.later = FALSE, !.state.from = row.status])
  /\ Done(c)
  /\ paused' = TRUE /\ UNCHANGED <<run, seen, recoveries, released>>

\* What the case was doing is taken up again; a running one without a run, and
\* a waiting one, are due at once.
Resumed(row) ==
  [row EXCEPT !.state.from = "none", !.later = FALSE,
              !.status = IF row.state.from = "waiting_event"
                            \/ (row.state.from = "running" /\ row.run # NoRun)
                         THEN row.state.from ELSE "pending"]
Resume(c) ==
  /\ Asked(c, "resume")
  /\ Advance(req[c].row, Resumed(req[c].row))
  /\ Done(c)
  /\ UNCHANGED <<seen, past>>

Stop(c) ==
  /\ Asked(c, "stop")
  /\ Save(req[c].row, [req[c].row EXCEPT !.status = "stopped", !.later = FALSE])
  /\ Done(c)
  /\ UNCHANGED <<run, seen, past>>

\* Mutant: an event releases a case that no longer waits for it.
MatchesLate(r) == EventOf[r.key] = r.row.stage

Matched(r) == r.row.status = "waiting_event" /\ EventOf[r.key] = r.row.stage

\* What the event brings is part of the state, and the stage is armed.
Released(r) == Arm([r.row EXCEPT !.state.event = r.key], r.row.stage, TRUE)

\* The event the case waits for arms its stage, in one transaction with the
\* first advance.
AcceptEvent(c) ==
  /\ Asked(c, "event") /\ req[c].key \notin seen /\ Matched(req[c])
  /\ seen' = seen \cup {req[c].key}
  /\ released' = released \cup {EventOf[req[c].key]}
  /\ Advance(req[c].row, Released(req[c]))
  /\ Done(c)
  /\ UNCHANGED <<recoveries, paused>>

\* Any other event is on record and ignored; a key on record does nothing.
IgnoreEvent(c) ==
  /\ Asked(c, "event") /\ (req[c].key \in seen \/ ~Matched(req[c]))
  /\ seen' = seen \cup {req[c].key}
  /\ Done(c)
  /\ UNCHANGED <<case, run, past>>

\* The request dies, or its receipt, its run or its event collides with one
\* that another transaction has inserted in the meantime.
Abort(c) == /\ req[c] # NoRequest /\ Done(c)
            /\ UNCHANGED <<case, run, seen, past>>
-------------------------------------------------------------------------------
Blank == [status |-> "pending", stage |-> 1, attempt |-> 1, run |-> NoRun, later |-> FALSE,
          state |-> [outputs |-> {}, from |-> "none", event |-> "none"]]

\* start_process_instance arms the first stage, and the first advance follows
\* in the same transaction.
Init ==
  LET armed == Arm(Blank, 1, FALSE) IN
  /\ case = IF Due(armed) THEN Started(armed) ELSE armed
  /\ run = [r \in Runs |-> IF r = <<1, 1>> /\ Due(armed) THEN "live" ELSE "none"]
  /\ seen = {} /\ req = [c \in Clients |-> NoRequest]
  /\ recoveries = 0 /\ released = {} /\ paused = FALSE

Ask(c) == LoadPause(c) \/ LoadResume(c) \/ LoadStop(c) \/ (\E k \in Keys : LoadEvent(c, k))
Answer(c) == \/ Pause(c) \/ Resume(c) \/ Stop(c) \/ AcceptEvent(c) \/ IgnoreEvent(c)
             \/ Abort(c)

Next == \/ Tick \/ Elapse
        \/ \E r \in Runs : EndRun(r) \/ RecoverRun(r)
        \/ \E c \in Clients : Ask(c) \/ Answer(c)

Spec == Init /\ [][Next]_vars

\* The scheduler ticks for ever, the clock runs, and every run ends: by itself
\* or because the person it waits for decides.
FairSpec == /\ Spec /\ WF_vars(Tick) /\ WF_vars(Elapse)
            /\ \A r \in Runs : WF_vars(EndRun(r))
-------------------------------------------------------------------------------
\* Properties

TypeOK ==
  /\ case \in Case
  /\ run \in [Runs -> {"none", "live", "completed", "failed", "cancelled"}]
  /\ seen \subseteq Keys /\ req \in [Clients -> Request \cup {NoRequest}]
  /\ recoveries \in 0..MaxRecoveries /\ released \subseteq AwaitsEvent

RanThrough(s) == \E a \in Attempts : run[<<s, a>>] = "completed"
Predecessors(s) == {p \in Stages : NextStage[p] = s}
Starts(s) == \E a \in Attempts : run[<<s, a>>] = "none" /\ run'[<<s, a>>] # "none"

\* The case keeps to the declared graph, in whatever order its requests, its ticks
\* and its runs come: the attempts stay within their limit, a stage starts only
\* when the workflow of a stage that leads to it has completed, and a completed
\* case ran through its last one (process_runtime.py:441-535).
StagesInOrder ==
  /\ TypeOK
  /\ \A s \in Stages \ {1} : (\E a \in Attempts : run[<<s, a>>] # "none") =>
       \E p \in Predecessors(s) : RanThrough(p)
  /\ case.status = "completed" => \E s \in Predecessors(0) : RanThrough(s)

\* A stage that awaits an event starts only after that event was accepted, early
\* and repeated deliveries notwithstanding.  It is only claimed of a case that was
\* never paused: a pause that loaded an older row saves a status to resume that the
\* case has left (main.py:5695-5702).
EventBeforeStage ==
  ~paused => \A s \in AwaitsEvent : (\E a \in Attempts : run[<<s, a>>] # "none") => s \in released

\* The stage that starts is given the output of the stage before it, unless a
\* pause has written the JSON state it loaded over what a tick recorded since.
OutputHandedOver ==
  [][~paused => \A s \in Stages \ {1} :
       Starts(s) => case.state.outputs \cap Predecessors(s) # {}]_vars

\* A stopped case stays stopped, and none of its stages starts any more.
StopIsFinal ==
  [][case.status = "stopped" => case'.status = "stopped" /\ \A s \in Stages : ~Starts(s)]_vars

\* A case that waits for no event and no person gets somewhere: its stage ends,
\* and in the end the case completes, awaits an event or needs a person.
CaseMovesOn ==
  (case.status \in {"pending", "waiting", "running"}) ~>
    (case.status \notin {"pending", "waiting", "running"})
================================================================================
