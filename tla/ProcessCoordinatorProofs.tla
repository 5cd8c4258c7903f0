----------------------- MODULE ProcessCoordinatorProofs -----------------------
(***************************************************************************)
(* A case keeps to its declared graph, starts no stage before its event or *)
(* without the output of the stage before it, and does not start again     *)
(* once it is stopped: for every graph of stages, every number of          *)
(* attempts, events and recoveries, as long as one request at a time is    *)
(* made on the case.                                                       *)
(*                                                                         *)
(* The argument.  A request writes what it read earlier.  A pause and a    *)
(* stop do not touch the stage, so that the graph stands however old their *)
(* row is; a resume and an accepted event advance the case from the row    *)
(* they read, and that row is still the case, because the tick leaves a    *)
(* paused case and one that awaits an event alone.                         *)
(***************************************************************************)
EXTENDS ProcessCoordinator, TLAPS

\* The requests of one case come one after the other.
OneClient == \A c, d \in Clients : c = d

Begun(s) == \E a \in Attempts : run[<<s, a>>] # "none"
Reached(s) == s = 1 \/ \E p \in Predecessors(s) : RanThrough(p)

\* The row has the stage that a completed run led to, and no run but that of
\* its stage and attempt.
Way ==
  /\ case.run \in {NoRun, <<case.stage, case.attempt>>}
  /\ Reached(case.stage)
  /\ \A s \in Stages : Begun(s) => Reached(s)
  /\ case.status = "completed" => \E s \in Predecessors(0) : RanThrough(s)

\* As long as nobody has paused the case, a stage past its wait has its event,
\* and the state holds the output that leads to the stage.
Unpaused ==
  ~paused =>
    /\ case.status # "paused"
    /\ case.status \in {"pending", "waiting", "running"} /\ case.stage \in AwaitsEvent =>
         case.stage \in released
    /\ \A s \in AwaitsEvent : Begun(s) => s \in released
    /\ case.stage # 1 => case.state.outputs \cap Predecessors(case.stage) # {}

\* The row is what the request has read, but for the clock.
Current(row) ==
  /\ case.status = row.status /\ case.stage = row.stage /\ case.attempt = row.attempt
  /\ case.run = row.run /\ case.state = row.state

\* What a request in flight may rely on.
InFlight(c) ==
  /\ req[c].kind = "pause" => req[c].row.status \in Active
  /\ req[c].kind = "stop" => req[c].row.status \notin {"completed", "stopped"}
  /\ req[c].kind = "resume" => req[c].row.status = "paused" /\ paused
  /\ req[c].kind = "resume" => Current(req[c].row)
  /\ req[c].kind = "event" /\ req[c].row.status = "waiting_event" => Current(req[c].row)
  /\ case.status = "stopped" => req[c].kind = "event" /\ req[c].row.status # "waiting_event"

Requests == \A c \in Clients : req[c] # NoRequest => InFlight(c)

Inv == TypeOK /\ paused \in BOOLEAN /\ Way /\ Unpaused /\ Requests
-------------------------------------------------------------------------------
\* What an UPDATE leaves

\* Of a row that is up to date, the case takes all but, perhaps, the clock.
LEMMA Saved ==
  ASSUME case \in Case, NEW row \in Case, NEW new \in Case, Current(row), Save(row, new)
  PROVE  /\ case' \in Case
         /\ case'.status = new.status /\ case'.stage = new.stage
         /\ case'.attempt = new.attempt /\ case'.run = new.run /\ case'.state = new.state
<1>1. /\ case'.status = new.status /\ case'.stage = new.stage
      /\ case'.attempt = new.attempt /\ case'.run = new.run /\ case'.state = new.state
  BY DEF Save, Current
<1>2. case'.later \in BOOLEAN
  BY DEF Save, Case
<1>3. case' = [status |-> case'.status, stage |-> case'.stage, attempt |-> case'.attempt,
               run |-> case'.run, later |-> case'.later, state |-> case'.state]
  BY DEF Save
<1>. QED
  BY <1>1, <1>2, <1>3 DEF Case

\* The columns that are not changed keep what the case has.
LEMMA SavedStatus ==
  ASSUME case \in Case, NEW row \in Case, NEW new \in Case, Save(row, new),
         new.stage = row.stage, new.attempt = row.attempt, new.run = row.run
  PROVE  /\ case' \in Case
         /\ case'.stage = case.stage /\ case'.attempt = case.attempt /\ case'.run = case.run
         /\ new.status # row.status => case'.status = new.status
         /\ new.state = row.state => case'.state = case.state
<1>1. /\ case'.stage = case.stage /\ case'.attempt = case.attempt /\ case'.run = case.run
      /\ case'.status \in {case.status, new.status} /\ case'.later \in {case.later, new.later}
      /\ case'.state \in {case.state, new.state}
      /\ new.status # row.status => case'.status = new.status
      /\ new.state = row.state => case'.state = case.state
  BY DEF Save
<1>2. case' = [status |-> case'.status, stage |-> case'.stage, attempt |-> case'.attempt,
               run |-> case'.run, later |-> case'.later, state |-> case'.state]
  BY DEF Save
<1>. QED
  BY <1>1, <1>2 DEF Case

LEMMA Bounds ==
  /\ NStages \in Nat /\ 1 \in Stages /\ 1 \in Attempts /\ MaxAttempts \in Nat
  /\ NextStage \in [Stages -> 0..NStages]
  /\ \A s \in Stages : NextStage[s] # 0 => NextStage[s] \in Stages
  /\ Stages \subseteq Nat /\ AwaitsEvent \subseteq Stages
BY StageAssumption, PolicyAssumption DEF StageAssumption, PolicyAssumption, Stages, Attempts

LEMMA ArmedStage ==
  ASSUME NEW i \in Case, NEW s \in Stages, NEW satisfied \in BOOLEAN
  PROVE  /\ Arm(i, s, satisfied) \in Case
         /\ Arm(i, s, satisfied).stage = s /\ Arm(i, s, satisfied).run = NoRun
         /\ Arm(i, s, satisfied).state = i.state
         /\ Arm(i, s, satisfied).status \in {"waiting_event", "waiting", "pending"}
         /\ s \in AwaitsEvent /\ ~satisfied => Arm(i, s, satisfied).status = "waiting_event"
BY Bounds DEF Arm, Case, Statuses

\* The row of a stage that is being worked on.
Sound(i) == i \in Case /\ i.run \in {NoRun, KeyOf(i)}

\* An advance stays in the stage of the row i, or passes to the one declared.
StaysIn(i) ==
  /\ case'.stage = i.stage /\ case'.state = i.state
  /\ \/ case'.status = i.status \/ case'.status = "attention"
     \/ case'.status \in {"running", "waiting"} /\ i.status \in {"running", "pending", "waiting"}
PassesFrom(i) ==
  /\ i.status = "running" /\ run[KeyOf(i)] = "completed"
  /\ case'.state.outputs = i.state.outputs \cup {i.stage}
  /\ IF NextStage[i.stage] = 0
       THEN case'.stage = i.stage /\ case'.status = "completed"
       ELSE /\ case'.stage = NextStage[i.stage]
            /\ case'.status \in {"waiting_event", "waiting", "pending"}
            /\ case'.stage \in AwaitsEvent => case'.status = "waiting_event"

\* Runs that have completed stay, and none but that of the row i is begun.
RunsKept(i) ==
  /\ run' \in [Runs -> {"none", "live", "completed", "failed", "cancelled"}]
  /\ \A r \in Runs : run[r] = "completed" => run'[r] = "completed"
  /\ \A r \in Runs : run[r] = "none" /\ run'[r] # "none" =>
       r = KeyOf(i) /\ i.status \in {"pending", "waiting"}

Moved(i) ==
  /\ case' \in Case /\ case'.run \in {NoRun, <<case'.stage, case'.attempt>>}
  /\ StaysIn(i) \/ PassesFrom(i)
  /\ RunsKept(i)

\* The next row of a step that stays in its stage.
LEMMA StayMoves ==
  ASSUME TypeOK, NEW row \in Case, NEW i, Sound(i), Current(row), NEW new \in Case,
         Save(row, new), new.stage = i.stage, new.state = i.state,
         new.run \in {NoRun, <<new.stage, new.attempt>>},
         \/ new.status = i.status \/ new.status = "attention"
         \/ new.status \in {"running", "waiting"} /\ i.status \in {"running", "pending", "waiting"},
         RunsKept(i)
  PROVE  Moved(i)
<1>1. /\ case' \in Case
      /\ case'.status = new.status /\ case'.stage = new.stage
      /\ case'.attempt = new.attempt /\ case'.run = new.run /\ case'.state = new.state
  BY Saved DEF TypeOK
<1>2. StaysIn(i)
  BY <1>1 DEF StaysIn
<1>. QED
  BY <1>1, <1>2 DEF Moved

LEMMA RunsSame ==
  ASSUME TypeOK, NEW i, UNCHANGED run
  PROVE  RunsKept(i)
BY DEF RunsKept, TypeOK

\* advance_process_instance moves a sound row as declared.
LEMMA AdvanceMoves ==
  ASSUME TypeOK, NEW row \in Case, NEW i, Sound(i), Current(row), Advance(row, i)
  PROVE  Moved(i)
<1>0. /\ i \in Case /\ i.stage \in Stages /\ i.attempt \in Attempts
      /\ i.run \in {NoRun, KeyOf(i)} /\ KeyOf(i) \in Runs
  BY DEF Sound, Case, KeyOf, Runs
<1>1. CASE StayPut(row, i)
  <2>1. Save(row, i) /\ RunsKept(i)
    BY <1>1, RunsSame DEF StayPut
  <2>. QED
    BY <1>0, <2>1, StayMoves DEF KeyOf
<1>2. CASE LoseRun(row, i)
  <2>. DEFINE new == [i EXCEPT !.status = "attention"]
  <2>1. Save(row, new) /\ RunsKept(i)
    BY <1>2, RunsSame DEF LoseRun
  <2>2. /\ new \in Case /\ new.stage = i.stage /\ new.state = i.state /\ new.run = i.run
        /\ new.attempt = i.attempt /\ new.status = "attention"
    BY <1>0 DEF Case, Statuses
  <2>. HIDE DEF new
  <2>. QED
    BY <1>0, <2>1, <2>2, StayMoves DEF KeyOf
<1>3. CASE PassStage(row, i)
  <2>. DEFINE kept == [i EXCEPT !.state.outputs = @ \cup {i.stage}]
              new == IF NextStage[i.stage] = 0
                       THEN [kept EXCEPT !.status = "completed", !.later = FALSE]
                       ELSE Arm(kept, NextStage[i.stage], FALSE)
  <2>1. Save(row, new) /\ RunsKept(i) /\ i.status = "running" /\ run[KeyOf(i)] = "completed"
    BY <1>0, <1>3, RunsSame DEF PassStage
  <2>2. /\ kept \in Case /\ kept.stage = i.stage /\ kept.run = i.run
        /\ kept.attempt = i.attempt /\ kept.state.outputs = i.state.outputs \cup {i.stage}
    BY <1>0 DEF Case
  <2>. HIDE DEF kept
  <2>3. CASE NextStage[i.stage] = 0
    <3>1. /\ new \in Case /\ new.stage = i.stage /\ new.run = i.run /\ new.attempt = i.attempt
          /\ new.state = kept.state /\ new.status = "completed"
      BY <2>2, <2>3 DEF Case, Statuses
    <3>. HIDE DEF new
    <3>2. /\ case' \in Case
          /\ case'.status = new.status /\ case'.stage = new.stage
          /\ case'.attempt = new.attempt /\ case'.run = new.run /\ case'.state = new.state
      BY <2>1, <3>1, Saved DEF TypeOK
    <3>3. PassesFrom(i)
      BY <2>1, <2>2, <2>3, <3>1, <3>2 DEF PassesFrom
    <3>. QED
      BY <1>0, <2>1, <3>1, <3>2, <3>3 DEF Moved, KeyOf
  <2>4. CASE NextStage[i.stage] # 0
    <3>. DEFINE s == NextStage[i.stage]
    <3>1. s \in Stages
      BY <1>0, <2>4, Bounds
    <3>2. new = Arm(kept, s, FALSE)
      BY <2>4
    <3>. HIDE DEF new
    <3>3. /\ new \in Case /\ new.stage = s /\ new.run = NoRun /\ new.state = kept.state
          /\ new.status \in {"waiting_event", "waiting", "pending"}
          /\ s \in AwaitsEvent => new.status = "waiting_event"
      BY <2>2, <3>1, <3>2, ArmedStage
    <3>4. /\ case' \in Case
          /\ case'.status = new.status /\ case'.stage = new.stage
          /\ case'.attempt = new.attempt /\ case'.run = new.run /\ case'.state = new.state
      BY <2>1, <3>3, Saved DEF TypeOK
    <3>5. PassesFrom(i)
      BY <2>1, <2>2, <2>4, <3>3, <3>4 DEF PassesFrom
    <3>. QED
      BY <2>1, <3>3, <3>4, <3>5 DEF Moved
  <2>. QED
    BY <2>3, <2>4
<1>4. CASE RetryStage(row, i)
  <2>. DEFINE new == [i EXCEPT !.attempt = @ + 1, !.run = NoRun, !.status = "waiting",
                               !.later = TRUE]
  <2>1. Save(row, new) /\ RunsKept(i) /\ i.status = "running" /\ i.attempt < MaxAttempts
    BY <1>4, RunsSame DEF RetryStage
  <2>2. i.attempt + 1 \in Attempts
    BY <1>0, <2>1, Bounds DEF Attempts
  <2>3. /\ new \in Case /\ new.stage = i.stage /\ new.state = i.state /\ new.run = NoRun
        /\ new.status = "waiting"
    BY <1>0, <2>2 DEF Case, Statuses
  <2>. HIDE DEF new
  <2>. QED
    BY <2>1, <2>3, StayMoves
<1>5. CASE GiveUpStage(row, i) \/ MissWorkflow(row, i)
  <2>. DEFINE new == [i EXCEPT !.status = "attention", !.later = FALSE]
  <2>1. Save(row, new) /\ RunsKept(i)
    BY <1>5, RunsSame DEF GiveUpStage, MissWorkflow
  <2>2. /\ new \in Case /\ new.stage = i.stage /\ new.state = i.state /\ new.run = i.run
        /\ new.attempt = i.attempt /\ new.status = "attention"
    BY <1>0 DEF Case, Statuses
  <2>. HIDE DEF new
  <2>. QED
    BY <1>0, <2>1, <2>2, StayMoves DEF KeyOf
<1>6. CASE JoinRun(row, i) \/ StartRun(row, i)
  <2>1. Save(row, Started(i)) /\ i.status \in {"pending", "waiting"}
    BY <1>6 DEF JoinRun, StartRun, Due
  <2>2. RunsKept(i)
    <3>1. CASE JoinRun(row, i)
      BY <3>1, RunsSame DEF JoinRun
    <3>2. CASE StartRun(row, i)
      BY <1>0, <2>1, <3>2 DEF StartRun, RunsKept, TypeOK
    <3>. QED
      BY <1>6, <3>1, <3>2
  <2>3. /\ Started(i) \in Case /\ Started(i).stage = i.stage /\ Started(i).state = i.state
        /\ Started(i).run = KeyOf(i) /\ Started(i).attempt = i.attempt
        /\ Started(i).status = "running"
    BY <1>0 DEF Started, Case, Statuses
  <2>. QED
    BY <2>1, <2>2, <2>3, StayMoves DEF KeyOf
<1>. QED
  BY <1>1, <1>2, <1>3, <1>4, <1>5, <1>6 DEF Advance
-------------------------------------------------------------------------------
\* What an advance keeps

LEMMA ReachedStays ==
  ASSUME \A r \in Runs : run[r] = "completed" => run'[r] = "completed"
  PROVE  /\ \A s \in Stages : RanThrough(s) => RanThrough(s)'
         /\ \A s \in Stages : Reached(s) => Reached(s)'
         /\ (\E s \in Predecessors(0) : RanThrough(s)) =>
              (\E s \in Predecessors(0) : RanThrough(s)')
<1>1. \A s \in Stages : RanThrough(s) => RanThrough(s)'
  BY DEF RanThrough, Runs
<1>. QED
  BY <1>1 DEF Reached, Predecessors

\* The case keeps to the graph when the row i that is advanced does.
LEMMA MoveKeepsWay ==
  ASSUME Way, NEW i, Sound(i), i.stage = case.stage, Moved(i),
         i.status = "completed" => \E s \in Predecessors(0) : RanThrough(s)
  PROVE  Way'
<1>1. /\ \A s \in Stages : RanThrough(s) => RanThrough(s)'
      /\ \A s \in Stages : Reached(s) => Reached(s)'
      /\ (\E s \in Predecessors(0) : RanThrough(s)) =>
           (\E s \in Predecessors(0) : RanThrough(s)')
  BY ReachedStays DEF Moved, RunsKept
<1>2. i.stage \in Stages /\ i.attempt \in Attempts /\ Reached(i.stage)
  BY DEF Sound, Case, Way
<1>3. PassesFrom(i) => RanThrough(i.stage)'
  BY <1>1, <1>2 DEF PassesFrom, RanThrough, KeyOf
<1>4. Reached(case.stage)'
  <2>1. CASE StaysIn(i)
    BY <1>1, <1>2, <2>1 DEF StaysIn, Reached, Predecessors
  <2>2. CASE PassesFrom(i)
    BY <1>1, <1>2, <1>3, <2>2 DEF PassesFrom, Reached, Predecessors
  <2>. QED
    BY <2>1, <2>2 DEF Moved
<1>5. \A s \in Stages : Begun(s)' => Reached(s)'
  <2>. SUFFICES ASSUME NEW s \in Stages, Begun(s)' PROVE Reached(s)'
    OBVIOUS
  <2>1. PICK a \in Attempts : run'[<<s, a>>] # "none"
    BY DEF Begun
  <2>2. CASE run[<<s, a>>] = "none"
    <3>1. <<s, a>> \in Runs /\ <<s, a>> = <<i.stage, i.attempt>>
      BY <2>1, <2>2 DEF Moved, RunsKept, Runs, KeyOf
    <3>2. s = i.stage
      BY <3>1
    <3>. QED
      BY <1>1, <1>2, <3>2
  <2>3. CASE run[<<s, a>>] # "none"
    BY <1>1, <2>3 DEF Way, Begun
  <2>. QED
    BY <2>2, <2>3
<1>6. case'.status = "completed" => \E s \in Predecessors(0) : RanThrough(s)'
  <2>1. CASE StaysIn(i)
    BY <1>1, <2>1 DEF StaysIn
  <2>2. CASE PassesFrom(i)
    BY <1>2, <1>3, <2>2 DEF PassesFrom, Predecessors
  <2>. QED
    BY <2>1, <2>2 DEF Moved
<1>. QED
  BY <1>4, <1>5, <1>6 DEF Moved, Way

\* ... and to its events and outputs.
LEMMA MoveKeepsUnpaused ==
  ASSUME Unpaused, NEW i, Sound(i), i.stage = case.stage, Moved(i), paused' = paused,
         released \subseteq released', released' \subseteq AwaitsEvent,
         i.state.outputs = case.state.outputs,
         ~paused => i.status # "paused",
         ~paused /\ i.status \in {"pending", "waiting", "running"} /\ i.stage \in AwaitsEvent =>
           i.stage \in released'
  PROVE  Unpaused'
<1>. SUFFICES ASSUME ~paused
              PROVE  /\ case'.status # "paused"
                     /\ case'.status \in {"pending", "waiting", "running"}
                          /\ case'.stage \in AwaitsEvent => case'.stage \in released'
                     /\ \A s \in AwaitsEvent : Begun(s)' => s \in released'
                     /\ case'.stage # 1 =>
                          case'.state.outputs \cap Predecessors(case'.stage) # {}
  BY DEF Unpaused
<1>1. i.stage \in Stages /\ i.attempt \in Attempts
  BY DEF Sound, Case
<1>2. /\ case'.status # "paused"
      /\ case'.status \in {"pending", "waiting", "running"} /\ case'.stage \in AwaitsEvent =>
           case'.stage \in released'
  BY DEF Moved, StaysIn, PassesFrom
<1>3. \A s \in AwaitsEvent : Begun(s)' => s \in released'
  <2>. SUFFICES ASSUME NEW s \in AwaitsEvent, Begun(s)' PROVE s \in released'
    OBVIOUS
  <2>1. PICK a \in Attempts : run'[<<s, a>>] # "none"
    BY DEF Begun
  <2>2. CASE run[<<s, a>>] = "none"
    <3>1. /\ <<s, a>> \in Runs /\ <<s, a>> = <<i.stage, i.attempt>>
          /\ i.status \in {"pending", "waiting"}
      BY <2>1, <2>2, Bounds DEF Moved, RunsKept, Runs, KeyOf
    <3>2. s = i.stage
      BY <3>1
    <3>. QED
      BY <3>1, <3>2
  <2>3. CASE run[<<s, a>>] # "none"
    BY <2>3 DEF Unpaused, Begun
  <2>. QED
    BY <2>2, <2>3
<1>4. case'.stage # 1 => case'.state.outputs \cap Predecessors(case'.stage) # {}
  <2>1. CASE StaysIn(i)
    BY <2>1 DEF StaysIn, Unpaused
  <2>2. CASE PassesFrom(i)
    <3>1. CASE NextStage[i.stage] = 0
      BY <2>2, <3>1 DEF PassesFrom, Unpaused
    <3>2. CASE NextStage[i.stage] # 0
      BY <1>1, <2>2, <3>2 DEF PassesFrom, Predecessors
    <3>. QED
      BY <3>1, <3>2
  <2>. QED
    BY <2>1, <2>2 DEF Moved
<1>. QED
  BY <1>2, <1>3, <1>4

\* A stage that starts is that of the case, and has its input.
Handed == ~paused => \A s \in Stages \ {1} :
            Starts(s) => case.state.outputs \cap Predecessors(s) # {}
Final  == case.status = "stopped" => case'.status = "stopped" /\ \A s \in Stages : ~Starts(s)

LEMMA StartsTheStage ==
  ASSUME NEW i, RunsKept(i), NEW s \in Stages, Starts(s)
  PROVE  s = i.stage
<1>1. PICK a \in Attempts : run[<<s, a>>] = "none" /\ run'[<<s, a>>] # "none"
  BY DEF Starts
<1>2. <<s, a>> = <<i.stage, i.attempt>>
  BY <1>1 DEF RunsKept, Runs, KeyOf
<1>. QED
  BY <1>2

LEMMA MoveHands ==
  ASSUME Unpaused, NEW i, i.stage = case.stage, Moved(i)
  PROVE  Handed
BY StartsTheStage DEF Handed, Unpaused, Moved

\* A step that starts no run and leaves the runs that completed.
LEMMA NothingStarts ==
  ASSUME \A r \in Runs : run[r] = "none" => run'[r] = "none",
         case.status = "stopped" => case'.status = "stopped"
  PROVE  Handed /\ Final
BY DEF Handed, Final, Starts, Runs
-------------------------------------------------------------------------------
\* Requests

LEMMA RequestTypes ==
  ASSUME TypeOK, NEW c \in Clients, req[c] # NoRequest
  PROVE  /\ req[c].kind \in {"pause", "resume", "stop", "event"} /\ req[c].row \in Case
         /\ req[c].kind = "event" => req[c].key \in Keys
BY DEF TypeOK, Request

\* A request that is answered is forgotten.
LEMMA Forgotten ==
  ASSUME OneClient, TypeOK, NEW c \in Clients, Done(c)
  PROVE  Requests' /\ req' \in [Clients -> Request \cup {NoRequest}]
BY DEF OneClient, TypeOK, Done, Requests

\* A tick, which works on no case that a resume or an event relies on.
LEMMA TickKeepsRequests ==
  ASSUME Requests, case.status \in {"running", "pending", "waiting"},
         UNCHANGED <<req, paused>>, case'.status # "stopped"
  PROVE  Requests'
BY DEF Requests, InFlight, Current

\* A step that leaves the stage of the case and begins no run.
LEMMA StageKept ==
  ASSUME TypeOK, Way, Unpaused,
         case'.stage = case.stage, case'.attempt = case.attempt, case'.run = case.run,
         case'.status = "completed" => case.status = "completed",
         case.status = "stopped" => case'.status = "stopped",
         ~paused' => /\ ~paused /\ case'.state = case.state /\ case'.status # "paused"
                     /\ case'.status \in {case.status, "stopped"},
         released' = released,
         \A r \in Runs : run[r] = "completed" => run'[r] = "completed",
         \A r \in Runs : run[r] = "none" => run'[r] = "none"
  PROVE  Way' /\ Unpaused' /\ Handed /\ Final
<1>1. /\ \A s \in Stages : Reached(s) => Reached(s)'
      /\ (\E s \in Predecessors(0) : RanThrough(s)) =>
           (\E s \in Predecessors(0) : RanThrough(s)')
  BY ReachedStays
<1>2. \A s \in Stages : Begun(s)' => Begun(s)
  BY DEF Begun, Runs
<1>3. case.stage \in Stages
  BY DEF TypeOK, Case
<1>4. Way'
  <2>1. Reached(case.stage)'
    BY <1>1, <1>3 DEF Way, Reached, Predecessors, RanThrough
  <2>. QED
    BY <1>1, <1>2, <2>1 DEF Way
<1>5. Unpaused'
  BY <1>2, Bounds DEF Unpaused, Predecessors
<1>. QED
  BY <1>4, <1>5, NothingStarts

\* The requests wait on while the clock runs, runs go on and requests die.
LEMMA RequestsWait ==
  ASSUME Requests, paused' = paused,
         case'.status = case.status, case'.stage = case.stage,
         case'.attempt = case.attempt, case'.run = case.run, case'.state = case.state,
         \A c \in Clients : req'[c] \in {req[c], NoRequest}
  PROVE  Requests'
BY DEF Requests, InFlight, Current

Good == Inv' /\ Handed /\ Final
-------------------------------------------------------------------------------
\* The case and its runs

LEMMA TickKeeps == ASSUME Inv, Tick PROVE Good
<1>. PICK i : i = case
  OBVIOUS
<1>1. /\ i \in Case /\ Sound(i) /\ Current(i) /\ i.stage = case.stage /\ i.status = case.status
      /\ i.state = case.state
  BY DEF Inv, TypeOK, Way, Sound, KeyOf, Current
<1>2. Advance(i, i) /\ UNCHANGED <<seen, req, past>>
  BY DEF Tick
<1>3. case.status \in {"running", "pending", "waiting"}
  BY DEF Tick
<1>4. Moved(i)
  BY <1>1, <1>2, AdvanceMoves DEF Inv
<1>5. Way'
  BY <1>1, <1>3, <1>4, MoveKeepsWay DEF Inv
<1>6. Unpaused'
  BY <1>1, <1>2, <1>4, MoveKeepsUnpaused DEF Inv, TypeOK, past, Unpaused
<1>7. case'.status # "stopped"
  BY <1>1, <1>3, <1>4 DEF Moved, StaysIn, PassesFrom
<1>8. Requests'
  BY <1>2, <1>3, <1>7, TickKeepsRequests DEF Inv, past
<1>9. TypeOK' /\ paused' \in BOOLEAN
  BY <1>2, <1>4 DEF Inv, TypeOK, past, Moved, RunsKept
<1>10. Handed /\ Final
  BY <1>1, <1>3, <1>4, MoveHands DEF Inv, Final
<1>. QED
  BY <1>5, <1>6, <1>8, <1>9, <1>10 DEF Good, Inv

\* A step of the clock or of a run.
LEMMA OutsideKeeps ==
  ASSUME Inv, UNCHANGED <<seen, req, released, paused>>, recoveries' \in 0..MaxRecoveries,
         case' \in Case, case'.status = case.status, case'.stage = case.stage,
         case'.attempt = case.attempt, case'.run = case.run, case'.state = case.state,
         run' \in [Runs -> {"none", "live", "completed", "failed", "cancelled"}],
         \A r \in Runs : run[r] \in {"none", "completed"} => run'[r] = run[r]
  PROVE  Good
<1>1. Way' /\ Unpaused' /\ Handed /\ Final
  <2>1. ~paused => case.status # "paused"
    BY DEF Inv, Unpaused
  <2>. QED
    BY <2>1, StageKept DEF Inv
<1>2. Requests'
  BY RequestsWait DEF Inv
<1>3. TypeOK' /\ paused' \in BOOLEAN
  BY DEF Inv, TypeOK
<1>. QED
  BY <1>1, <1>2, <1>3 DEF Good, Inv

LEMMA ElapseKeeps == ASSUME Inv, Elapse PROVE Good
<1>1. /\ case' \in Case /\ case'.status = case.status /\ case'.stage = case.stage
      /\ case'.attempt = case.attempt /\ case'.run = case.run /\ case'.state = case.state
  BY DEF Inv, TypeOK, Elapse, Case
<1>. QED
  BY <1>1, OutsideKeeps DEF Elapse, Inv, TypeOK, past

LEMMA RunKeeps ==
  ASSUME Inv, NEW r \in Runs, EndRun(r) \/ RecoverRun(r)
  PROVE  Good
<1>1. /\ run' \in [Runs -> {"none", "live", "completed", "failed", "cancelled"}]
      /\ \A q \in Runs : run[q] \in {"none", "completed"} => run'[q] = run[q]
  BY DEF Inv, TypeOK, EndRun, RecoverRun
<1>2. recoveries' \in 0..MaxRecoveries
  BY PolicyAssumption DEF Inv, TypeOK, EndRun, RecoverRun, past, PolicyAssumption
<1>. QED
  BY <1>1, <1>2, OutsideKeeps DEF Inv, TypeOK, EndRun, RecoverRun, past
-------------------------------------------------------------------------------
\* Requests that read

LEMMA LoadKeeps ==
  ASSUME Inv, NEW c \in Clients, NEW request \in Request, Load(c, request),
         request.row = case,
         request.kind = "pause" => case.status \in Active,
         request.kind = "stop" => case.status \notin {"completed", "stopped"},
         request.kind = "resume" => case.status = "paused"
  PROVE  Good
<1>1. req' = [req EXCEPT ![c] = request] /\ UNCHANGED <<case, run, seen, past>>
  BY DEF Load
<1>2. Way' /\ Unpaused' /\ Handed /\ Final
  <2>1. ~paused => case.status # "paused"
    BY DEF Inv, Unpaused
  <2>. QED
    BY <1>1, <2>1, StageKept DEF Inv, past
<1>3. request.kind \in {"pause", "resume", "stop", "event"}
  BY DEF Request
<1>4. case.status = "paused" => paused
  BY DEF Inv, Unpaused
<1>5. Requests'
  <2>. SUFFICES ASSUME NEW d \in Clients, req'[d] # NoRequest PROVE InFlight(d)'
    BY DEF Requests
  <2>1. CASE d = c
    <3>1. req'[d] = request
      BY <1>1, <2>1 DEF Inv, TypeOK
    <3>. QED
      BY <1>1, <1>3, <1>4, <3>1 DEF InFlight, Current, Active, past
  <2>2. CASE d # c
    BY <1>1, <2>2 DEF Inv, TypeOK, Requests, InFlight, Current, past
  <2>. QED
    BY <2>1, <2>2
<1>6. TypeOK' /\ paused' \in BOOLEAN
  BY <1>1 DEF Inv, TypeOK, past
<1>. QED
  BY <1>2, <1>5, <1>6 DEF Good, Inv

LEMMA AskKeeps == ASSUME Inv, NEW c \in Clients, Ask(c) PROVE Good
<1>0. case \in Case
  BY DEF Inv, TypeOK
<1>1. CASE LoadPause(c)
  BY <1>0, <1>1, LoadKeeps DEF LoadPause, Request
<1>2. CASE LoadResume(c)
  BY <1>0, <1>2, LoadKeeps DEF LoadResume, Request
<1>3. CASE LoadStop(c)
  BY <1>0, <1>3, LoadKeeps DEF LoadStop, Request
<1>4. CASE \E k \in Keys : LoadEvent(c, k)
  BY <1>0, <1>4, LoadKeeps DEF LoadEvent, Request
<1>. QED
  BY <1>1, <1>2, <1>3, <1>4 DEF Ask
-------------------------------------------------------------------------------
\* Requests that write

\* A pause touches the status and the state, a stop the status alone.
LEMMA PauseKeeps == ASSUME OneClient, Inv, NEW c \in Clients, Pause(c) PROVE Good
<1>. DEFINE new == [req[c].row EXCEPT !.status = "paused", !.later = FALSE,
                                      !.state.from = req[c].row.status]
<1>1. /\ req[c] # NoRequest /\ req[c].kind = "pause" /\ Save(req[c].row, new) /\ Done(c)
      /\ UNCHANGED <<run, seen, recoveries, released>>
  BY DEF Pause, Asked
<1>2. paused'
  BY DEF Pause
<1>3. /\ req[c].row \in Case /\ req[c].row.status \in Active /\ case.status # "stopped"
  BY <1>1, RequestTypes DEF Inv, Requests, InFlight
<1>4. /\ new \in Case /\ new.stage = req[c].row.stage /\ new.attempt = req[c].row.attempt
      /\ new.run = req[c].row.run /\ new.status = "paused" /\ new.status # req[c].row.status
  BY <1>3 DEF Case, Statuses, Active
<1>. HIDE DEF new
<1>5. /\ case' \in Case /\ case'.stage = case.stage /\ case'.attempt = case.attempt
      /\ case'.run = case.run /\ case'.status = "paused"
  BY <1>1, <1>3, <1>4, SavedStatus DEF Inv, TypeOK
<1>6. Way' /\ Unpaused' /\ Handed /\ Final
  BY <1>1, <1>2, <1>3, <1>5, StageKept DEF Inv
<1>7. Requests' /\ req' \in [Clients -> Request \cup {NoRequest}]
  BY <1>1, Forgotten DEF Inv
<1>8. TypeOK'
  BY <1>1, <1>5, <1>7 DEF Inv, TypeOK
<1>9. paused' \in BOOLEAN
  BY DEF Pause
<1>. QED
  BY <1>6, <1>7, <1>8, <1>9 DEF Good, Inv

LEMMA StopKeeps == ASSUME OneClient, Inv, NEW c \in Clients, Stop(c) PROVE Good
<1>. DEFINE new == [req[c].row EXCEPT !.status = "stopped", !.later = FALSE]
<1>1. /\ req[c] # NoRequest /\ req[c].kind = "stop" /\ Save(req[c].row, new) /\ Done(c)
      /\ UNCHANGED <<run, seen, past>>
  BY DEF Stop, Asked
<1>2. req[c].row \in Case /\ req[c].row.status # "stopped" /\ case.status # "stopped"
  BY <1>1, RequestTypes DEF Inv, Requests, InFlight
<1>3. /\ new \in Case /\ new.stage = req[c].row.stage /\ new.attempt = req[c].row.attempt
      /\ new.run = req[c].row.run /\ new.status = "stopped" /\ new.status # req[c].row.status
      /\ new.state = req[c].row.state
  BY <1>2 DEF Case, Statuses
<1>. HIDE DEF new
<1>4. /\ case' \in Case /\ case'.stage = case.stage /\ case'.attempt = case.attempt
      /\ case'.run = case.run /\ case'.status = "stopped" /\ case'.state = case.state
  BY <1>1, <1>2, <1>3, SavedStatus DEF Inv, TypeOK
<1>5. Way' /\ Unpaused' /\ Handed /\ Final
  BY <1>1, <1>2, <1>4, StageKept DEF Inv, past
<1>6. Requests' /\ req' \in [Clients -> Request \cup {NoRequest}]
  BY <1>1, Forgotten DEF Inv
<1>7. TypeOK' /\ paused' \in BOOLEAN
  BY <1>1, <1>4, <1>6 DEF Inv, TypeOK, past
<1>. QED
  BY <1>5, <1>6, <1>7 DEF Good, Inv

\* What is taken up again is the stage the case is in.
LEMMA ResumeKeeps == ASSUME OneClient, Inv, NEW c \in Clients, Resume(c) PROVE Good
<1>. PICK row : row = req[c].row
  OBVIOUS
<1>. PICK i : i = Resumed(row)
  OBVIOUS
<1>1. /\ req[c] # NoRequest /\ req[c].kind = "resume" /\ Advance(row, i) /\ Done(c)
      /\ UNCHANGED <<seen, past>>
  BY DEF Resume, Asked
<1>2. /\ row \in Case /\ row.status = "paused" /\ paused /\ Current(row)
      /\ case.status = "paused"
  BY <1>1, RequestTypes DEF Inv, Requests, InFlight, Current
<1>3. /\ i \in Case /\ i.stage = row.stage /\ i.attempt = row.attempt /\ i.run = row.run
      /\ i.status \in {"waiting_event", "running", "pending"}
  BY <1>2 DEF Resumed, Case, Statuses
<1>4. Sound(i) /\ i.stage = case.stage
  BY <1>2, <1>3 DEF Sound, KeyOf, Current, Inv, Way
<1>5. Moved(i)
  BY <1>1, <1>2, <1>4, AdvanceMoves DEF Inv
<1>6. Way'
  BY <1>3, <1>4, <1>5, MoveKeepsWay DEF Inv
<1>7. Unpaused' /\ Handed /\ Final
  BY <1>1, <1>2 DEF Unpaused, Handed, Final, past
<1>8. Requests' /\ req' \in [Clients -> Request \cup {NoRequest}]
  BY <1>1, Forgotten DEF Inv
<1>9. TypeOK' /\ paused' \in BOOLEAN
  BY <1>1, <1>5, <1>8 DEF Inv, TypeOK, past, Moved, RunsKept
<1>. QED
  BY <1>6, <1>7, <1>8, <1>9 DEF Good, Inv

\* The event releases the stage the case still waits in.
LEMMA AcceptKeeps == ASSUME OneClient, Inv, NEW c \in Clients, AcceptEvent(c) PROVE Good
<1>. PICK row : row = req[c].row
  OBVIOUS
<1>. PICK key : key = req[c].key
  OBVIOUS
<1>. DEFINE withEvent == [row EXCEPT !.state.event = key]
<1>. PICK i : i = Arm(withEvent, row.stage, TRUE)
  OBVIOUS
<1>1. /\ req[c] # NoRequest /\ req[c].kind = "event" /\ Advance(row, i) /\ Done(c)
      /\ seen' = seen \cup {key} /\ released' = released \cup {EventOf[key]}
      /\ row.status = "waiting_event" /\ EventOf[key] = row.stage
      /\ UNCHANGED <<recoveries, paused>>
  BY DEF AcceptEvent, Asked, Matched, Released
<1>2. row \in Case /\ key \in Keys /\ Current(row) /\ case.status = "waiting_event"
  BY <1>1, RequestTypes DEF Inv, Requests, InFlight, Current
<1>3. row.stage \in Stages /\ EventOf[key] \in AwaitsEvent
  BY <1>2, StageAssumption DEF Case, StageAssumption
<1>4. withEvent \in Case /\ withEvent.state.outputs = row.state.outputs
  BY <1>2 DEF Case
<1>. HIDE DEF withEvent
<1>5. /\ i \in Case /\ i.stage = row.stage /\ i.run = NoRun
      /\ i.state = withEvent.state /\ i.status \in {"waiting_event", "waiting", "pending"}
  BY <1>3, <1>4, ArmedStage
<1>6. /\ Sound(i) /\ i.stage = case.stage /\ i.state.outputs = case.state.outputs
  BY <1>2, <1>4, <1>5 DEF Sound, Current
<1>7. Moved(i)
  BY <1>1, <1>2, <1>6, AdvanceMoves DEF Inv
<1>8. Way'
  BY <1>5, <1>6, <1>7, MoveKeepsWay DEF Inv
<1>9. released \subseteq released' /\ released' \subseteq AwaitsEvent /\ i.stage \in released'
  BY <1>1, <1>3, <1>5 DEF Inv, TypeOK
<1>10. Unpaused'
  BY <1>1, <1>5, <1>6, <1>7, <1>9, MoveKeepsUnpaused DEF Inv
<1>11. Handed /\ Final
  BY <1>2, <1>6, <1>7, MoveHands DEF Inv, Final
<1>12. Requests' /\ req' \in [Clients -> Request \cup {NoRequest}]
  BY <1>1, Forgotten DEF Inv
<1>13. TypeOK' /\ paused' \in BOOLEAN
  BY <1>1, <1>2, <1>7, <1>9, <1>12 DEF Inv, TypeOK, Moved, RunsKept
<1>. QED
  BY <1>8, <1>10, <1>11, <1>12, <1>13 DEF Good, Inv

\* A request that ends without a word to the case.
LEMMA LeaveKeeps ==
  ASSUME OneClient, Inv, NEW c \in Clients, IgnoreEvent(c) \/ Abort(c)
  PROVE  Good
<1>1. Done(c) /\ UNCHANGED <<case, run, past>>
  BY DEF IgnoreEvent, Abort
<1>2. seen' \subseteq Keys
  BY RequestTypes DEF IgnoreEvent, Abort, Asked, Inv, TypeOK
<1>3. Way' /\ Unpaused' /\ Handed /\ Final
  <2>1. ~paused => case.status # "paused"
    BY DEF Inv, Unpaused
  <2>. QED
    BY <1>1, <2>1, StageKept DEF Inv, past
<1>4. Requests' /\ req' \in [Clients -> Request \cup {NoRequest}]
  BY <1>1, Forgotten DEF Inv
<1>5. TypeOK' /\ paused' \in BOOLEAN
  BY <1>1, <1>2, <1>4 DEF Inv, TypeOK, past
<1>. QED
  BY <1>3, <1>4, <1>5 DEF Good, Inv
-------------------------------------------------------------------------------
\* The specification

LEMMA Initially == ASSUME Init PROVE Inv
<1>. DEFINE armed == Arm(Blank, 1, FALSE)
<1>1. Blank \in Case
  BY Bounds DEF Blank, Case, Statuses
<1>2. /\ armed \in Case /\ armed.stage = 1 /\ armed.run = NoRun /\ armed.state = Blank.state
      /\ armed.status \in {"waiting_event", "waiting", "pending"}
      /\ 1 \in AwaitsEvent => armed.status = "waiting_event"
  BY <1>1, Bounds, ArmedStage
<1>3. armed.attempt = 1
  BY DEF Arm, Blank
<1>4. /\ case = IF Due(armed) THEN Started(armed) ELSE armed
      /\ run = [r \in Runs |-> IF r = <<1, 1>> /\ Due(armed) THEN "live" ELSE "none"]
      /\ seen = {} /\ req = [c \in Clients |-> NoRequest]
      /\ recoveries = 0 /\ released = {}
  BY DEF Init
<1>5. paused = FALSE
  BY DEF Init
<1>. HIDE DEF armed
<1>6. KeyOf(armed) = <<1, 1>> /\ <<1, 1>> \in Runs
  BY <1>2, <1>3, Bounds DEF KeyOf, Runs
<1>7. /\ Started(armed) \in Case /\ Started(armed).stage = 1 /\ Started(armed).attempt = 1
      /\ Started(armed).run = <<1, 1>> /\ Started(armed).status = "running"
      /\ Started(armed).state = Blank.state
  BY <1>2, <1>3, <1>6 DEF Started, Case, Statuses
<1>8. /\ case \in Case /\ case.stage = 1 /\ case.attempt = 1 /\ case.run \in {NoRun, <<1, 1>>}
      /\ case.status \in {"waiting_event", "waiting", "pending", "running"}
      /\ 1 \in AwaitsEvent => case.status = "waiting_event"
  BY <1>2, <1>3, <1>4, <1>7 DEF Due
<1>9. TypeOK
  BY <1>4, <1>8, PolicyAssumption DEF TypeOK, PolicyAssumption
<1>10. \A s \in Stages : Begun(s) => s = 1 /\ s \notin AwaitsEvent
  <2>. SUFFICES ASSUME NEW s \in Stages, Begun(s) PROVE s = 1 /\ s \notin AwaitsEvent
    OBVIOUS
  <2>1. PICK a \in Attempts : run[<<s, a>>] # "none"
    BY DEF Begun
  <2>2. <<s, a>> = <<1, 1>> /\ Due(armed)
    BY <1>4, <2>1 DEF Runs
  <2>. QED
    BY <1>2, <2>2 DEF Due
<1>11. Way
  BY <1>8, <1>10 DEF Way, Reached
<1>12. Unpaused
  BY <1>8, <1>10, Bounds DEF Unpaused
<1>13. Requests
  BY <1>4 DEF Requests
<1>14. paused \in BOOLEAN
  BY <1>5
<1>. QED
  BY <1>9, <1>11, <1>12, <1>13, <1>14 DEF Inv

LEMMA Step == ASSUME OneClient, Inv, [Next]_vars PROVE Good
<1>1. CASE Tick
  BY <1>1, TickKeeps
<1>2. CASE Elapse
  BY <1>2, ElapseKeeps
<1>3. CASE \E r \in Runs : EndRun(r) \/ RecoverRun(r)
  BY <1>3, RunKeeps
<1>4. CASE \E c \in Clients : Ask(c) \/ Answer(c)
  BY <1>4, AskKeeps, PauseKeeps, ResumeKeeps, StopKeeps, AcceptKeeps, LeaveKeeps DEF Answer
<1>5. CASE UNCHANGED vars
  BY <1>5, OutsideKeeps DEF vars, past, Inv, TypeOK
<1>. QED
  BY <1>1, <1>2, <1>3, <1>4, <1>5 DEF Next

\* What the invariant says of the properties.
LEMMA InvImplies == Inv => StagesInOrder /\ EventBeforeStage
<1>. SUFFICES ASSUME Inv PROVE StagesInOrder /\ EventBeforeStage
  OBVIOUS
<1>1. StagesInOrder
  BY DEF Inv, Way, Begun, Reached, StagesInOrder
<1>2. EventBeforeStage
  BY DEF Inv, Unpaused, Begun, EventBeforeStage
<1>. QED
  BY <1>1, <1>2

\* A case keeps to the declared graph of its process, with any number of attempts,
\* recovered runs, pauses, resumes and events between two ticks
\* (process_runtime.py, advance_process_instance).
THEOREM CaseKeepsToGraph ==
  ASSUME OneClient PROVE Spec => []StagesInOrder
<1>1. Init => Inv
  BY Initially
<1>2. Inv /\ [Next]_vars => Inv'
  BY Step DEF Good
<1>. QED
  BY <1>1, <1>2, InvImplies, PTL DEF Spec

\* No stage of a case that was never paused starts before its event was accepted,
\* however often and however early events are delivered (main.py, the event route).
THEOREM EventComesFirst ==
  ASSUME OneClient PROVE Spec => []EventBeforeStage
<1>1. Init => Inv
  BY Initially
<1>2. Inv /\ [Next]_vars => Inv'
  BY Step DEF Good
<1>. QED
  BY <1>1, <1>2, InvImplies, PTL DEF Spec

\* The stage that starts finds the output of a stage that leads to it in the state of
\* the case, as long as the case was never paused.
THEOREM OutputIsHandedOver ==
  ASSUME OneClient PROVE Spec => OutputHandedOver
<1>1. Init => Inv
  BY Initially
<1>2. Inv /\ [Next]_vars => Inv' /\ Handed
  BY Step DEF Good
<1>3. Handed => [~paused => \A s \in Stages \ {1} :
                  Starts(s) => case.state.outputs \cap Predecessors(s) # {}]_vars
  BY DEF Handed
<1>. QED
  BY <1>1, <1>2, <1>3, PTL DEF Spec, OutputHandedOver

\* A stopped case stays stopped and starts no stage, whatever was in flight when it
\* was stopped.
THEOREM StoppedForGood ==
  ASSUME OneClient PROVE Spec => StopIsFinal
<1>1. Init => Inv
  BY Initially
<1>2. Inv /\ [Next]_vars => Inv' /\ Final
  BY Step DEF Good
<1>3. Final => [case.status = "stopped" =>
                  case'.status = "stopped" /\ \A s \in Stages : ~Starts(s)]_vars
  BY DEF Final
<1>. QED
  BY <1>1, <1>2, <1>3, PTL DEF Spec, StopIsFinal
===============================================================================
