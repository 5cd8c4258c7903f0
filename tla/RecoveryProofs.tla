---------------------------- MODULE RecoveryProofs ----------------------------
(***************************************************************************)
(* The budgets of the automatic recovery hold, a run has one repair at a   *)
(* time, and a question to a person is respected, for any plan, kinds of   *)
(* steps, failures, budgets, crashes and requests, as long as no part      *)
(* writes the JSON column over a change it has not seen.                   *)
(*                                                                         *)
(* The argument.  The parts that count take the lock of the run, and what  *)
(* such a part has loaded agrees with the row on every counter, because    *)
(* the requests and the callback that come in between change none and no   *)
(* write was lost (Agree).  So the counter a part tests is the one it      *)
(* stores, and what happened is never ahead of what is stored (Counted).   *)
(***************************************************************************)
EXTENDS Recovery, SequenceTheorems, FiniteSetTheorems, NaturalsInduction, WellFoundedInduction,
        TLAPS

\* The row of a run, and what the JSON column holds.
Status  == {"running", "recovering", "failed", "waiting_for_action", "blocked",
            "awaiting_approval", "completed", "cancelled"}
StepSt  == {"pending", "failed", "completed"}
Handoff == {"none", "budget", "final", "connection", "no_safe_recovery"}
Ctx == [phase : Phases, blocker : BOOLEAN, rounds : Nat, per : [Steps -> Nat], reviews : Nat,
        refreshed : SUBSET Steps, handoff : Handoff, due : BOOLEAN,
        engineer : [Phases -> Nat], code : Nat, incident : Incident \union {"none"},
        replans : Nat, offset : [Steps -> Nat], reread : SUBSET Steps, restarts : Nat]
Row == [status : Status, cancel : BOOLEAN, approved : BOOLEAN, found : Found \union {"none"},
        sent : [Steps -> Nat], st : [Steps -> StepSt], recorded : [Steps -> BOOLEAN], ctx : Ctx]
Repair == [status : Incident \ {"queued"}, phase : Phases]

\* The places of a part that holds the lock, and of one that has loaded the row.
Holding == {"rescue", "deciding", "replan", "replanning", "engineering", "run"}
Working == {"deciding", "replanning", "engineering"}

Rows ==
  /\ config \in Configs /\ run \in Row /\ incidents \in Seq(Repair)
  /\ overlaps \in {0, 1} /\ made \in Nat /\ worked \in [Phases -> Nat]

Places ==
  /\ at \in [Parts -> Holding \union {"idle", "engineer", "listed", "resume"}]
  /\ lock \in Owners \union {"free"} /\ seen \in [Parts -> Row \union {NoRow}]
  /\ \A p \in Owners : at[p] \in Holding <=> lock = p
  /\ \A p \in Owners : at[p] # "resume"
  /\ at[Person] \in {"idle", "resume"}
  /\ \A p \in Parts : at[p] \in Working \union {"resume"} => seen[p] \in Row
  /\ \A p \in Owners : at[p] = "replanning" => FailedSteps(seen[p]) # {}

\* No counter moves, and no question to a person comes up.
Even(old, new) ==
  new.rounds = old.rounds /\ new.per = old.per /\ new.engineer = old.engineer
Quiet(old, new) == Even(old, new) /\ (new.blocker => old.blocker)

Agree == overlaps = 0 => \A p \in Owners : at[p] \in Working => Quiet(seen[p].ctx, run.ctx)

Counted ==
  overlaps = 0 =>
    /\ made <= run.ctx.rounds /\ run.ctx.rounds <= MaxRounds
    /\ \A s \in Steps : config.kinds[s] # "derivative" => run.ctx.per[s] <= MaxStep
    /\ \A p \in Phases : worked[p] <= run.ctx.engineer[p] /\ run.ctx.engineer[p] <= MaxEngineer

\* At most one incident is being repaired.
OneActive ==
  \A i, j \in 1..Len(incidents) :
    incidents[i].status \in Active /\ incidents[j].status \in Active => i = j

Inv == Rows /\ Places /\ Agree /\ Counted /\ OneActive

\* What HumanBlockersExcluded says of a step.
Respects ==
  \A p \in Owners :
    at[p] = "engineering" /\ at'[p] = "idle" /\ run'.status # run.status
      => ~run.ctx.blocker \/ overlaps > 0

\* What the actions of the owner of the lock have in common: nobody else works.
LEMMA Bounds ==
  /\ MaxRounds \in Nat /\ MaxStep \in Nat /\ MaxEngineer \in Nat
  /\ \A c \in Configs : /\ c.planner \in {"agent", "llm"}
                        /\ c.kinds \in Seq({"read", "update", "derivative", "jira"})
                        /\ c.fails \subseteq Found \union {"person"}
                        /\ c.results \subseteq {"promoted", "failed", "canary_failed",
                                                "rolled_back"}
BY RecoveryAssumption DEF RecoveryAssumption

\* The steps of a plan are numbered.
LEMMA Numbered ==
  ASSUME config \in Configs
  PROVE  Len(config.kinds) \in Nat /\ Steps = 1..Len(config.kinds)
BY Bounds, LenProperties DEF Steps

LEMMA InvImplies == Inv => BudgetsKept
<1>. SUFFICES ASSUME Inv PROVE BudgetsKept
  OBVIOUS
<1>1. /\ run.status \in Status /\ run.st \in [Steps -> StepSt] /\ run.ctx \in Ctx
      /\ run.found \in Found \union {"none"}
  BY DEF Inv, Rows, Row
<1>2. run.ctx.incident \in Incident \union {"none"}
  BY <1>1 DEF Ctx
<1>3. DOMAIN incidents = 1..Len(incidents) /\ Len(incidents) \in Nat
  BY LenProperties DEF Inv, Rows
<1>4. \A i \in DOMAIN incidents : incidents[i].status \in Incident \ {"queued"}
  <2>1. \A i \in 1..Len(incidents) : incidents[i] \in Repair
    BY ElementOfSeq DEF Inv, Rows
  <2>. QED BY <1>3, <2>1 DEF Repair
<1>5. TypeOK
  BY <1>1, <1>2, <1>4 DEF TypeOK, Inv, Places, Holding, Status, StepSt
<1>6. OneRepair
  <2>. DEFINE A == {i \in DOMAIN incidents : incidents[i].status \in Active}
  <2>1. CASE A = {}
    BY <2>1, FS_EmptySet DEF OneRepair
  <2>2. CASE A # {}
    <3>1. PICK i : A = {i}
      BY <1>3, <2>2 DEF Inv, OneActive
    <3>2. Cardinality(A) = 1
      BY <3>1, FS_Singleton
    <3>. QED BY <3>2 DEF OneRepair
  <2>. QED BY <2>1, <2>2
<1>7. ASSUME overlaps = 0
      PROVE  /\ made <= MaxRounds
             /\ \A s \in Steps : config.kinds[s] # "derivative" => run.ctx.per[s] <= MaxStep
             /\ \A p \in Phases : worked[p] <= MaxEngineer
  <2>1. run.ctx.rounds \in Nat /\ run.ctx.engineer \in [Phases -> Nat]
    BY <1>1 DEF Ctx
  <2>2. made \in Nat /\ worked \in [Phases -> Nat]
    BY DEF Inv, Rows
  <2>. QED BY <1>7, <2>1, <2>2, Bounds DEF Inv, Counted
<1>. QED BY <1>5, <1>6, <1>7 DEF BudgetsKept

LEMMA SameSteps ==
  ASSUME config' = config
  PROVE  Steps' = Steps /\ Row' = Row /\ Ctx' = Ctx
BY DEF Row, Ctx, Steps

LEMMA InitInv == Init => Inv
<1>. SUFFICES ASSUME Init PROVE Inv
  OBVIOUS
<1>1. run.ctx \in Ctx
  BY DEF Init, Ctx, Phases, Handoff
<1>2. run \in Row
  BY <1>1 DEF Init, Row, Status, StepSt
<1>3. Rows
  BY <1>2 DEF Init, Rows
<1>4. Places
  BY DEF Init, Places, Parts, Owners, Worker, Loop, Person, Holding, Working, NoRow
<1>5. Agree /\ OneActive
  BY DEF Init, Agree, OneActive, Parts, Owners, Working
<1>6. Counted
  BY Bounds DEF Init, Counted
<1>. QED BY <1>3, <1>4, <1>5, <1>6 DEF Inv
-------------------------------------------------------------------------------
\* Writing a row back

\* A row keeps its type, and as long as nothing unseen is written over, the JSON
\* column is left alone, confirmed, or replaced by what was made of it.
LEMMA Written ==
  ASSUME Rows, NEW old \in Row, NEW new \in Row, Write(old, new)
  PROVE  /\ run' \in Row /\ run'.status \in {run.status, new.status}
         /\ overlaps' \in {0, 1} /\ (overlaps' = 0 => overlaps = 0)
         /\ overlaps' = 0 => \/ new.ctx = old.ctx /\ run'.ctx = run.ctx
                             \/ new.ctx = run.ctx /\ run'.ctx = run.ctx
                             \/ run.ctx = old.ctx /\ run'.ctx = new.ctx
<1>. /\ run \in Row /\ run' = Saved(old, new)
  BY DEF Rows, Write
<1>1. /\ run'.status \in {run.status, new.status} /\ run'.cancel \in BOOLEAN
      /\ run'.approved \in BOOLEAN /\ run'.found \in Found \union {"none"}
      /\ run'.sent = run.sent /\ run'.ctx \in {run.ctx, new.ctx}
  BY DEF Saved, Column, Row
<1>2. run'.st \in [Steps -> StepSt]
  BY DEF Saved, Column, Row
<1>3. run'.recorded \in [Steps -> BOOLEAN]
  BY DEF Saved, Column, Row
<1>4. run' = [status |-> run'.status, cancel |-> run'.cancel, approved |-> run'.approved,
              found |-> run'.found, sent |-> run'.sent, st |-> run'.st,
              recorded |-> run'.recorded, ctx |-> run'.ctx]
  BY DEF Saved
<1>5. run' \in Row
  BY <1>1, <1>2, <1>3, <1>4 DEF Row
<1>6. run'.ctx = IF new.ctx = old.ctx THEN run.ctx ELSE new.ctx
  BY DEF Saved, Column
<1>7. /\ overlaps' \in {0, 1} /\ (overlaps' = 0 => overlaps = 0)
      /\ overlaps' = 0 => new.ctx = old.ctx \/ run.ctx = old.ctx \/ new.ctx = run.ctx
  BY DEF Write, Rows
<1>. QED BY <1>1, <1>5, <1>6, <1>7

LEMMA QuietWrite ==
  ASSUME Rows, NEW old \in Row, NEW new \in Row, Write(old, new), Quiet(old.ctx, new.ctx)
  PROVE  overlaps' = 0 => Quiet(run.ctx, run'.ctx)
BY Written DEF Quiet, Even
-------------------------------------------------------------------------------
\* Steps that count nothing

\* The parts that hold the row, of a step that counts nothing: each keeps what
\* it has loaded, or loads the row as it now is, and a question to a person comes
\* up only while nobody works.
LEMMA QuietStep ==
  ASSUME Inv, config' = config, run' \in Row, overlaps' \in {0, 1},
         overlaps' = 0 => overlaps = 0 /\ Even(run.ctx, run'.ctx),
         UNCHANGED <<made, worked>>, incidents' \in Seq(Repair),
         \A p \in Owners : at'[p] \in Working =>
           \/ seen'[p] = run'
           \/ /\ at[p] \in Working /\ seen'[p] = seen[p]
              /\ overlaps' = 0 => Quiet(run.ctx, run'.ctx)
  PROVE  Rows' /\ Agree' /\ Counted'
<1>1. Rows'
  BY SameSteps DEF Inv, Rows
<1>2. Agree'
  BY DEF Inv, Agree, Quiet, Even
<1>3. Counted'
  BY SameSteps DEF Inv, Counted, Even
<1>. QED BY <1>1, <1>2, <1>3

\* A part that takes the lock, keeps it or gives it back, and loads the row or
\* forgets it.
Moved(p, l, r) ==
  /\ at' = [at EXCEPT ![p] = l] /\ seen' = [seen EXCEPT ![p] = r]
  /\ l \in Holding \union {"idle", "engineer", "listed"} /\ r \in Row \union {NoRow}
  /\ l \in Holding => lock \in {"free", p} /\ lock' = p
  /\ l \notin Holding /\ at[p] \in Holding => lock' = "free"
  /\ l \notin Holding /\ at[p] \notin Holding => lock' = lock
  /\ l \in Working => r \in Row
  /\ l = "replanning" => FailedSteps(r) # {}

LEMMA OwnerMoves ==
  ASSUME Inv, config' = config, NEW p \in Owners, NEW l, NEW r, Moved(p, l, r)
  PROVE  /\ Places' /\ \A q \in Owners : q # p => at'[q] = at[q] /\ seen'[q] = seen[q]
         /\ at'[p] = l /\ seen'[p] = r
         /\ l \in Holding \/ at[p] \in Holding => \A q \in Owners : q # p => at'[q] \notin Holding
<1>. /\ Parts = {Worker, Loop, Person} /\ Owners = {Worker, Loop} /\ Worker # Loop
     /\ Worker # Person /\ Loop # Person /\ Worker # "free" /\ Loop # "free"
  BY DEF Parts, Owners, Worker, Loop, Person
<1>. USE DEF Moved
<1>1. /\ at'[p] = l /\ seen'[p] = r
      /\ \A q \in Parts : q # p => at'[q] = at[q] /\ seen'[q] = seen[q]
      /\ at' \in [Parts -> Holding \union {"idle", "engineer", "listed", "resume"}]
      /\ seen' \in [Parts -> Row \union {NoRow}]
  BY DEF Inv, Places
<1>2. /\ lock' \in Owners \union {"free"}
      /\ \A q \in Owners : at'[q] \in Holding <=> lock' = q
  BY <1>1 DEF Inv, Places, Holding
<1>3. /\ \A q \in Owners : at'[q] # "resume"
      /\ at'[Person] \in {"idle", "resume"}
      /\ \A q \in Parts : at'[q] \in Working \union {"resume"} => seen'[q] \in Row
  BY <1>1 DEF Inv, Places, Holding, Working
<1>4. \A q \in Owners : at'[q] = "replanning" => FailedSteps(seen'[q]) # {}
  BY <1>1 DEF Inv, Places
<1>5. \A q \in Owners : FailedSteps(seen[q])' = FailedSteps(seen'[q])
  BY SameSteps DEF FailedSteps
<1>. QED BY <1>1, <1>2, <1>3, <1>4, <1>5, SameSteps DEF Places

\* Nobody moves.
LEMMA NobodyMoves ==
  ASSUME Inv, UNCHANGED <<config, at, seen, lock>>
  PROVE  Places'
<1>1. \A q \in Owners : FailedSteps(seen[q])' = FailedSteps(seen[q])
  BY SameSteps DEF FailedSteps
<1>. QED BY <1>1, SameSteps DEF Inv, Places

\* The person begins or ends a request.
LEMMA PersonMoves ==
  ASSUME Inv, UNCHANGED <<config, lock>>, NEW l \in {"idle", "resume"},
         NEW r \in Row \union {NoRow}, l = "resume" => r \in Row,
         at' = [at EXCEPT ![Person] = l], seen' = [seen EXCEPT ![Person] = r]
  PROVE  Places' /\ \A q \in Owners : at'[q] = at[q] /\ seen'[q] = seen[q]
<1>. /\ Parts = {Worker, Loop, Person} /\ Owners = {Worker, Loop}
     /\ Worker # Person /\ Loop # Person
  BY DEF Parts, Owners, Worker, Loop, Person
<1>1. /\ at'[Person] = l /\ seen'[Person] = r
      /\ \A q \in Owners : at'[q] = at[q] /\ seen'[q] = seen[q]
      /\ at' \in [Parts -> Holding \union {"idle", "engineer", "listed", "resume"}]
      /\ seen' \in [Parts -> Row \union {NoRow}]
  BY DEF Inv, Places
<1>2. \A q \in Owners : FailedSteps(seen[q])' = FailedSteps(seen'[q])
  BY SameSteps DEF FailedSteps
<1>. QED BY <1>1, <1>2, SameSteps DEF Inv, Places, Working

\* The steps of a plan that are not done have a first one.
LEMMA FirstOpen ==
  ASSUME Inv, ~AllDone(run)
  PROVE  \E s \in Steps : /\ run.st[s] # "completed"
                          /\ \A y \in 1..(s - 1) : run.st[y] = "completed"
<1>. DEFINE open == {s \in Steps : run.st[s] # "completed"}
<1>1. open \subseteq Nat /\ open # {} /\ Steps = 1..Len(config.kinds) /\ Len(config.kinds) \in Nat
  BY Numbered DEF Inv, Rows, AllDone
<1>2. PICK x \in open : \A y \in open : ~(<<y, x>> \in OpToRel(<, Nat))
  BY <1>1, WFMin, NatLessThanWellFounded
<1>3. ASSUME NEW y \in 1..(x - 1) PROVE run.st[y] = "completed"
  <2>4. PICK n \in Nat : n = Len(config.kinds) /\ Steps = 1..n
    BY <1>1
  <2>3. x \in 1..n
    BY <1>2, <2>4
  <2>1. y \in Nat /\ x \in Nat /\ y < x /\ y \in 1..n
    BY <2>3
  <2>2. <<y, x>> \in OpToRel(<, Nat)
    BY <2>1 DEF OpToRel
  <2>. QED BY <1>2, <2>4, <2>1, <2>2
<1>. QED BY <1>2, <1>3

\* What the execution of a step makes of the row.
LEMMA FailRow ==
  ASSUME Inv, NEW s \in Steps, Fail(s)
  PROVE  run' \in Row /\ Even(run.ctx, run'.ctx) /\ at' = [at EXCEPT ![Worker] = "rescue"]
<1>1. PICK f \in Failures(s) :
        run' = [run EXCEPT !.status = IF f.found = "defect" THEN "failed"
                                      ELSE "waiting_for_action",
                           !.st[s] = "failed", !.found = f.found,
                           !.sent[s] = IF f.sent THEN @ + 1 ELSE @,
                           !.recorded[s] = f.recorded,
                           !.ctx.phase = "execution", !.ctx.due = FALSE,
                           !.ctx.blocker = FALSE]
  BY DEF Fail
<1>2. f.found \in Found \union {"none"} /\ f.recorded \in BOOLEAN /\ f.sent \in BOOLEAN
  BY Bounds DEF Failures, Found, Inv, Rows
<1>3. run \in Row /\ run.ctx \in Ctx
  BY DEF Inv, Rows, Row
<1>. DEFINE c == [run.ctx EXCEPT !.phase = "execution", !.due = FALSE, !.blocker = FALSE]
<1>4. c \in Ctx /\ Even(run.ctx, c)
  BY <1>3 DEF Ctx, Phases, Even
<1>5. run'.ctx = c
  BY <1>1, <1>3 DEF Row
<1>. HIDE DEF c
<1>6. /\ run'.status \in Status /\ run'.cancel \in BOOLEAN /\ run'.approved \in BOOLEAN
      /\ run'.found \in Found \union {"none"}
  BY <1>1, <1>2, <1>3 DEF Row, Status
<1>7. /\ run'.st \in [Steps -> StepSt] /\ run'.recorded \in [Steps -> BOOLEAN]
      /\ run'.sent \in [Steps -> Nat]
  BY <1>1, <1>2, <1>3 DEF Row, StepSt
<1>8. run' = [status |-> run'.status, cancel |-> run'.cancel, approved |-> run'.approved,
              found |-> run'.found, sent |-> run'.sent, st |-> run'.st,
              recorded |-> run'.recorded, ctx |-> run'.ctx]
  BY <1>1, <1>3 DEF Row
<1>9. run' \in Row
  BY <1>4, <1>5, <1>6, <1>7, <1>8 DEF Row
<1>. QED BY <1>4, <1>5, <1>9 DEF Fail, Goto

LEMMA SucceedRow ==
  ASSUME Inv, NEW s \in Steps, Succeed(s)
  PROVE  run' \in Row /\ Even(run.ctx, run'.ctx)
<1>1. run \in Row /\ run.ctx \in Ctx
  BY DEF Inv, Rows, Row
<1>. DEFINE c == [run.ctx EXCEPT !.due = FALSE, !.blocker = FALSE]
<1>2. c \in Ctx /\ Even(run.ctx, c)
  BY <1>1 DEF Ctx, Even
<1>3. run'.ctx = c
  BY <1>1 DEF Succeed, Row
<1>. HIDE DEF c
<1>4. /\ run'.status = run.status /\ run'.cancel = run.cancel /\ run'.approved = run.approved
      /\ run'.found = run.found /\ run'.st \in [Steps -> StepSt]
      /\ run'.recorded \in [Steps -> BOOLEAN] /\ run'.sent \in [Steps -> Nat]
  BY <1>1 DEF Succeed, Row, StepSt
<1>5. run' = [status |-> run'.status, cancel |-> run'.cancel, approved |-> run'.approved,
              found |-> run'.found, sent |-> run'.sent, st |-> run'.st,
              recorded |-> run'.recorded, ctx |-> run'.ctx]
  BY <1>1 DEF Succeed, Row
<1>. QED BY <1>1, <1>2, <1>3, <1>4, <1>5 DEF Row

\* The status, and what the JSON column says beside the counters.
LEMMA StatusRow ==
  ASSUME NEW r \in Row, NEW status \in Status, NEW c \in Ctx
  PROVE  /\ [r EXCEPT !.status = status, !.ctx = c] \in Row
         /\ [r EXCEPT !.status = status, !.ctx = c].ctx = c
BY DEF Row

\* One step of the run.
LEMMA ExecuteStep ==
  ASSUME Inv, Execute
  PROVE  Inv'
<1>. /\ config' = config /\ UNCHANGED <<incidents, lock, seen, made, worked, overlaps>>
     /\ at[Worker] = "run" /\ lock = Worker /\ Worker \in Owners /\ Worker \in Parts
  BY DEF Execute, Inv, Places, Holding, Owners, Parts
<1>0. run \in Row /\ run.ctx \in Ctx
  BY DEF Inv, Rows, Row
<1>1. /\ run' \in Row /\ Even(run.ctx, run'.ctx)
      /\ at' = [at EXCEPT ![Worker] = "rescue"] \/ at' = at
  <2>1. CASE Goto(Worker, "rescue") /\ run' = run
    BY <1>0, <2>1 DEF Even, Goto
  <2>5. CASE Goto(Worker, "rescue") /\ run' = [run EXCEPT !.status = "cancelled"]
    BY <1>0, <2>5 DEF Row, Even, Goto, Status
  <2>2. CASE AskPerson
    <3>. DEFINE c == [run.ctx EXCEPT !.phase = "connection", !.blocker = TRUE, !.due = FALSE]
    <3>1. c \in Ctx /\ Even(run.ctx, c)
      BY <1>0 DEF Ctx, Phases, Even
    <3>2. run' = [run EXCEPT !.status = "waiting_for_action", !.ctx = c]
      BY <1>0, <2>2 DEF AskPerson, Row
    <3>. HIDE DEF c
    <3>3. run' \in Row /\ run'.ctx = c
      BY <1>0, <3>1, <3>2, StatusRow DEF Status
    <3>. QED BY <2>2, <3>1, <3>3 DEF AskPerson, Goto
  <2>3. CASE Review
    <3>1. /\ [run.ctx EXCEPT !.blocker = FALSE] \in Ctx
          /\ Even(run.ctx, [run.ctx EXCEPT !.blocker = FALSE])
      BY <1>0 DEF Ctx, Even
    <3>2. /\ [run.ctx EXCEPT !.phase = "verification", !.due = FALSE] \in Ctx
          /\ Even(run.ctx, [run.ctx EXCEPT !.phase = "verification", !.due = FALSE])
      BY <1>0 DEF Ctx, Even, Phases
    <3>3. \/ run' = [run EXCEPT !.status = "completed",
                                !.ctx = [run.ctx EXCEPT !.blocker = FALSE]]
          \/ run' = [run EXCEPT !.status = "waiting_for_action",
                      !.ctx = [run.ctx EXCEPT !.phase = "verification", !.due = FALSE]]
      BY <1>0, <2>3 DEF Review, Row
    <3>4. \E c \in Ctx, status \in Status :
            Even(run.ctx, c) /\ run' = [run EXCEPT !.status = status, !.ctx = c]
      BY <3>1, <3>2, <3>3 DEF Status
    <3>5. run' \in Row /\ Even(run.ctx, run'.ctx)
      BY <1>0, <3>4, StatusRow
    <3>. QED BY <2>3, <3>5 DEF Review, Goto
  <2>4. ASSUME NEW s \in Steps, Fail(s) \/ Succeed(s)
        PROVE  /\ run' \in Row /\ Even(run.ctx, run'.ctx)
               /\ at' = [at EXCEPT ![Worker] = "rescue"] \/ at' = at
    BY <2>4, FailRow, SucceedRow DEF Succeed
  <2>. QED BY <2>1, <2>2, <2>3, <2>4, <2>5, FirstOpen DEF Execute
<1>2. CASE at' = [at EXCEPT ![Worker] = "rescue"]
  <2>1. PICK r \in Row \union {NoRow} : seen' = [seen EXCEPT ![Worker] = r]
    BY DEF Inv, Places
  <2>3. "rescue" \in Holding /\ "rescue" \notin Working /\ "rescue" # "replanning"
        /\ Working \subseteq Holding
    BY DEF Holding, Working
  <2>4. Moved(Worker, "rescue", r)
    BY <1>2, <2>1, <2>3 DEF Moved
  <2>2. /\ Places' /\ at'[Worker] = "rescue"
        /\ \A q \in Owners : q # Worker => at'[q] \notin Holding
    BY <2>3, <2>4, OwnerMoves
  <2>. QED BY <1>1, <2>2, <2>3, QuietStep DEF Inv, Rows, OneActive
<1>3. CASE at' = at
  <2>1. \A q \in Owners : at[q] \notin Working
    BY DEF Inv, Places, Holding, Working
  <2>2. Places'
    BY <1>3, NobodyMoves
  <2>. QED BY <1>1, <1>3, <2>1, <2>2, QuietStep DEF Inv, Rows, OneActive
<1>. QED BY <1>1, <1>2, <1>3
-------------------------------------------------------------------------------
\* Steps that only move a part, or only change the row

LEMMA RowChange ==
  ASSUME Inv, UNCHANGED <<config, at, seen, lock, incidents, made, worked, overlaps>>,
         run' \in Row, Quiet(run.ctx, run'.ctx)
  PROVE  Inv'
<1>1. Places'
  BY NobodyMoves
<1>2. Rows' /\ Agree' /\ Counted'
  BY QuietStep DEF Inv, Rows, Quiet
<1>. QED BY <1>1, <1>2 DEF Inv, OneActive

\* A part that moves without a change of the row.
LEMMA Move ==
  ASSUME Inv, UNCHANGED <<config, run, incidents, made, worked, overlaps>>,
         NEW p \in Owners, NEW l, NEW r, Moved(p, l, r),
         l \in Working => r = run \/ (at[p] \in Working /\ r = seen[p])
  PROVE  Inv'
<1>1. /\ Places' /\ \A q \in Owners : q # p => at'[q] = at[q] /\ seen'[q] = seen[q]
      /\ at'[p] = l /\ seen'[p] = r
  BY OwnerMoves
<1>2. Quiet(run.ctx, run'.ctx)
  BY DEF Quiet, Even
<1>3. Rows' /\ Agree' /\ Counted'
  BY <1>1, <1>2, QuietStep DEF Inv, Rows, Quiet
<1>. QED BY <1>1, <1>3 DEF Inv, OneActive

LEMMA SeenRow == ASSUME Inv, NEW p \in Parts PROVE seen[p] \in Row \union {NoRow}
BY DEF Inv, Places

LEMMA Moving ==
  ASSUME Inv, Deliver \/ ListWaiting \/ TakeWaiting \/ ListExhausted
  PROVE  Inv'
<1>. /\ Worker \in Owners /\ Loop \in Owners /\ Worker \in Parts /\ Loop \in Parts
     /\ UNCHANGED <<config, run, incidents, made, worked, overlaps, seen>>
  BY DEF Owners, Parts, Deliver, ListWaiting, TakeWaiting, ListExhausted
<1>1. PICK p \in Owners, l \in {"run", "engineer", "listed", "rescue", "idle"} :
        /\ at' = [at EXCEPT ![p] = l] /\ at[p] \in {"idle", "listed"}
        /\ l \in {"run", "rescue"} => lock = "free" /\ lock' = p
        /\ l \notin {"run", "rescue"} => lock' = lock
  BY DEF Deliver, ListWaiting, TakeWaiting, ListExhausted, Goto
<1>2. p \in Parts
  BY DEF Owners, Parts
<1>3. PICK r \in Row \union {NoRow} : seen' = [seen EXCEPT ![p] = r]
  BY <1>2 DEF Inv, Places
<1>4. Moved(p, l, r)
  BY <1>1, <1>2, <1>3 DEF Moved, Holding, Working
<1>. QED BY <1>1, <1>4, Move DEF Working

LEMMA Dying ==
  ASSUME Inv, NEW p \in Owners, Crash(p)
  PROVE  Inv'
<1>1. Moved(p, "idle", NoRow)
  BY DEF Crash, Goto, Forget, Moved, Holding, Working, Inv, Places, Owners
<1>. QED BY <1>1, Move DEF Crash, Working

LEMMA Loading ==
  ASSUME Inv, NEW p \in Owners, LoadRescue(p) \/ LoadEngineer(p)
  PROVE  Inv'
<1>. run \in Row /\ UNCHANGED <<config, run, incidents, made, worked, overlaps>>
  BY DEF Inv, Rows, LoadRescue, LoadEngineer
<1>1. CASE LoadRescue(p)
  <2>1. PICK l \in {"deciding", "replan"} : at' = [at EXCEPT ![p] = l]
    BY <1>1 DEF LoadRescue, Goto
  <2>2. Moved(p, l, run)
    BY <1>1, <2>1 DEF LoadRescue, Keep, Moved, Holding, Working
  <2>. QED BY <2>2, Move
<1>2. CASE LoadEngineer(p) /\ lock' = p /\ lock = "free" /\ Keep(p) /\ Goto(p, "engineering")
  <2>1. Moved(p, "engineering", run)
    BY <1>2 DEF Keep, Goto, Moved, Holding, Working
  <2>. QED BY <2>1, Move
<1>3. CASE LoadEngineer(p) /\ UNCHANGED lock /\ Forget(p) /\ Goto(p, "idle")
  <2>1. at[p] \notin Holding
    BY <1>3 DEF LoadEngineer, Holding
  <2>2. Moved(p, "idle", NoRow)
    BY <1>3, <2>1 DEF Forget, Goto, Moved, Holding, Working
  <2>. QED BY <2>2, Move DEF Working
<1>. QED BY <1>1, <1>2, <1>3 DEF LoadEngineer

\* The clock, the sweeps and short requests.
LEMMA Changing ==
  ASSUME Inv, Mature \/ ReadBack \/ Restart \/ Cancel \/ Approve
  PROVE  Inv'
<1>. UNCHANGED <<config, at, seen, lock, incidents, made, worked, overlaps>>
  BY DEF Mature, ReadBack, Restart, Cancel, Approve
<1>0. run \in Row /\ run.ctx \in Ctx
  BY DEF Inv, Rows, Row
<1>1. CASE Mature
  BY <1>0, <1>1, RowChange DEF Mature, Quiet, Even
<1>2. CASE ReadBack
  <2>1. PICK s \in Steps :
          run' = [run EXCEPT !.status = "recovering", !.st[s] = "pending",
                             !.ctx.phase = "verification", !.ctx.blocker = FALSE,
                             !.ctx.reread = @ \union {s}]
    BY <1>2 DEF ReadBack
  <2>. DEFINE c == [run.ctx EXCEPT !.phase = "verification", !.blocker = FALSE,
                                   !.reread = @ \union {s}]
              st == [run.st EXCEPT ![s] = "pending"]
  <2>2. c \in Ctx /\ Quiet(run.ctx, c)
    BY <1>0 DEF Ctx, Phases, Quiet, Even
  <2>3. st \in [Steps -> StepSt]
    BY <1>0 DEF Row, StepSt
  <2>4. run' = [run EXCEPT !.status = "recovering", !.st = st, !.ctx = c]
    BY <1>0, <2>1 DEF Row, Ctx
  <2>. HIDE DEF c, st
  <2>5. run' \in Row /\ run'.ctx = c
    BY <1>0, <2>2, <2>3, <2>4 DEF Row, Status
  <2>. QED BY <2>2, <2>5, RowChange
<1>3. CASE Restart
  <2>1. PICK restarts \in {run.ctx.restarts, run.ctx.restarts + 1},
             status \in {"recovering", "waiting_for_action"} :
          run' = [run EXCEPT !.status = status,
                    !.ctx = [run.ctx EXCEPT !.phase = "execution", !.restarts = restarts]]
    BY <1>0, <1>3 DEF Restart, Row, Ctx
  <2>4. restarts \in Nat /\ status \in Status
    BY <1>0 DEF Ctx, Status
  <2>. DEFINE c == [run.ctx EXCEPT !.phase = "execution", !.restarts = restarts]
  <2>2. c \in Ctx /\ Quiet(run.ctx, c)
    BY <1>0, <2>4 DEF Ctx, Phases, Quiet, Even
  <2>5. run' = [run EXCEPT !.status = status, !.ctx = c]
    BY <2>1
  <2>. HIDE DEF c
  <2>3. run' \in Row /\ run'.ctx = c
    BY <1>0, <2>2, <2>4, <2>5, StatusRow
  <2>. QED BY <2>2, <2>3, RowChange
<1>4. CASE Cancel
  <2>1. run' \in Row /\ run'.ctx = run.ctx
    BY <1>0, <1>4 DEF Cancel, Row, Status
  <2>. QED BY <2>1, RowChange DEF Quiet, Even
<1>5. CASE Approve
  <2>1. run' \in Row /\ run'.ctx = run.ctx
    BY <1>0, <1>5 DEF Approve, Row, Status
  <2>. QED BY <2>1, RowChange DEF Quiet, Even
<1>. QED BY <1>1, <1>2, <1>3, <1>4, <1>5
-------------------------------------------------------------------------------
\* Steps that write a row back without counting

\* A part with the lock writes what it has made of a row, and moves.
LEMMA WriteBack ==
  ASSUME Inv, UNCHANGED <<config, made, worked>>, NEW p \in Owners, NEW old \in Row,
         NEW new \in Row, Write(old, new), Quiet(old.ctx, new.ctx),
         incidents' \in Seq(Repair), OneActive', NEW l, NEW r, Moved(p, l, r), l \notin Working
  PROVE  Inv'
<1>1. /\ Places' /\ \A q \in Owners : q # p => at'[q] = at[q] /\ seen'[q] = seen[q]
      /\ at'[p] = l
  BY OwnerMoves
<1>2. /\ run' \in Row /\ overlaps' \in {0, 1}
      /\ overlaps' = 0 => overlaps = 0 /\ Quiet(run.ctx, run'.ctx)
  BY Written, QuietWrite DEF Inv
<1>3. overlaps' = 0 => Even(run.ctx, run'.ctx)
  BY <1>2 DEF Quiet
<1>4. Rows' /\ Agree' /\ Counted'
  BY <1>1, <1>2, <1>3, QuietStep
<1>. QED BY <1>1, <1>4 DEF Inv

LEMMA FailedOne ==
  ASSUME NEW r, FailedSteps(r) # {}
  PROVE  FailedStep(r) \in Steps
BY DEF FailedStep, FailedSteps

LEMMA HandedOff ==
  ASSUME NEW r \in Row, NEW reason \in Handoff
  PROVE  HandOff(r, reason) \in Row /\ Quiet(r.ctx, HandOff(r, reason).ctx)
<1>1. r.ctx \in Ctx
  BY DEF Row
<1>. DEFINE c == [r.ctx EXCEPT !.phase = "execution", !.handoff = reason, !.due = FALSE]
<1>2. c \in Ctx /\ Quiet(r.ctx, c)
  BY <1>1 DEF Ctx, Phases, Quiet, Even
<1>3. HandOff(r, reason) = r
      \/ HandOff(r, reason) = [r EXCEPT !.status = "waiting_for_action", !.ctx = c]
  BY DEF HandOff, Row
<1>. HIDE DEF c
<1>4. "waiting_for_action" \in Status
  BY DEF Status
<1>5. CASE HandOff(r, reason) = r
  BY <1>5 DEF Quiet, Even
<1>6. CASE HandOff(r, reason) = [r EXCEPT !.status = "waiting_for_action", !.ctx = c]
  <2>1. HandOff(r, reason) \in Row /\ HandOff(r, reason).ctx = c
    BY <1>2, <1>4, <1>6 DEF Row
  <2>. QED BY <1>2, <2>1
<1>. QED BY <1>3, <1>5, <1>6

LEMMA ReplacedRow ==
  ASSUME NEW r \in Row, NEW s \in Steps
  PROVE  /\ Widened(r, s) \in Row /\ Quiet(r.ctx, Widened(r, s).ctx)
         /\ [Replaced(r, s) EXCEPT !.status = "recovering"] \in Row
         /\ Quiet(r.ctx, [Replaced(r, s) EXCEPT !.status = "recovering"].ctx)
<1>1. r.ctx \in Ctx /\ r.sent[s] \in Nat
  BY DEF Row
<1>. DEFINE c == [r.ctx EXCEPT !.offset[s] = r.sent[s], !.phase = "execution"]
            st == [r.st EXCEPT ![s] = "pending"]
            recorded == [r.recorded EXCEPT ![s] = FALSE]
<1>2. c \in Ctx /\ Quiet(r.ctx, c)
  BY <1>1 DEF Ctx, Phases, Quiet, Even
<1>3. st \in [Steps -> StepSt] /\ recorded \in [Steps -> BOOLEAN]
  BY DEF Row, StepSt
<1>4. Replaced(r, s) = [r EXCEPT !.st = st, !.recorded = recorded, !.ctx = c]
  BY DEF Replaced, Row, Ctx
<1>. HIDE DEF c, st, recorded
<1>5. Replaced(r, s) \in Row /\ Replaced(r, s).ctx = c
  BY <1>2, <1>3, <1>4 DEF Row
<1>6. PICK x \in Row : x = Replaced(r, s) /\ x.ctx = c
  BY <1>5
<1>7. /\ Widened(r, s) \in Row /\ Widened(r, s).ctx = c
  BY <1>6 DEF Widened, Row, Status
<1>8. /\ [x EXCEPT !.status = "recovering"] \in Row
      /\ [x EXCEPT !.status = "recovering"].ctx = c
  BY <1>6 DEF Row, Status
<1>. QED BY <1>2, <1>6, <1>7, <1>8

LEMMA ResumedRow ==
  ASSUME NEW r \in Row
  PROVE  Resumed(r) \in Row /\ Quiet(r.ctx, Resumed(r).ctx)
<1>1. r.ctx \in Ctx
  BY DEF Row
<1>2. CASE FailedSteps(r) = {}
  <2>1. PICK phase \in Phases :
          Resumed(r) = [r EXCEPT !.status = "recovering", !.ctx.blocker = FALSE,
                                 !.ctx.phase = phase]
    BY <1>2 DEF Resumed, Phases
  <2>. DEFINE c == [r.ctx EXCEPT !.blocker = FALSE, !.phase = phase]
  <2>2. c \in Ctx /\ Quiet(r.ctx, c)
    BY <1>1 DEF Ctx, Quiet, Even
  <2>3. Resumed(r) = [r EXCEPT !.status = "recovering", !.ctx = c]
    BY <2>1 DEF Row
  <2>. HIDE DEF c
  <2>4. "recovering" \in Status
    BY DEF Status
  <2>5. Resumed(r) \in Row /\ Resumed(r).ctx = c
    BY <2>2, <2>3, <2>4 DEF Row
  <2>. QED BY <2>2, <2>5
<1>3. CASE FailedSteps(r) # {}
  <2>1. PICK s \in Steps : s = FailedStep(r)
    BY <1>3, FailedOne
  <2>2. PICK x \in Nat :
          Resumed(r) = [r EXCEPT !.status = "recovering", !.st[s] = "pending",
                           !.ctx.handoff = "none", !.ctx.due = FALSE,
                           !.ctx.phase = "execution", !.ctx.offset[s] = x]
    <3>1. r.sent[s] \in Nat /\ r.ctx.offset[s] \in Nat
      BY <1>1 DEF Row, Ctx
    <3>2. /\ [r.ctx EXCEPT !.handoff = "none", !.due = FALSE, !.phase = "execution"].offset
               = r.ctx.offset
          /\ DOMAIN r.ctx.offset = Steps
      BY <1>1 DEF Ctx
    <3>. QED BY <1>3, <2>1, <3>1, <3>2 DEF Resumed
  <2>. DEFINE c == [r.ctx EXCEPT !.handoff = "none", !.due = FALSE, !.phase = "execution",
                                 !.offset[s] = x]
              st == [r.st EXCEPT ![s] = "pending"]
  <2>3. c \in Ctx /\ Quiet(r.ctx, c)
    BY <1>1 DEF Ctx, Phases, Handoff, Quiet, Even
  <2>4. st \in [Steps -> StepSt]
    BY DEF Row, StepSt
  <2>5. Resumed(r) = [r EXCEPT !.status = "recovering", !.st = st, !.ctx = c]
    BY <1>1, <2>2 DEF Row, Ctx
  <2>. HIDE DEF c, st
  <2>. QED BY <2>3, <2>4, <2>5 DEF Row, Status
<1>. QED BY <1>2, <1>3

\* The person asks on what a page showed, and is answered on that.
LEMMA Asking ==
  ASSUME Inv, Ask \/ Resume
  PROVE  Inv'
<1>. UNCHANGED <<config, lock, incidents, made, worked>> /\ Person \in Parts
  BY DEF Ask, Resume, Parts
<1>0. run \in Row
  BY DEF Inv, Rows
<1>1. CASE Ask
  <2>1. Places' /\ \A q \in Owners : at'[q] = at[q] /\ seen'[q] = seen[q]
    BY <1>0, <1>1, PersonMoves DEF Ask, Keep, Goto
  <2>2. run' \in Row /\ Quiet(run.ctx, run'.ctx)
    BY <1>0, <1>1 DEF Ask, Quiet, Even
  <2>3. Rows' /\ Agree' /\ Counted'
    BY <1>1, <2>1, <2>2, QuietStep DEF Ask, Inv, Rows, Quiet
  <2>. QED BY <2>1, <2>3 DEF Inv, OneActive
<1>2. CASE Resume
  <2>1. seen[Person] \in Row
    BY <1>2 DEF Resume, Inv, Places
  <2>2. Resumed(seen[Person]) \in Row /\ Quiet(seen[Person].ctx, Resumed(seen[Person]).ctx)
    BY <2>1, ResumedRow
  <2>3. /\ run' \in Row /\ overlaps' \in {0, 1}
        /\ overlaps' = 0 => overlaps = 0 /\ Quiet(run.ctx, run'.ctx)
    BY <1>2, <2>1, <2>2, Written, QuietWrite DEF Resume, Inv
  <2>4. Places' /\ \A q \in Owners : at'[q] = at[q] /\ seen'[q] = seen[q]
    BY <1>2, PersonMoves DEF Resume, Forget, Goto
  <2>5. overlaps' = 0 => Even(run.ctx, run'.ctx)
    BY <2>3 DEF Quiet
  <2>6. Rows' /\ Agree' /\ Counted'
    BY <2>3, <2>4, <2>5, QuietStep DEF Inv, Rows
  <2>. QED BY <2>4, <2>6 DEF Inv, OneActive
<1>. QED BY <1>1, <1>2

\* Closing one of the incidents, or handing it on to where it was.
LEMMA Settled ==
  ASSUME NEW rows \in Seq(Repair), NEW i \in DOMAIN rows, NEW status \in Incident \ {"queued"},
         NEW new, new = [rows EXCEPT ![i].status = status],
         \A j \in DOMAIN rows : rows[j].status \in Active => status \notin Active \/ j = i
  PROVE  /\ new \in Seq(Repair)
         /\ (\A j, k \in 1..Len(rows) :
               rows[j].status \in Active /\ rows[k].status \in Active => j = k)
            => \A j, k \in 1..Len(new) :
                 new[j].status \in Active /\ new[k].status \in Active => j = k
<1>1. DOMAIN rows = 1..Len(rows) /\ Len(rows) \in Nat /\ \A j \in 1..Len(rows) : rows[j] \in Repair
  BY LenProperties, ElementOfSeq
<1>2. [rows[i] EXCEPT !.status = status] \in Repair
  BY <1>1 DEF Repair
<1>3. new = [rows EXCEPT ![i] = [rows[i] EXCEPT !.status = status]]
  OBVIOUS
<1>4. new \in Seq(Repair) /\ Len(new) = Len(rows)
  BY <1>1, <1>2, <1>3, ExceptSeq
<1>5. /\ new[i].status = status
      /\ \A j \in 1..Len(rows) : j # i => new[j].status = rows[j].status
  BY <1>1, <1>3 DEF Repair
<1>. QED BY <1>1, <1>4, <1>5

LEMMA Reported ==
  ASSUME Inv, CallBack
  PROVE  Inv'
<1>. UNCHANGED <<config, at, seen, lock, made, worked, overlaps>>
  BY DEF CallBack
<1>0. run \in Row /\ run.ctx \in Ctx /\ incidents \in Seq(Repair) /\ config \in Configs
  BY DEF Inv, Rows, Row
<1>1. PICK i \in DOMAIN incidents, result \in config.results :
        /\ incidents' = [incidents EXCEPT ![i].status = result]
        /\ run' = [run EXCEPT
                     !.ctx.incident = result,
                     !.ctx.phase = IF result = "promoted" /\ run.status \notin Ended
                                   THEN incidents[i].phase ELSE @,
                     !.status = IF result = "promoted" /\ run.status \notin Ended
                                THEN "recovering" ELSE @]
  BY DEF CallBack
<1>9. PICK phase \in {incidents[i].phase, run.ctx.phase}, status \in {run.status, "recovering"} :
        run' = [run EXCEPT !.status = status,
                           !.ctx = [run.ctx EXCEPT !.incident = result, !.phase = phase]]
  <2>. DEFINE restart == result = "promoted" /\ run.status \notin Ended
              phase == IF restart THEN incidents[i].phase ELSE run.ctx.phase
              status == IF restart THEN "recovering" ELSE run.status
  <2>1. run' = [run EXCEPT !.status = status,
                           !.ctx = [run.ctx EXCEPT !.incident = result, !.phase = phase]]
    BY <1>0, <1>1 DEF Row, Ctx
  <2>2. phase \in {incidents[i].phase, run.ctx.phase} /\ status \in {run.status, "recovering"}
    OBVIOUS
  <2>. QED BY <2>1, <2>2
<1>2. /\ result \in Incident \ {"queued"} /\ result \notin Active
      /\ phase \in Phases /\ status \in Status
  <2>1. incidents[i] \in Repair
    BY <1>0, ElementOfSeq, LenProperties
  <2>. QED BY <1>0, <2>1, Bounds DEF Incident, Active, Closed, Ctx, Row, Status, Repair
<1>3. incidents' \in Seq(Repair) /\ OneActive'
  BY <1>0, <1>1, <1>2, Settled DEF Inv, OneActive
<1>. DEFINE c == [run.ctx EXCEPT !.incident = result, !.phase = phase]
<1>4. c \in Ctx /\ Quiet(run.ctx, c)
  BY <1>0, <1>2 DEF Ctx, Quiet, Even
<1>5. run' = [run EXCEPT !.status = status, !.ctx = c]
  BY <1>9
<1>. HIDE DEF c
<1>6. run' \in Row /\ Quiet(run.ctx, run'.ctx)
  BY <1>0, <1>2, <1>4, <1>5 DEF Row
<1>7. Places'
  BY NobodyMoves
<1>8. Rows' /\ Agree' /\ Counted'
  BY <1>3, <1>6, QuietStep DEF Inv, Rows, Quiet
<1>. QED BY <1>3, <1>7, <1>8 DEF Inv
-------------------------------------------------------------------------------
\* The repair planner

LEMMA Released ==
  ASSUME Inv, NEW p \in Owners, at[p] \in Holding, Release(p)
  PROVE  \E l \in {"engineer", "idle"} : Moved(p, l, NoRow)
BY DEF Release, Goto, Forget, Moved, Holding, Working

LEMMA Unrepairing ==
  ASSUME Inv, NEW p \in Owners, at[p] \in Holding, Unrepaired(p),
         UNCHANGED <<incidents, config, made, worked>>
  PROVE  Inv'
<1>. run \in Row /\ "no_safe_recovery" \in Handoff
  BY DEF Inv, Rows, Handoff
<1>1. MarkHandoff(run) \in Row /\ Quiet(run.ctx, MarkHandoff(run).ctx)
  BY HandedOff DEF MarkHandoff, Quiet, Even
<1>2. PICK l \in {"engineer", "idle"} : Moved(p, l, NoRow)
  BY Released DEF Unrepaired
<1>. QED BY <1>1, <1>2, WriteBack DEF Unrepaired, Working, Inv, Rows, OneActive

LEMMA LoadingReplan ==
  ASSUME Inv, NEW p \in Owners, LoadReplan(p)
  PROVE  Inv'
<1>. /\ at[p] = "replan" /\ at[p] \in Holding /\ lock = p
     /\ UNCHANGED <<incidents, config, made, worked>>
  BY DEF LoadReplan, Holding
<1>0. run \in Row /\ run.ctx \in Ctx
  BY DEF Inv, Rows, Row
<1>1. CASE Repairable(run)
  <2>. DEFINE c == [run.ctx EXCEPT !.replans = @ + 1]
  <2>1. c \in Ctx /\ Quiet(run.ctx, c)
    BY <1>0 DEF Ctx, Quiet, Even
  <2>2. run' = [run EXCEPT !.ctx = c]
    BY <1>0, <1>1 DEF LoadReplan, Row
  <2>. HIDE DEF c
  <2>3. run' \in Row /\ Quiet(run.ctx, run'.ctx) /\ run'.st = run.st
    BY <1>0, <2>1, <2>2 DEF Row
  <2>4. FailedSteps(run') # {}
    BY <1>1, <2>3 DEF Repairable, FailedSteps
  <2>5. UNCHANGED <<lock, overlaps>> /\ seen' = [seen EXCEPT ![p] = run']
        /\ at' = [at EXCEPT ![p] = "replanning"]
    BY <1>1 DEF LoadReplan, Goto
  <2>6. PICK r \in Row : r = run'
    BY <2>3
  <2>7. Moved(p, "replanning", r)
    BY <2>4, <2>5, <2>6 DEF Moved, Holding, Working
  <2>8. /\ Places' /\ \A q \in Owners : q # p => at'[q] = at[q] /\ seen'[q] = seen[q]
        /\ at'[p] = "replanning" /\ seen'[p] = r
        /\ \A q \in Owners : q # p => at'[q] \notin Holding
    BY <2>7, OwnerMoves DEF Holding
  <2>9. Rows' /\ Agree' /\ Counted'
    BY <2>3, <2>5, <2>6, <2>8, QuietStep DEF Inv, Rows, Quiet, Working, Holding
  <2>. QED BY <2>8, <2>9 DEF Inv, OneActive
<1>2. CASE ~Repairable(run)
  BY <1>2, Unrepairing DEF LoadReplan
<1>. QED BY <1>1, <1>2

LEMMA Replanning ==
  ASSUME Inv, NEW p \in Owners, Replan(p)
  PROVE  Inv'
<1>. /\ at[p] = "replanning" /\ at[p] \in Holding /\ lock = p /\ p \in Parts
     /\ UNCHANGED <<incidents, config, made, worked>>
  BY DEF Replan, Holding, Inv, Places, Owners, Parts
<1>1. /\ seen[p] \in Row /\ run \in Row /\ FailedSteps(seen[p]) # {}
      /\ incidents' \in Seq(Repair) /\ OneActive'
  BY DEF Inv, Places, Rows, Working, OneActive
<1>. DEFINE r == [seen[p] EXCEPT !.status = run.status, !.cancel = run.cancel]
            s == FailedStep(seen[p])
<1>2. r \in Row /\ s \in Steps
  BY <1>1, FailedOne DEF Row
<1>3. CASE Unrepaired(p)
  BY <1>3, Unrepairing
<1>4. CASE Write(r, Widened(r, s)) /\ Release(p)
  <2>1. PICK l \in {"engineer", "idle"} : Moved(p, l, NoRow)
    BY <1>4, Released
  <2>2. l \notin Working
    BY DEF Working
  <2>. HIDE DEF r, s
  <2>3. Widened(r, s) \in Row /\ Quiet(r.ctx, Widened(r, s).ctx)
    BY <1>2, ReplacedRow
  <2>. QED BY <1>1, <1>2, <1>4, <2>1, <2>2, <2>3, WriteBack
<1>5. CASE Write(r, [Replaced(r, s) EXCEPT !.status = "recovering"]) /\ Retried(p)
  <2>1. PICK l \in {"run", "engineer", "idle"} : Moved(p, l, NoRow)
    <3>1. CASE Release(p)
      BY <3>1, Released
    <3>2. CASE Goto(p, "run") /\ Forget(p) /\ UNCHANGED lock
      BY <3>2 DEF Goto, Forget, Moved, Holding, Working
    <3>. QED BY <1>5, <3>1, <3>2 DEF Retried
  <2>2. l \notin Working
    BY DEF Working
  <2>. HIDE DEF r, s
  <2>3. /\ [Replaced(r, s) EXCEPT !.status = "recovering"] \in Row
        /\ Quiet(r.ctx, [Replaced(r, s) EXCEPT !.status = "recovering"].ctx)
    BY <1>2, ReplacedRow
  <2>. QED BY <1>1, <1>2, <1>5, <2>1, <2>2, <2>3, WriteBack
<1>. QED BY <1>3, <1>4, <1>5 DEF Replan
-------------------------------------------------------------------------------
\* A round of the automatic recovery

\* What recovery may do to a step is within the budget of that step.
LEMMA Options ==
  ASSUME NEW r \in Row, NEW o \in SafeOptions(r)
  PROVE  \/ o.action = "retry_final_review"
         \/ o.step \in Steps /\ r.ctx.per[o.step] < StepLimit(r, o.step)
<1>1. CASE AllDone(r)
  BY <1>1 DEF SafeOptions, Option
<1>2. CASE ~AllDone(r)
  <2>1. PICK s \in Steps : s = FailedStep(r)
    BY <1>2, FailedOne DEF SafeOptions
  <2>2. o \in StepOptions(r, s) /\ ~(r.ctx.per[s] >= StepLimit(r, s))
    BY <1>2, <2>1 DEF SafeOptions
  <2>3. o.step = s
    <3>1. \E action : o = Option(action, s)
      BY <2>2 DEF StepOptions
    <3>. QED BY <3>1 DEF Option
  <2>4. r.ctx.per[s] \in Nat /\ StepLimit(r, s) \in Nat
    BY Bounds DEF Row, Ctx, StepLimit
  <2>. QED BY <2>1, <2>2, <2>3, <2>4
<1>. QED BY <1>1, <1>2

LEMMA ScheduledRow ==
  ASSUME NEW r \in Row, NEW o,
         o.action = "retry_final_review" \/ o.step \in Steps
  PROVE  LET new == Scheduled(r, o) IN
         /\ new \in Row /\ new.ctx.rounds = r.ctx.rounds + 1
         /\ new.ctx.engineer = r.ctx.engineer /\ new.ctx.blocker = r.ctx.blocker
         /\ \A s \in Steps : \/ new.ctx.per[s] = r.ctx.per[s]
                             \/ /\ o.action # "retry_final_review" /\ s = o.step
                                /\ new.ctx.per[s] = r.ctx.per[s] + 1
<1>1. r.ctx \in Ctx /\ r.st \in [Steps -> StepSt]
  BY DEF Row
<1>2. CASE o.action = "retry_final_review"
  <2>. DEFINE c == [r.ctx EXCEPT !.rounds = @ + 1, !.due = TRUE, !.reviews = @ + 1,
                                 !.phase = "verification"]
  <2>4. r.ctx.rounds + 1 \in Nat /\ r.ctx.reviews + 1 \in Nat /\ "verification" \in Phases
    BY <1>1 DEF Ctx, Phases
  <2>5. c \in Ctx
    BY <1>1, <2>4 DEF Ctx
  <2>1. /\ c.rounds = r.ctx.rounds + 1 /\ c.engineer = r.ctx.engineer
        /\ c.blocker = r.ctx.blocker /\ c.per = r.ctx.per
    BY <1>1 DEF Ctx
  <2>2. Scheduled(r, o) = [r EXCEPT !.status = "recovering", !.ctx = c]
    BY <1>1, <1>2 DEF Scheduled, Row, Ctx
  <2>. HIDE DEF c
  <2>3. Scheduled(r, o) \in Row /\ Scheduled(r, o).ctx = c
    BY <2>2, <2>5 DEF Row, Status
  <2>. QED BY <2>1, <2>3
<1>3. CASE o.action # "retry_final_review"
  <2>1. PICK s \in Steps : s = o.step
    BY <1>3
  <2>2. PICK refreshed \in SUBSET Steps, x \in Nat :
          /\ refreshed = IF o.action = "refresh_capabilities" THEN r.ctx.refreshed \union {s}
                         ELSE r.ctx.refreshed
          /\ x = IF o.action = "retry_derivative" THEN r.sent[s] ELSE r.ctx.offset[s]
    <3>1. r.sent[s] \in Nat /\ r.ctx.offset[s] \in Nat /\ r.ctx.refreshed \in SUBSET Steps
      BY <1>1 DEF Row, Ctx
    <3>. DEFINE refreshed == IF o.action = "refresh_capabilities" THEN r.ctx.refreshed \union {s}
                             ELSE r.ctx.refreshed
                x == IF o.action = "retry_derivative" THEN r.sent[s] ELSE r.ctx.offset[s]
    <3>2. refreshed \in SUBSET Steps /\ x \in Nat
      BY <3>1
    <3>. QED BY <3>2
  <2>. DEFINE c == [r.ctx EXCEPT !.rounds = @ + 1, !.due = TRUE, !.per[s] = @ + 1,
                      !.phase = "execution", !.refreshed = refreshed, !.offset[s] = x]
              st == [r.st EXCEPT ![s] = "pending"]
  <2>8. /\ r.ctx.rounds + 1 \in Nat /\ [r.ctx.per EXCEPT ![s] = @ + 1] \in [Steps -> Nat]
        /\ [r.ctx.offset EXCEPT ![s] = x] \in [Steps -> Nat] /\ "execution" \in Phases
    BY <1>1 DEF Ctx, Phases
  <2>9. c = [r.ctx EXCEPT !.rounds = @ + 1, !.due = TRUE,
                !.per = [r.ctx.per EXCEPT ![s] = @ + 1], !.phase = "execution",
                !.refreshed = refreshed, !.offset = [r.ctx.offset EXCEPT ![s] = x]]
    BY <1>1 DEF Ctx
  <2>10. c \in Ctx
    BY <1>1, <2>8, <2>9 DEF Ctx
  <2>3. /\ c.rounds = r.ctx.rounds + 1 /\ c.engineer = r.ctx.engineer
        /\ c.blocker = r.ctx.blocker /\ c.per = [r.ctx.per EXCEPT ![s] = @ + 1]
    BY <1>1, <2>9 DEF Ctx
  <2>4. st \in [Steps -> StepSt]
    BY <1>1 DEF StepSt
  <2>5. Scheduled(r, o) = [r EXCEPT !.status = "recovering", !.st = st, !.ctx = c]
    <3>. DEFINE c0 == [r.ctx EXCEPT !.rounds = @ + 1, !.due = TRUE]
    <3>1. c0 \in Ctx
      BY <1>1, <2>8 DEF Ctx
    <3>2. PICK k \in Row : /\ k = [r EXCEPT !.status = "recovering", !.ctx = c0]
                           /\ k.ctx = c0 /\ k.st = r.st
      <4>. DEFINE k0 == [r EXCEPT !.status = "recovering", !.ctx = c0]
      <4>. HIDE DEF c0
      <4>1. k0 \in Row /\ k0.ctx = c0 /\ k0.st = r.st
        BY <3>1 DEF Row, Status
      <4>. QED BY <4>1
    <3>3. k = [r EXCEPT !.status = "recovering", !.ctx.rounds = @ + 1, !.ctx.due = TRUE]
      BY <3>2 DEF Row
    <3>4. Scheduled(r, o) =
            [k EXCEPT !.st[s] = "pending", !.ctx.per[s] = @ + 1, !.ctx.phase = "execution",
                      !.ctx.refreshed = IF o.action = "refresh_capabilities"
                                        THEN @ \union {s} ELSE @,
                      !.ctx.offset[s] = IF o.action = "retry_derivative"
                                        THEN r.sent[s] ELSE @]
      BY <1>3, <2>1, <3>3 DEF Scheduled
    <3>7. /\ k.ctx \in Ctx /\ k.ctx.offset = r.ctx.offset /\ k.ctx.per = r.ctx.per
          /\ k.ctx.refreshed = r.ctx.refreshed
      <4>1. c0.offset = r.ctx.offset /\ c0.per = r.ctx.per /\ c0.refreshed = r.ctx.refreshed
        BY <1>1 DEF Ctx
      <4>. HIDE DEF c0
      <4>. QED BY <3>1, <3>2, <4>1
    <3>8. Scheduled(r, o) =
            [k EXCEPT !.st[s] = "pending", !.ctx.per[s] = @ + 1, !.ctx.phase = "execution",
                      !.ctx.refreshed = refreshed, !.ctx.offset[s] = x]
      <4>1. CASE o.action = "refresh_capabilities"
        BY <2>2, <3>4, <3>7, <4>1 DEF Row, Ctx
      <4>2. CASE o.action = "retry_derivative"
        BY <2>2, <3>4, <3>7, <4>2 DEF Row, Ctx
      <4>3. CASE o.action \notin {"refresh_capabilities", "retry_derivative"}
        BY <2>2, <3>4, <3>7, <4>3 DEF Row, Ctx
      <4>. QED BY <4>1, <4>2, <4>3
    <3>9. Scheduled(r, o) =
            [k EXCEPT !.st[s] = "pending",
                      !.ctx = [k.ctx EXCEPT !.per[s] = @ + 1, !.phase = "execution",
                                 !.refreshed = refreshed, !.offset[s] = x]]
      BY <3>7, <3>8 DEF Row, Ctx
    <3>10. /\ [k.ctx EXCEPT !.per[s] = @ + 1, !.phase = "execution",
                           !.refreshed = refreshed, !.offset[s] = x]
              = [k.ctx EXCEPT !.per = [k.ctx.per EXCEPT ![s] = @ + 1], !.phase = "execution",
                            !.refreshed = refreshed,
                            !.offset = [k.ctx.offset EXCEPT ![s] = x]]
           /\ [k EXCEPT !.st[s] = "pending"] = [k EXCEPT !.st = st]
      BY <3>2, <3>7 DEF Row, Ctx
    <3>5. Scheduled(r, o) =
            [k EXCEPT !.st = st,
                      !.ctx = [k.ctx EXCEPT !.per = [k.ctx.per EXCEPT ![s] = @ + 1],
                                 !.phase = "execution", !.refreshed = refreshed,
                                 !.offset = [k.ctx.offset EXCEPT ![s] = x]]]
      BY <3>9, <3>10
    <3>6. [k.ctx EXCEPT !.per = [k.ctx.per EXCEPT ![s] = @ + 1], !.phase = "execution",
                        !.refreshed = refreshed, !.offset = [k.ctx.offset EXCEPT ![s] = x]] = c
      BY <1>1, <2>9, <3>2, <3>7 DEF Ctx
    <3>. HIDE DEF c, c0, st
    <3>. QED BY <3>2, <3>5, <3>6 DEF Row
  <2>6. \A t \in Steps : \/ c.per[t] = r.ctx.per[t]
                         \/ t = s /\ c.per[t] = r.ctx.per[t] + 1
    BY <1>1, <2>3 DEF Ctx
  <2>. HIDE DEF c, st
  <2>7. Scheduled(r, o) \in Row /\ Scheduled(r, o).ctx = c
    BY <2>10, <2>4, <2>5 DEF Row, Status
  <2>. QED BY <1>3, <2>1, <2>3, <2>6, <2>7
<1>. QED BY <1>2, <1>3

\* A part with the lock counts, and gives the lock back.
LEMMA CountStep ==
  ASSUME Inv, config' = config, run' \in Row, overlaps' \in {0, 1}, made' \in Nat,
         worked' \in [Phases -> Nat], incidents' \in Seq(Repair), OneActive',
         NEW p \in Owners, at[p] \in Holding, NEW l \in {"engineer", "idle"}, NEW r, Moved(p, l, r),
         overlaps' = 0 =>
           /\ made' <= run'.ctx.rounds /\ run'.ctx.rounds <= MaxRounds
           /\ \A s \in Steps : config.kinds[s] # "derivative" => run'.ctx.per[s] <= MaxStep
           /\ \A q \in Phases : /\ worked'[q] <= run'.ctx.engineer[q]
                                /\ run'.ctx.engineer[q] <= MaxEngineer
  PROVE  Inv'
<1>1. Places' /\ \A q \in Owners : at'[q] \notin Working
  BY OwnerMoves DEF Holding, Working
<1>2. Rows'
  BY SameSteps DEF Inv, Rows
<1>3. Agree' /\ Counted'
  BY <1>1, SameSteps DEF Agree, Counted
<1>. QED BY <1>1, <1>2, <1>3 DEF Inv

LEMMA Scheduling ==
  ASSUME Inv, NEW p \in Owners, at[p] = "deciding", UNCHANGED <<incidents, config, worked>>,
         ~(seen[p].ctx.rounds >= MaxRounds), NEW o \in SafeOptions(seen[p]), Schedule(p, o)
  PROVE  Inv'
<1>. PICK r : r = seen[p]
  OBVIOUS
<1>1. /\ r \in Row /\ run \in Row /\ r.ctx \in Ctx /\ run.ctx \in Ctx
      /\ at[p] \in Holding /\ p \in Parts
  BY DEF Inv, Places, Rows, Row, Working, Holding, Owners, Parts
<1>2. \/ o.action = "retry_final_review"
      \/ o.step \in Steps /\ r.ctx.per[o.step] < StepLimit(r, o.step)
  BY <1>1, Options
<1>. PICK new : new = Scheduled(r, o)
  OBVIOUS
<1>3. /\ new \in Row /\ new.ctx.rounds = r.ctx.rounds + 1
      /\ new.ctx.engineer = r.ctx.engineer /\ new.ctx.blocker = r.ctx.blocker
      /\ \A s \in Steps : \/ new.ctx.per[s] = r.ctx.per[s]
                          \/ /\ o.action # "retry_final_review" /\ s = o.step
                             /\ new.ctx.per[s] = r.ctx.per[s] + 1
  BY <1>1, <1>2, ScheduledRow
<1>4. Write(r, new) /\ made' = made + 1
  BY DEF Schedule
<1>5. /\ run' \in Row /\ overlaps' \in {0, 1} /\ (overlaps' = 0 => overlaps = 0)
      /\ overlaps' = 0 => \/ new.ctx = r.ctx /\ run'.ctx = run.ctx
                          \/ new.ctx = run.ctx /\ run'.ctx = run.ctx
                          \/ run.ctx = r.ctx /\ run'.ctx = new.ctx
  BY <1>1, <1>3, <1>4, Written DEF Inv
<1>6. ASSUME overlaps' = 0
      PROVE  overlaps = 0 /\ run.ctx = r.ctx /\ run'.ctx = new.ctx
  <2>1. run.ctx.rounds = r.ctx.rounds
    BY <1>5, <1>6 DEF Inv, Agree, Quiet, Even, Working
  <2>2. r.ctx.rounds \in Nat /\ new.ctx.rounds # r.ctx.rounds
    BY <1>1, <1>3 DEF Ctx
  <2>. QED BY <1>5, <1>6, <2>1, <2>2
<1>7. ASSUME overlaps' = 0
      PROVE  /\ made' <= run'.ctx.rounds /\ run'.ctx.rounds <= MaxRounds
             /\ \A s \in Steps : config.kinds[s] # "derivative" => run'.ctx.per[s] <= MaxStep
             /\ \A q \in Phases : /\ worked'[q] <= run'.ctx.engineer[q]
                                  /\ run'.ctx.engineer[q] <= MaxEngineer
  <2>1. /\ made <= r.ctx.rounds /\ made \in Nat /\ r.ctx.rounds \in Nat
        /\ \A s \in Steps : config.kinds[s] # "derivative" => r.ctx.per[s] <= MaxStep
        /\ \A q \in Phases : worked[q] <= r.ctx.engineer[q] /\ r.ctx.engineer[q] <= MaxEngineer
        /\ r.ctx.per \in [Steps -> Nat]
    BY <1>1, <1>6, <1>7 DEF Inv, Counted, Rows, Ctx
  <2>2. made' <= run'.ctx.rounds /\ run'.ctx.rounds <= MaxRounds
    BY <1>3, <1>4, <1>6, <1>7, <2>1, Bounds
  <2>3. ASSUME NEW s \in Steps, config.kinds[s] # "derivative"
        PROVE  run'.ctx.per[s] <= MaxStep
    <3>1. StepLimit(r, s) = MaxStep
      BY <2>3 DEF StepLimit
    <3>2. r.ctx.per[s] \in Nat /\ r.ctx.per[s] <= MaxStep /\ run'.ctx.per[s] = new.ctx.per[s]
      BY <1>6, <1>7, <2>1, <2>3
    <3>3. CASE new.ctx.per[s] = r.ctx.per[s]
      BY <3>2, <3>3
    <3>4. CASE s = o.step /\ o.action # "retry_final_review" /\ new.ctx.per[s] = r.ctx.per[s] + 1
      BY <1>2, <3>1, <3>2, <3>4, Bounds
    <3>. QED BY <1>3, <3>3, <3>4
  <2>4. \A q \in Phases : /\ worked'[q] <= run'.ctx.engineer[q]
                          /\ run'.ctx.engineer[q] <= MaxEngineer
    BY <1>3, <1>6, <1>7, <2>1
  <2>. QED BY <2>2, <2>3, <2>4
<1>8. PICK l \in {"engineer", "idle"} : Moved(p, l, NoRow)
  BY <1>1, Released DEF Schedule
<1>9. /\ made' \in Nat /\ worked' \in [Phases -> Nat] /\ incidents' \in Seq(Repair) /\ OneActive'
  BY <1>4 DEF Inv, Rows, OneActive
<1>. QED BY <1>1, <1>5, <1>7, <1>8, <1>9, CountStep

LEMMA Deciding ==
  ASSUME Inv, NEW p \in Owners, Decide(p)
  PROVE  Inv'
<1>. /\ at[p] = "deciding" /\ at[p] \in Holding /\ Recover(p)
     /\ UNCHANGED <<incidents, config, worked>>
  BY DEF Decide, Holding
<1>1. /\ seen[p] \in Row /\ seen[p].ctx \in Ctx /\ p \in Parts /\ run \in Row
      /\ incidents' \in Seq(Repair) /\ OneActive' /\ lock = p
  BY DEF Inv, Places, Rows, Row, Working, OneActive, Owners, Parts
<1>2. ASSUME NEW reason \in {"budget", "final", "connection"}, GiveUp(p, reason)
      PROVE  Inv'
  <2>1. PICK l \in {"engineer", "idle"} : Moved(p, l, NoRow)
    BY <1>2, Released DEF GiveUp
  <2>2. l \notin Working /\ reason \in Handoff
    BY DEF Working, Handoff
  <2>3. HandOff(seen[p], reason) \in Row /\ Quiet(seen[p].ctx, HandOff(seen[p], reason).ctx)
    BY <1>1, <2>2, HandedOff
  <2>. QED BY <1>1, <1>2, <2>1, <2>2, <2>3, WriteBack DEF GiveUp
<1>3. CASE GoReplan(p)
  <2>1. Moved(p, "replan", seen[p])
    BY <1>1, <1>3, SeenRow DEF GoReplan, Goto, Moved, Holding, Working, Inv, Places
  <2>. QED BY <1>3, <2>1, Move DEF GoReplan, Working
<1>4. ASSUME NEW o \in SafeOptions(seen[p]), ~(seen[p].ctx.rounds >= MaxRounds), Schedule(p, o)
      PROVE  Inv'
  BY <1>4, Scheduling
<1>5. ASSUME NEW o \in SafeOptions(seen[p]), o.action = "refresh_capabilities",
             UNCHANGED <<lock, seen, made>>, Goto(p, "replan"),
             Write(seen[p], [seen[p] EXCEPT !.ctx.refreshed = @ \union {o.step}])
      PROVE  Inv'
  <2>. DEFINE c == [seen[p].ctx EXCEPT !.refreshed = @ \union {o.step}]
              new == [seen[p] EXCEPT !.ctx = c]
  <2>1. o.step \in Steps
    BY <1>1, <1>5, Options
  <2>2. c \in Ctx /\ Quiet(seen[p].ctx, c)
    BY <1>1, <2>1 DEF Ctx, Quiet, Even
  <2>3. Write(seen[p], new)
    BY <1>1, <1>5 DEF Row
  <2>4. new \in Row /\ new.ctx = c
    <3>. HIDE DEF c
    <3>. QED BY <1>1, <2>2 DEF Row
  <2>5. Moved(p, "replan", seen[p])
    BY <1>1, <1>5, SeenRow DEF Goto, Moved, Holding, Working, Inv, Places
  <2>6. "replan" \notin Working
    BY DEF Working
  <2>. HIDE DEF new, c
  <2>7. Quiet(seen[p].ctx, new.ctx)
    BY <2>2, <2>4
  <2>. QED BY <1>1, <1>5, <2>3, <2>4, <2>5, <2>6, <2>7, WriteBack
<1>. QED BY <1>2, <1>3, <1>4, <1>5 DEF Recover, Refresh, Revalidate
-------------------------------------------------------------------------------
\* The engineer

\* The incident an engineer works on is the only active one, so the run has one
\* at most whatever becomes of it.
LEMMA SettledOne ==
  ASSUME Inv, NEW r \in Row, NEW status \in Incident \ {"queued"}, Settle(r, status)
  PROVE  incidents' \in Seq(Repair) /\ OneActive'
<1>. DEFINE AnyRepair == [status : Incident, phase : Phases]
<1>. PICK rows : rows = Opened(r)
  OBVIOUS
<1>1. /\ incidents \in Seq(Repair) /\ Len(incidents) \in Nat /\ r.ctx.phase \in Phases
      /\ DOMAIN incidents = 1..Len(incidents)
      /\ \A i \in 1..Len(incidents) : incidents[i] \in Repair
  BY LenProperties, ElementOfSeq DEF Inv, Rows, Row, Ctx
<1>2. /\ rows \in Seq(AnyRepair) /\ Len(rows) \in Nat /\ DOMAIN rows = 1..Len(rows)
      /\ \E k \in 1..Len(rows) :
           /\ rows[k].status \in Active /\ rows[k].phase \in Phases
           /\ \A j \in 1..Len(rows) : j # k => rows[j].status \notin Active /\ rows[j] \in Repair
  <2>1. CASE \E i \in DOMAIN incidents : incidents[i].status \in Active
    <3>1. rows = incidents
      BY <2>1 DEF Opened
    <3>2. Repair \subseteq AnyRepair
      BY DEF Repair
    <3>3. rows \in Seq(AnyRepair)
      BY <1>1, <3>1, <3>2, SeqMonotonic
    <3>4. PICK k \in 1..Len(incidents) : incidents[k].status \in Active
      BY <1>1, <2>1
    <3>. QED BY <1>1, <3>1, <3>3, <3>4 DEF Inv, OneActive, Repair
  <2>2. CASE ~\E i \in DOMAIN incidents : incidents[i].status \in Active
    <3>. DEFINE e == [status |-> "queued", phase |-> r.ctx.phase]
    <3>1. rows = Append(incidents, e)
      BY <2>2 DEF Opened
    <3>2. Repair \subseteq AnyRepair /\ e \in AnyRepair /\ e.status \in Active /\ e.phase \in Phases
      BY <1>1 DEF Repair, Incident, Active
    <3>3. incidents \in Seq(AnyRepair)
      BY <1>1, <3>2, SeqMonotonic
    <3>. HIDE DEF e, AnyRepair
    <3>4. /\ rows \in Seq(AnyRepair) /\ Len(rows) = Len(incidents) + 1
          /\ \A i \in 1..Len(incidents) : rows[i] = incidents[i]
          /\ rows[Len(incidents) + 1] = e
      BY <3>1, <3>2, <3>3, AppendProperties
    <3>5. DOMAIN rows = 1..Len(rows)
      BY <3>4, LenProperties
    <3>. QED BY <1>1, <2>2, <3>2, <3>4, <3>5
  <2>. QED BY <2>1, <2>2
<1>3. PICK k \in 1..Len(rows) :
        /\ rows[k].status \in Active /\ rows[k].phase \in Phases
        /\ \A j \in 1..Len(rows) : j # k => rows[j].status \notin Active /\ rows[j] \in Repair
  BY <1>2
<1>4. Current(rows) = k
  <2>1. {i \in DOMAIN rows : rows[i].status \in Active} = {k}
    BY <1>2, <1>3
  <2>2. Max({k}) = k
    BY <1>2 DEF Max
  <2>. QED BY <2>1, <2>2 DEF Current
<1>5. incidents' = [rows EXCEPT ![k] = [rows[k] EXCEPT !.status = status]]
  BY <1>4 DEF Settle
<1>6. /\ rows[k] \in AnyRepair
      /\ [rows[k] EXCEPT !.status = status] \in AnyRepair
      /\ [rows[k] EXCEPT !.status = status] \in Repair
      /\ [rows[k] EXCEPT !.status = status].status = status
  <2>1. rows[k] \in AnyRepair
    BY <1>2, <1>3, ElementOfSeq
  <2>. QED BY <2>1 DEF Repair
<1>. HIDE DEF AnyRepair
<1>7. /\ Len(incidents') = Len(rows) /\ incidents' \in Seq(AnyRepair)
      /\ \A j \in 1..Len(rows) :
           incidents'[j] = IF j = k THEN [rows[k] EXCEPT !.status = status] ELSE rows[j]
  BY <1>2, <1>5, <1>6, ExceptSeq
<1>8. \A j \in 1..Len(rows) :
        incidents'[j] \in Repair /\ (incidents'[j].status \in Active => j = k)
  BY <1>3, <1>6, <1>7
<1>9. incidents' \in Seq(Repair)
  <2>1. DOMAIN incidents' = 1..Len(rows)
    BY <1>7, LenProperties
  <2>. QED BY <1>7, <1>8, <2>1
<1>. QED BY <1>7, <1>8, <1>9 DEF OneActive

\* What the engineer does to a run it has loaded: nothing, or something to a run
\* that asks no person anything.
Nothing(p) == UNCHANGED <<run, incidents, worked, overlaps>>
Closes(r) ==
  \E status \in Incident \ {"queued"}, to \in Status, code \in Nat :
    /\ Settle(r, status) /\ worked' = worked
    /\ Write(r, [r EXCEPT !.status = to,
                          !.ctx = [r.ctx EXCEPT !.incident = status, !.code = code]])
Retries(r) ==
  /\ r.ctx.engineer[r.ctx.phase] < MaxEngineer
  /\ Settle(r, "workflow_retry")
  /\ Write(r, [r EXCEPT !.status = "recovering",
                        !.ctx = [r.ctx EXCEPT !.incident = "workflow_retry",
                                              !.engineer[r.ctx.phase] = @ + 1]])
  /\ worked' = [worked EXCEPT ![r.ctx.phase] = @ + 1]

LEMMA EngineerChoices ==
  ASSUME Inv, NEW p \in Owners, Engineer(p)
  PROVE  \/ Nothing(p)
         \/ ~seen[p].ctx.blocker /\ (Closes(seen[p]) \/ Retries(seen[p]))
<1>. PICK r : r = seen[p]
  OBVIOUS
<1>1. r \in Row /\ r.ctx \in Ctx /\ r.ctx.code \in Nat /\ r.status \in Status
  BY DEF Engineer, Inv, Places, Working, Owners, Parts, Row, Ctx
<1>2. ASSUME NEW status \in {"configuration_required", "quarantined"}, Block(p, r, status)
      PROVE  Nothing(p) \/ Closes(r)
  <2>1. CASE Raise(p)
    BY <2>1 DEF Raise, Nothing
  <2>2. CASE /\ Settle(r, status) /\ worked' = worked
             /\ Write(r, [r EXCEPT !.status = "blocked", !.ctx.incident = status])
    <3>1. [r EXCEPT !.status = "blocked", !.ctx.incident = status]
            = [r EXCEPT !.status = "blocked",
                        !.ctx = [r.ctx EXCEPT !.incident = status, !.code = r.ctx.code]]
      BY <1>1 DEF Row, Ctx
    <3>2. status \in Incident \ {"queued"} /\ "blocked" \in Status
      BY DEF Incident, Active, Closed, Status
    <3>3. Write(r, [r EXCEPT !.status = "blocked",
                        !.ctx = [r.ctx EXCEPT !.incident = status, !.code = r.ctx.code]])
      BY <2>2, <3>1
    <3>. QED BY <1>1, <2>2, <3>2, <3>3 DEF Closes
  <2>. QED BY <1>2, <2>1, <2>2 DEF Block
<1>3. ASSUME IsolateRepair(r)
      PROVE  Closes(r)
  <2>1. PICK status \in {"repairing", "awaiting_sandbox"} :
          /\ Settle(r, status) /\ worked' = worked
          /\ Write(r, [r EXCEPT !.ctx.incident = status, !.ctx.code = @ + 1])
    BY <1>3 DEF IsolateRepair
  <2>2. [r EXCEPT !.ctx.incident = status, !.ctx.code = @ + 1]
          = [r EXCEPT !.status = r.status,
                      !.ctx = [r.ctx EXCEPT !.incident = status, !.code = r.ctx.code + 1]]
    BY <1>1 DEF Row, Ctx
  <2>3. status \in Incident \ {"queued"} /\ r.ctx.code + 1 \in Nat
    BY <1>1 DEF Incident, Active
  <2>4. Write(r, [r EXCEPT !.status = r.status,
                      !.ctx = [r.ctx EXCEPT !.incident = status, !.code = r.ctx.code + 1]])
    BY <2>1, <2>2
  <2>. QED BY <1>1, <2>1, <2>3, <2>4 DEF Closes
<1>4. ASSUME RetryWorkflow(p, r), r.ctx.engineer[r.ctx.phase] < MaxEngineer
      PROVE  Nothing(p) \/ Retries(r)
  <2>1. CASE Raise(p)
    BY <2>1 DEF Raise, Nothing
  <2>2. CASE /\ Settle(r, "workflow_retry")
             /\ Write(r, [r EXCEPT !.status = "recovering", !.ctx.incident = "workflow_retry",
                                   !.ctx.engineer[r.ctx.phase] = @ + 1])
             /\ worked' = [worked EXCEPT ![r.ctx.phase] = @ + 1]
    <3>1. [r EXCEPT !.status = "recovering", !.ctx.incident = "workflow_retry",
                    !.ctx.engineer[r.ctx.phase] = @ + 1]
            = [r EXCEPT !.status = "recovering",
                        !.ctx = [r.ctx EXCEPT !.incident = "workflow_retry",
                                              !.engineer[r.ctx.phase] = @ + 1]]
      BY <1>1 DEF Row, Ctx
    <3>. QED BY <1>4, <2>2, <3>1 DEF Retries
  <2>. QED BY <1>4, <2>1, <2>2 DEF RetryWorkflow
<1>5. ASSUME ~HumanAction(r)
      PROVE  ~r.ctx.blocker
  BY <1>5 DEF HumanAction
<1>6. Raise(p) => Nothing(p)
  BY DEF Raise, Nothing
<1>7. CASE Raise(p)
  BY <1>6, <1>7
<1>8. CASE ~r.ctx.blocker /\ Block(p, r, "configuration_required")
  BY <1>2, <1>8
<1>9. CASE /\ ~HumanAction(r)
           /\ \/ Block(p, r, "quarantined")
              \/ r.ctx.engineer[r.ctx.phase] < MaxEngineer /\ RetryWorkflow(p, r)
              \/ IsolateRepair(r)
  BY <1>2, <1>3, <1>4, <1>5, <1>9
<1>. QED BY <1>7, <1>8, <1>9 DEF Engineer

LEMMA Engineering ==
  ASSUME Inv, NEW p \in Owners, Engineer(p)
  PROVE  Inv'
<1>. PICK r : r = seen[p]
  OBVIOUS
<1>. /\ at[p] = "engineering" /\ at[p] \in Holding /\ p \in Parts /\ lock = p
     /\ UNCHANGED <<config, made>>
  BY DEF Engineer, Holding, Owners, Parts, Inv, Places
<1>1. r \in Row /\ r.ctx \in Ctx /\ run \in Row /\ run.ctx \in Ctx
  BY DEF Inv, Places, Rows, Working, Row
<1>2. Moved(p, "idle", NoRow)
  BY DEF Engineer, Leave, Goto, Forget, Moved, Holding, Working
<1>3. CASE Nothing(p)
  BY <1>2, <1>3, Move DEF Nothing, Working
<1>4. CASE Closes(r)
  <2>1. PICK status \in Incident \ {"queued"}, to \in Status, code \in Nat :
          /\ Settle(r, status) /\ worked' = worked
          /\ Write(r, [r EXCEPT !.status = to,
                                !.ctx = [r.ctx EXCEPT !.incident = status, !.code = code]])
    BY <1>4 DEF Closes
  <2>. DEFINE c == [r.ctx EXCEPT !.incident = status, !.code = code]
              new == [r EXCEPT !.status = to, !.ctx = c]
  <2>2. c \in Ctx /\ Quiet(r.ctx, c)
    BY <1>1 DEF Ctx, Quiet, Even
  <2>3. new \in Row /\ new.ctx = c
    <3>. HIDE DEF c
    <3>. QED BY <1>1, <2>2 DEF Row
  <2>4. Write(r, new)
    BY <2>1
  <2>. HIDE DEF new, c
  <2>5. incidents' \in Seq(Repair) /\ OneActive'
    BY <1>1, <2>1, SettledOne
  <2>6. Quiet(r.ctx, new.ctx) /\ "idle" \notin Working
    BY <2>2, <2>3 DEF Working
  <2>. QED BY <1>1, <1>2, <2>1, <2>3, <2>4, <2>5, <2>6, WriteBack
<1>5. CASE Retries(r)
  <2>. PICK ph \in Phases : ph = r.ctx.phase
    BY <1>1 DEF Ctx
  <2>. DEFINE c == [r.ctx EXCEPT !.incident = "workflow_retry", !.engineer[ph] = @ + 1]
              new == [r EXCEPT !.status = "recovering", !.ctx = c]
  <2>1. /\ [r.ctx.engineer EXCEPT ![ph] = @ + 1] \in [Phases -> Nat]
        /\ "workflow_retry" \in Incident \ {"queued"}
    BY <1>1 DEF Ctx, Incident, Active, Closed
  <2>2. c = [r.ctx EXCEPT !.incident = "workflow_retry",
                          !.engineer = [r.ctx.engineer EXCEPT ![ph] = @ + 1]]
    BY <1>1 DEF Ctx
  <2>3. /\ c \in Ctx /\ c.rounds = r.ctx.rounds /\ c.per = r.ctx.per
        /\ c.engineer = [r.ctx.engineer EXCEPT ![ph] = @ + 1] /\ c.engineer # r.ctx.engineer
    <3>1. c \in Ctx
      BY <1>1, <2>1, <2>2 DEF Ctx
    <3>2. /\ c.rounds = r.ctx.rounds /\ c.per = r.ctx.per
          /\ c.engineer = [r.ctx.engineer EXCEPT ![ph] = @ + 1]
      BY <1>1, <2>2 DEF Ctx
    <3>3. r.ctx.engineer \in [Phases -> Nat]
      BY <1>1 DEF Ctx
    <3>4. c.engineer[ph] # r.ctx.engineer[ph]
      <4>. HIDE DEF c
      <4>. QED BY <3>2, <3>3
    <3>. HIDE DEF c
    <3>. QED BY <3>1, <3>2, <3>4
  <2>4. new \in Row /\ new.ctx = c
    <3>. HIDE DEF c
    <3>. QED BY <1>1, <2>3 DEF Row, Status
  <2>5. Write(r, new) /\ worked' = [worked EXCEPT ![ph] = @ + 1] /\ r.ctx.engineer[ph] < MaxEngineer
    BY <1>5 DEF Retries
  <2>. HIDE DEF new, c
  <2>6. incidents' \in Seq(Repair) /\ OneActive'
    BY <1>1, <1>5, <2>1, SettledOne DEF Retries
  <2>7. /\ run' \in Row /\ overlaps' \in {0, 1} /\ (overlaps' = 0 => overlaps = 0)
        /\ overlaps' = 0 => \/ new.ctx = r.ctx /\ run'.ctx = run.ctx
                            \/ new.ctx = run.ctx /\ run'.ctx = run.ctx
                            \/ run.ctx = r.ctx /\ run'.ctx = new.ctx
    BY <1>1, <2>4, <2>5, Written DEF Inv
  <2>8. ASSUME overlaps' = 0
        PROVE  overlaps = 0 /\ run.ctx = r.ctx /\ run'.ctx = c
    <3>1. run.ctx.engineer = r.ctx.engineer
      BY <2>7, <2>8 DEF Inv, Agree, Quiet, Even, Working
    <3>. QED BY <2>3, <2>4, <2>7, <2>8, <3>1
  <2>9. ASSUME overlaps' = 0
        PROVE  /\ made' <= run'.ctx.rounds /\ run'.ctx.rounds <= MaxRounds
               /\ \A s \in Steps : config.kinds[s] # "derivative" => run'.ctx.per[s] <= MaxStep
               /\ \A q \in Phases : /\ worked'[q] <= run'.ctx.engineer[q]
                                    /\ run'.ctx.engineer[q] <= MaxEngineer
    <3>1. /\ made <= r.ctx.rounds /\ r.ctx.rounds <= MaxRounds
          /\ \A s \in Steps : config.kinds[s] # "derivative" => r.ctx.per[s] <= MaxStep
          /\ \A q \in Phases : worked[q] <= r.ctx.engineer[q] /\ r.ctx.engineer[q] <= MaxEngineer
          /\ r.ctx.engineer \in [Phases -> Nat] /\ worked \in [Phases -> Nat]
      BY <1>1, <2>8, <2>9 DEF Inv, Counted, Rows, Ctx
    <3>2. \A q \in Phases : /\ worked'[q] <= run'.ctx.engineer[q]
                            /\ run'.ctx.engineer[q] <= MaxEngineer
      <4>1. /\ run'.ctx.engineer = [r.ctx.engineer EXCEPT ![ph] = @ + 1]
            /\ worked' = [worked EXCEPT ![ph] = @ + 1] /\ r.ctx.engineer[ph] < MaxEngineer
        BY <2>3, <2>5, <2>8, <2>9
      <4>. QED BY <3>1, <4>1, Bounds
    <3>. QED BY <2>3, <2>8, <2>9, <3>1, <3>2
  <2>10. made' \in Nat /\ worked' \in [Phases -> Nat]
    BY <2>5 DEF Inv, Rows
  <2>. QED BY <1>2, <2>6, <2>7, <2>9, <2>10, CountStep
<1>. QED BY <1>3, <1>4, <1>5, EngineerChoices

\* The engineer moves a run only when what it loaded asks no person anything; as
\* nothing unseen was written over, the row asks none either.
LEMMA EngineerRespects ==
  ASSUME Inv, NEW p \in Owners, Engineer(p), run'.status # run.status
  PROVE  ~run.ctx.blocker \/ overlaps > 0
<1>1. ~seen[p].ctx.blocker
  BY EngineerChoices DEF Nothing
<1>2. at[p] \in Working
  BY DEF Engineer, Working
<1>3. CASE overlaps = 0
  BY <1>1, <1>2, <1>3 DEF Inv, Agree, Quiet
<1>. QED BY <1>3 DEF Inv, Rows
-------------------------------------------------------------------------------
LEMMA Stutters == ASSUME Inv, UNCHANGED vars PROVE Inv' /\ Respects
<1>1. Rows' /\ Agree' /\ Counted' /\ OneActive' /\ Respects
  BY SameSteps DEF vars, Inv, Rows, Agree, Counted, OneActive, Respects
<1>2. Places'
  BY NobodyMoves DEF vars
<1>. QED BY <1>1, <1>2 DEF Inv

LEMMA StepKeeps == ASSUME Inv, Next PROVE Inv'
<1>1. ASSUME NEW p \in Owners, Work(p) \/ Crash(p) PROVE Inv'
  BY <1>1, Loading, Deciding, LoadingReplan, Replanning, Engineering, Dying DEF Work
<1>2. CASE Mature \/ ReadBack \/ Restart \/ Cancel \/ Approve
  BY <1>2, Changing
<1>3. CASE Deliver \/ ListWaiting \/ TakeWaiting \/ ListExhausted
  BY <1>3, Moving
<1>. QED BY <1>1, <1>2, <1>3, ExecuteStep, Asking, Reported DEF Next

LEMMA StepRespects == ASSUME Inv, Next PROVE Respects
<1>. SUFFICES ASSUME NEW q \in Owners, at[q] = "engineering", at'[q] = "idle",
                     run'.status # run.status
              PROVE  ~run.ctx.blocker \/ overlaps > 0
  BY DEF Respects
<1>. /\ Worker # Loop /\ Worker # Person /\ Loop # Person /\ Owners = {Worker, Loop}
     /\ Parts = {Worker, Loop, Person} /\ q \in Parts
  BY DEF Worker, Loop, Person, Owners, Parts
<1>. at \in [Parts -> Holding \union {"idle", "engineer", "listed", "resume"}]
  BY DEF Inv, Places
<1>1. ASSUME NEW p \in Owners, Work(p) PROVE ~run.ctx.blocker \/ overlaps > 0
  <2>1. CASE Engineer(p)
    BY <2>1, EngineerRespects
  <2>2. CASE LoadRescue(p) \/ LoadEngineer(p) \/ (LoadReplan(p) /\ Repairable(run))
    BY <2>2, <1>1 DEF LoadRescue, LoadEngineer, LoadReplan, Inv, Rows, Row
  <2>3. CASE \/ Decide(p) \/ Replan(p) \/ LoadReplan(p)
    <3>1. at[p] # "engineering" /\ p # q /\ p \in Parts
      BY <2>3 DEF Decide, Replan, LoadReplan
    <3>2. lock = q /\ lock = p
      BY <2>3, <3>1 DEF Inv, Places, Holding, Decide, Replan, LoadReplan
    <3>. QED BY <3>1, <3>2
  <2>. QED BY <1>1, <2>1, <2>2, <2>3 DEF Work
<1>2. CASE Execute
  <2>1. at[Worker] = "run" /\ at[q] = "engineering"
    BY <1>2 DEF Execute
  <2>. QED BY <2>1 DEF Inv, Places, Holding
<1>3. CASE \/ Mature \/ Deliver \/ ListWaiting \/ TakeWaiting \/ ListExhausted \/ Ask
           \/ \E p \in Owners : Crash(p)
  BY <1>3 DEF Mature, Deliver, ListWaiting, TakeWaiting, ListExhausted, Ask, Crash
<1>4. CASE ReadBack \/ Restart \/ Cancel \/ Approve \/ CallBack
  BY <1>4 DEF ReadBack, Restart, Cancel, Approve, CallBack
<1>5. CASE Resume
  BY <1>5 DEF Resume, Goto
<1>. QED BY <1>1, <1>2, <1>3, <1>4, <1>5 DEF Next

LEMMA InvAlways == Spec => []Inv
<1>1. Inv /\ [Next]_vars => Inv'
  BY StepKeeps, Stutters
<1>. QED BY InitInv, <1>1, PTL DEF Spec

\* However the worker, the sweeps, the person, the engineer and the repair
\* pipeline follow each other, and whichever of them dies, an approved run gets
\* no more rounds than max_autonomous_recovery_rounds, no step more recoveries
\* than max_autonomous_step_recoveries, no phase more retries than
\* max_recovery_engineer_attempts, and it has one repair at a time: for any plan
\* and any budgets, until a part writes execution_context over a change it has
\* not seen (autonomous_delivery.py, recovery_engineer.py).
THEOREM BudgetsAreKept == Spec => []BudgetsKept
BY InvAlways, InvImplies, PTL

\* For the same runs: a question to a person that came up after the sweep had
\* listed the run is never moved out of the way by the engineer
\* (recovery_engineer.py, recover_with_engineer).
THEOREM PersonsAreRespected == Spec => HumanBlockersExcluded
<1>1. Inv /\ [Next]_vars =>
        [\A p \in Owners :
           at[p] = "engineering" /\ at'[p] = "idle" /\ run'.status # run.status
             => ~run.ctx.blocker \/ overlaps > 0]_vars
  BY StepRespects DEF Respects
<1>. QED BY InvAlways, <1>1, PTL DEF Spec, HumanBlockersExcluded
===============================================================================
