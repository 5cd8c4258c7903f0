------------------------------- MODULE Planning -------------------------------
(***************************************************************************)
(* A run from its creation to the start of its plan: the deliveries that   *)
(* plan it (orchestrator.py, plan_run and _plan_run), the supervisor's     *)
(* bounded repair of a failed attempt (run_supervisor.py), the connections *)
(* the plan waits for, and the requests that bring them (main.py).         *)
(*                                                                         *)
(* Grain.  A planner commits what it has loaded before it asks the model,  *)
(* and decides with that inventory after the model has answered.  A        *)
(* request that resumes the run reads it, and writes later.                *)
(***************************************************************************)
EXTENDS PlanCompiler, RunStateMachine

CONSTANTS
  Planners,       \* deliveries of the kind "plan" alive at the same time
  Clients,        \* requests in flight at the same time
  Prompts,        \* what a run may be asked for
  Drafts,         \* Drafts[r]: what a model may answer to the prompt r
  Recipes,        \* Recipes[r]: the audited recipes that match it
  Accounts,       \* connections a person may bring
  Serves,         \* Serves[a]: the tools account a connects
  Managed,        \* accounts the connection manager knows already
  MaxRounds,      \* max_planning_recovery_rounds
  MaxRestarts,    \* max_restart_recoveries
  MaxFaults,      \* bound: crashes
  MaxLosses,      \* bound: accounts disconnected
  NoPlanner, NoRequest, NoPlan

\* The tools that wait for an account.
Caps == Tools \ Builtin

ASSUME PlanningAssumption ==
  /\ Serves \in [Accounts -> SUBSET Caps] /\ Managed \subseteq Accounts
  /\ DOMAIN Drafts = Prompts /\ DOMAIN Recipes = Prompts
  /\ \A r \in Prompts : /\ Drafts[r] \cup Recipes[r] \subseteq Seq(PlanStep)
                        /\ \A q \in Recipes[r] : WellFormed(q)
  /\ MaxRounds \in Nat /\ MaxRestarts \in Nat
  /\ MaxFaults \in Nat /\ MaxLosses \in Nat
  /\ NoPlanner \notin Planners

Categories == {"operator_quota", "malformed_plan", "planner_runtime"}
Blockers   == {"none", "connection_required", "plan_approval_required", "pilot_details_required",
               "planning_retry_required", "operator_billing_required"}
Requests   == [seen : SUBSET Caps, account : Accounts]

VARIABLES
  direct,           \* setting planner_mode = "llm"; does not change
  prompt,           \* workflow_runs.prompt; does not change
  answers,          \* what the recipes and the model come to for the prompt, under each
                    \* inventory; does not change
  status, blocker,  \* workflow_runs.status and its __aura_blocker__
  cancelReq,        \* workflow_runs.cancellation_requested
  plan,             \* workflow_runs.plan, with its PlanVersion 1
  reqs,             \* connection_requirements: "none", "pending", "satisfied"
  accounts,         \* enabled connections with a verified manifest
  known,            \* tool_connections: every row, disabled ones included
  attempts,         \* __aura_supervisor__.attempts.planning
  restarts,         \* restart_recoveries
  due, later,       \* intents and messages of the kind "plan": deliverable, delayed
  holder,           \* owner of the advisory lock of the run
  planner,          \* the session of a delivery: where it stands, what it has loaded
  req,              \* requests that have read and not yet written
  faults, losses    \* counters of the bounds

vars == <<direct, prompt, answers, status, blocker, cancelReq, plan, reqs, accounts, known,
          attempts, restarts, due, later, holder, planner, req, faults, losses>>
ask  == <<direct, prompt, answers>>
run  == <<ask, status, blocker, cancelReq, plan>>
rows == <<accounts, known>>

Granted(as) == UNION {Serves[a] : a \in as}
Pending     == {c \in Caps : reqs[c] = "pending"}
Plannable   == {"queued", "planning"}
-------------------------------------------------------------------------------
\* What the supervisor records with a transition; a blocker of "same" is UNSET.
Transition(target, why) ==
  /\ MayTransition(status, target, TRUE)
  /\ status' = target /\ blocker' = IF why = "same" THEN blocker ELSE why

Idle     == [pc |-> "idle", saw |-> {}, plan |-> NoPlan]
Leave(p) == planner' = [planner EXCEPT ![p] = Idle] /\ holder' = NoPlanner

\* A delivery takes the lock, and loads the inventory it will plan with.
BeginPlanning(p) ==
  /\ planner[p].pc = "idle" /\ due > 0 /\ holder = NoPlanner /\ due' = due - 1
  /\ IF status \in Plannable
     THEN /\ Transition("planning", "same") /\ holder' = p
          /\ planner' = [planner EXCEPT ![p].pc = "compiling", ![p].saw = accounts]
     ELSE UNCHANGED <<status, blocker, holder, planner>>
  /\ UNCHANGED <<ask, cancelReq, plan, reqs, rows, attempts, restarts, later, req,
                 faults, losses>>

\* A delivery that meets a taken lock is acknowledged and gone.
MissLock(p) ==
  /\ planner[p].pc = "idle" /\ due > 0 /\ holder # NoPlanner /\ due' = due - 1
  /\ UNCHANGED <<run, reqs, rows, attempts, restarts, later, holder, planner, req, faults,
                 losses>>

\* The calls an inventory grants, what is left of the catalog, and what of that
\* the model is shown.
Grants(as)   == {c \in Catalog : c.tool \in Builtin \cup Granted(as)}
Left(r, as)  == Bounded(r, Grants(as))
Shown(r, as) == Relevant(r, Left(r, as), Grants(as))

Proposals(r, as, d) ==
  IF ~Satisfiable(r, Left(r, as)) THEN {}
  ELSE IF d THEN DirectPlans(r, Drafts[r], Shown(r, as)) ELSE AgentPlans(r, Drafts[r], Shown(r, as))

\* What comes of each recipe and of each proposal: a plan, or NoPlan where a
\* check refuses it.  A recipe that leaves out a selected app is passed over.
RecipeAnswers(r, as) ==
  {[from |-> "recipe", saw |-> as,
    plan |-> IF AcceptedRecipe(r, Left(r, as), p) THEN CompiledRecipe(r, Left(r, as), p)
             ELSE NoPlan] :
   p \in {q \in Recipes[r] : Satisfiable(r, Left(r, as)) /\ UsesSelected(r, Left(r, as), q)}}

ModelAnswers(r, as, d) ==
  {[from |-> "model", saw |-> as,
    plan |-> IF Accepted(r, Left(r, as), p) THEN Compiled(r, Left(r, as), p) ELSE NoPlan] :
   p \in Proposals(r, as, d)}

\* The plans that earlier runs of the workflow may have left, whatever was
\* connected then.
SavedAnswers(r, as) ==
  LET plans == {a.plan : a \in UNION {RecipeAnswers(r, bs) \cup ModelAnswers(r, bs, FALSE) :
                                       bs \in SUBSET Accounts}} \ {NoPlan}
  IN {[from |-> "saved", saw |-> as, plan |-> NormalizeGraph(p)] :
      p \in {q \in plans : Reusable(r, Grants(as), q)}}

Answers(r, d) ==
  UNION {RecipeAnswers(r, as) \cup ModelAnswers(r, as, d)
         \cup (IF d THEN {} ELSE SavedAnswers(r, as)) : as \in SUBSET Accounts}

\* A plan of an earlier run is taken as it is.
UseSaved(p) ==
  /\ planner[p].pc = "compiling"
  /\ \E answer \in answers :
       /\ answer.from = "saved" /\ answer.saw = planner[p].saw
       /\ planner' = [planner EXCEPT ![p].pc = "deciding", ![p].plan = answer.plan]
  /\ UNCHANGED <<run, reqs, rows, attempts, restarts, due, later, holder, req, faults, losses>>

\* An audited recipe answers the request without a model; one that fails a check
\* ends the attempt.
UseRecipe(p) ==
  /\ planner[p].pc = "compiling"
  /\ \E answer \in answers :
       /\ answer.from = "recipe" /\ answer.saw = planner[p].saw
       /\ planner' = [planner EXCEPT
            ![p].pc = IF answer.plan = NoPlan THEN "failed" ELSE "deciding",
            ![p].plan = answer.plan]
  /\ UNCHANGED <<run, reqs, rows, attempts, restarts, due, later, holder, req, faults, losses>>

\* The model proposes a plan.  A proposal that fails validation is corrected
\* once; the second rejection, or an error of the model, ends the attempt.
AskModel(p) ==
  /\ planner[p].pc \in {"compiling", "repairing"}
  /\ \/ \E answer \in answers :
          /\ answer.from = "model" /\ answer.saw = planner[p].saw
          /\ answer.plan = NoPlan => planner[p].pc = "compiling"
          /\ planner' = [planner EXCEPT
               ![p].pc = IF answer.plan = NoPlan THEN "repairing" ELSE "deciding",
               ![p].plan = answer.plan]
     \/ planner' = [planner EXCEPT ![p].pc = "failed"]
  /\ UNCHANGED <<run, reqs, rows, attempts, restarts, due, later, holder, req, faults, losses>>

\* The rows of the requirements, added pending.
Require(cs) == reqs' = [c \in Caps |-> IF c \in cs THEN "pending" ELSE reqs[c]]

\* Accounts the connection manager already holds are taken over, never one
\* that a person has disconnected.
Retrievable(missing) ==
  {a \in Managed \ known : Serves[a] \cap missing # {}}

\* The draft and its steps are stored.  What the inventory loaded before does not
\* grant and no reusable account brings becomes a requirement; only without one
\* is the draft offered for approval.
DecidePlan(p) ==
  /\ planner[p].pc = "deciding"
  /\ plan' = planner[p].plan
  /\ LET needs == NeededTools(plan') IN
       \E reused \in SUBSET Retrievable(needs \ Granted(planner[p].saw)) :
         LET missing == needs \ Granted(planner[p].saw \cup reused) IN
         /\ accounts' = accounts \cup reused /\ known' = known \cup reused
         /\ Require(missing)
         /\ IF missing = {} THEN Transition("awaiting_approval", "plan_approval_required")
                            ELSE Transition("waiting_for_action", "connection_required")
  /\ Leave(p)
  /\ UNCHANGED <<ask, cancelReq, attempts, restarts, due, later, req, faults, losses>>

\* A pilot request lacks details that only its author can give.
AskForDetails(p) ==
  /\ planner[p].pc = "compiling" /\ Transition("waiting_for_action", "pilot_details_required")
  /\ Leave(p)
  /\ UNCHANGED <<ask, cancelReq, plan, reqs, rows, attempts, restarts, due, later, req,
                 faults, losses>>

\* The rounds a category of failure is worth.
Rounds(category) ==
  IF category = "malformed_plan" /\ MaxRounds > 3 THEN 3 ELSE MaxRounds

\* recover_planning_failure: a delayed delivery, unless one is pending; after
\* the last round the incident goes to the repair queue.
Recover(category) ==
  /\ attempts' = attempts + 1 /\ due' = due
  /\ \/ /\ category = "operator_quota"
        /\ Transition("waiting_for_action", "operator_billing_required") /\ later' = later
     \/ /\ category # "operator_quota" /\ attempts + 1 <= Rounds(category)
        /\ Transition("planning", "same")
        /\ \/ later' = 1
           \/ due > 0 /\ later' = later
     \/ /\ category # "operator_quota" /\ attempts + 1 > Rounds(category)
        /\ Transition("blocked", "same") /\ later' = later

\* The planner reports capabilities it could not find.  Those that are not
\* connected become requirements, without a draft; a report that names none
\* is a failure like any other.
Lacks(p) ==
  /\ planner[p].pc \in {"compiling", "repairing"}
  /\ \E missing \in SUBSET (Caps \ Granted(planner[p].saw)) :
       \/ /\ missing = {} /\ Recover("planner_runtime") /\ reqs' = reqs
       \/ /\ missing # {} /\ Require(missing)
          /\ Transition("waiting_for_action", "connection_required")
          /\ UNCHANGED <<attempts, due, later>>
  /\ Leave(p)
  /\ UNCHANGED <<ask, cancelReq, plan, rows, restarts, req, faults, losses>>

\* pause_direct_planning_failure: a direct model plan is not repaired, a person
\* may ask again.
PauseDirect ==
  /\ Transition("waiting_for_action", "planning_retry_required")
  /\ UNCHANGED <<attempts, due, later>>

\* An attempt has failed.  An app the request names and nobody has connected is
\* asked for; otherwise the failure is paused or repaired.
FailPlanning(p) ==
  /\ planner[p].pc = "failed"
  /\ \E category \in Categories : \E missing \in SUBSET (Caps \ Granted(planner[p].saw)) :
       \/ /\ missing # {} /\ category # "operator_quota" /\ Require(missing)
          /\ Transition("waiting_for_action", "connection_required")
          /\ UNCHANGED <<attempts, due, later>>
       \/ missing = {} /\ direct /\ category # "operator_quota" /\ PauseDirect /\ reqs' = reqs
       \/ /\ missing = {} /\ (~direct \/ category = "operator_quota")
          /\ Recover(category) /\ reqs' = reqs
  /\ Leave(p)
  /\ UNCHANGED <<ask, cancelReq, plan, rows, restarts, req, faults, losses>>

\* An error outside the planner's own handlers: a session of its own records it
\* when the run is still being planned.
FailDelivery(p) ==
  /\ planner[p].pc \in {"compiling", "repairing", "deciding", "failed"}
  /\ \/ /\ status \in Plannable /\ direct /\ PauseDirect
     \/ /\ status \in Plannable
        /\ \E category \in Categories :
             (~direct \/ category = "operator_quota") /\ Recover(category)
     \/ status \notin Plannable /\ UNCHANGED <<status, blocker, attempts, due, later>>
  /\ Leave(p)
  /\ UNCHANGED <<ask, cancelReq, plan, reqs, rows, restarts, req, faults, losses>>

\* The process dies: PostgreSQL frees the lock; the message, acknowledged only
\* at the end (task_acks_late), is delivered again, or it is gone.
Crash(p) ==
  /\ planner[p].pc # "idle" /\ faults < MaxFaults /\ faults' = faults + 1 /\ Leave(p)
  /\ due' \in {due, due + 1}
  /\ UNCHANGED <<run, reqs, rows, attempts, restarts, later, req, losses>>

\* The delay of a scheduled delivery is over.
Elapse ==
  /\ later > 0 /\ later' = 0 /\ due' = due + 1
  /\ UNCHANGED <<run, reqs, rows, attempts, restarts, holder, planner, req, faults, losses>>

\* Mutant: the sweep looks for queued runs only.
RecoverStaleQueued ==
  /\ status = "queued" /\ holder = NoPlanner /\ due = 0 /\ later = 0
  /\ restarts < MaxRestarts /\ restarts' = restarts + 1 /\ due' = 1
  /\ UNCHANGED <<run, reqs, rows, attempts, later, holder, planner, req, faults, losses>>

\* recover_stale_runs, for a run that is being planned by nobody.  A delivery
\* that is due is received before the run is old enough for the sweep.
RecoverStale ==
  /\ status \in Plannable /\ holder = NoPlanner /\ due = 0 /\ later = 0
  /\ \/ /\ restarts >= MaxRestarts /\ Transition("waiting_for_action", "same")
        /\ UNCHANGED <<restarts, due>>
     \/ /\ restarts < MaxRestarts /\ restarts' = restarts + 1
        /\ Transition("queued", "same") /\ due' = 1
  /\ UNCHANGED <<ask, cancelReq, plan, reqs, rows, attempts, later, holder, planner, req,
                 faults, losses>>
-------------------------------------------------------------------------------
\* A person connects an account, or disconnects one.
Connect(a) ==
  /\ a \notin accounts /\ accounts' = accounts \cup {a} /\ known' = known \cup {a}
  /\ UNCHANGED <<run, reqs, attempts, restarts, due, later, holder, planner, req, faults, losses>>

Disconnect(a) ==
  /\ a \in accounts /\ losses < MaxLosses /\ losses' = losses + 1 /\ accounts' = accounts \ {a}
  /\ UNCHANGED <<known, run, reqs, attempts, restarts, due, later, holder, planner, req, faults>>

\* _requirement_accepts_tool
Accepts(c, a) == c \in Serves[a]

\* A request looks at a waiting run, its pending requirements and the account;
\* resume_after_connection refuses one that matches none of them.
ReadResume(c, a) ==
  /\ req[c] = NoRequest /\ a \in accounts /\ status = "waiting_for_action"
  /\ \E n \in Pending : Accepts(n, a)
  /\ req' = [req EXCEPT ![c] = [seen |-> Pending, account |-> a]]
  /\ UNCHANGED <<run, reqs, rows, attempts, restarts, due, later, holder, planner, faults,
                 losses>>

\* _resume_after_connections: a saved plan goes to its review, a run without a
\* plan is planned again.
ResumeAfterConnections ==
  \/ /\ plan # NoPlan /\ due' = due
     /\ status' = StoreStatus(status, "waiting_for_action", "awaiting_approval")
     /\ blocker' = "plan_approval_required"
  \/ /\ plan = NoPlan /\ due' = due + 1
     /\ status' = StoreStatus(status, "waiting_for_action", "queued") /\ blocker' = "none"

\* Mutant: any matching account resumes the run.
WriteResumeEarly(c) ==
  /\ req[c] # NoRequest
  /\ reqs' = [n \in Caps |-> IF n \in req[c].seen /\ Accepts(n, req[c].account) THEN "satisfied"
                             ELSE reqs[n]]
  /\ ResumeAfterConnections /\ req' = [req EXCEPT ![c] = NoRequest]
  /\ UNCHANGED <<ask, cancelReq, plan, rows, attempts, restarts, later, holder, planner,
                 faults, losses>>

\* The matched requirements are satisfied; the run goes on when none of those
\* it has seen is left.
WriteResume(c) ==
  /\ req[c] # NoRequest
  /\ LET matched == {n \in req[c].seen : Accepts(n, req[c].account)} IN
       /\ reqs' = [n \in Caps |-> IF n \in matched THEN "satisfied" ELSE reqs[n]]
       /\ IF req[c].seen \subseteq matched THEN ResumeAfterConnections
                                           ELSE UNCHANGED <<status, blocker, due>>
  /\ req' = [req EXCEPT ![c] = NoRequest]
  /\ UNCHANGED <<ask, cancelReq, plan, rows, attempts, restarts, later, holder, planner,
                 faults, losses>>

\* approve_plan, seen from the connections: a plan whose operations are not all
\* granted goes back to wait for them; a rejection ends the run.
Start ==
  /\ status = "awaiting_approval" /\ plan # NoPlan
  /\ LET missing == NeededTools(plan) \ Granted(accounts) IN
       \/ /\ missing = {} /\ Transition("running", "none") /\ reqs' = reqs
       \/ /\ missing # {} /\ Transition("waiting_for_action", "connection_required")
          /\ Require(missing)
       \/ Transition("cancelled", "same") /\ reqs' = reqs
  /\ UNCHANGED <<ask, cancelReq, plan, rows, attempts, restarts, due, later, holder,
                 planner, req, faults, losses>>

\* cancel_run: a run that is being planned is only marked.
Cancel ==
  /\ status \notin {"completed", "cancelled", "running"} /\ ~cancelReq /\ cancelReq' = TRUE
  /\ IF status = "planning" THEN UNCHANGED <<status, blocker>> ELSE Transition("cancelled", "same")
  /\ UNCHANGED <<ask, plan, reqs, rows, attempts, restarts, due, later, holder, planner,
                 req, faults, losses>>
-------------------------------------------------------------------------------
\* create_run: a queued run, with the intent that the flush hook adds.
\* A publisher that dies before its commit publishes the first delivery again.
Init ==
  /\ direct \in BOOLEAN /\ status = "queued" /\ blocker = "none" /\ cancelReq = FALSE
  /\ prompt \in Prompts /\ answers = Answers(prompt, direct) /\ plan = NoPlan
  /\ reqs = [c \in Caps |-> "none"] /\ accounts = {} /\ known = {} /\ attempts = 0 /\ restarts = 0
  /\ faults \in 0..MaxFaults /\ due = 1 + faults /\ later = 0 /\ holder = NoPlanner /\ losses = 0
  /\ planner = [p \in Planners |-> Idle]
  /\ req = [c \in Clients |-> NoRequest]

Plan(p) == \/ UseSaved(p) \/ UseRecipe(p) \/ AskModel(p) \/ DecidePlan(p) \/ AskForDetails(p)
           \/ Lacks(p) \/ FailPlanning(p) \/ FailDelivery(p)
Deliver == \E p \in Planners : BeginPlanning(p) \/ MissLock(p)

Next ==
  \/ Deliver
  \/ \E p \in Planners : Plan(p) \/ Crash(p)
  \/ Elapse \/ RecoverStale \/ Start \/ Cancel
  \/ \E a \in Accounts : Connect(a) \/ Disconnect(a)
  \/ \E c \in Clients : WriteResume(c) \/ \E a \in Accounts : ReadResume(c, a)

Spec == Init /\ [][Next]_vars

\* A delivery is processed and ends, the clock runs and the sweep comes back
\* (RunDelivery), a request that has read writes, and whoever is asked for an
\* account brings it and says so.
FairSpec ==
  /\ Spec /\ WF_vars(Deliver) /\ WF_vars(Elapse) /\ WF_vars(RecoverStale)
  /\ \A p \in Planners : WF_vars(Plan(p))
  /\ \A c \in Clients : WF_vars(WriteResume(c)) /\ \A a \in Accounts : SF_vars(ReadResume(c, a))
  /\ \A a \in Accounts : WF_vars(Connect(a))
-------------------------------------------------------------------------------
\* Properties

\* Every row has its shape; the supervisor's rounds stay within their budget,
\* one more for the attempt that ends them.
TypeOK ==
  /\ {direct, cancelReq} \subseteq BOOLEAN /\ prompt \in Prompts
  /\ status \in RunStatus /\ blocker \in Blockers
  /\ plan = NoPlan \/ WellFormed(plan)
  /\ reqs \in [Caps -> {"none", "pending", "satisfied"}]
  /\ accounts \subseteq known /\ known \subseteq Accounts
  /\ attempts \in 0..(MaxRounds + 1) /\ restarts \in 0..MaxRestarts /\ later \in 0..1
  /\ holder \in Planners \cup {NoPlanner}
  /\ \A p \in Planners :
       /\ planner[p].pc \in {"idle", "compiling", "repairing", "deciding", "failed"}
       /\ planner[p].saw \subseteq Accounts
       /\ IF planner[p].pc = "deciding" THEN WellFormed(planner[p].plan)
                                       ELSE planner[p].plan = NoPlan
  /\ req \in [Clients -> Requests \cup {NoRequest}]

\* While a run is offered for approval none of the connections it has asked for
\* is outstanding (orchestrator.py:2034-2036): however planners, requests and
\* disconnections interleave, Start is not offered early.
OfferedWhenConnected == status = "awaiting_approval" => Pending = {}

\* Every step of a stored plan whose contract writes is one that a person is
\* shown first, whatever its name suggests (orchestrator.py:434-437: "unfamiliar
\* write verbs"), but for the export of a design that is itself shown.
WritesAreShown ==
  plan # NoPlan =>
    \A s \in Steps(plan) : IsWrite(s.op) => s.consequential \/ Derivative(plan, s)

\* Whatever a step of a stored plan refers to has been done by the time the step may
\* run: the steps and dependencies the compiler adds do not undo the order.
ResultsAreThere ==
  plan # NoPlan =>
    \A i \in DOMAIN plan : plan[i].uses \subseteq Ancestors(plan)[i] \cap Earlier(plan, i)

\* A plan that is stored is fit to be reviewed: its writes are shown and its results
\* are there when they are used, whoever proposed it and however often planning was
\* repeated.
PlanIsFit == TypeOK /\ WritesAreShown /\ ResultsAreThere

\* What quotes a document waits until its body is read back.
QuotesAreRead ==
  plan # NoPlan =>
    \A i \in DOMAIN plan : plan[i].op \in {"canva.presentation.create", "gmail.send"} =>
      \A j \in 1..(i - 1) :
        plan[j].op = "docs.get" /\ "document_body" \in plan[j].required_evidence
          => plan[j].key \in Ancestors(plan)[i]

\* A stored plan does what its prompt asks for and no more: every wanted effect
\* and every selected app has a step that may not be skipped, no app that was left
\* out is called, not even as a backup, drafts are not sent, and a revision writes
\* only where the reviewed plan or the prompt does.
KeepsTheRequest ==
  plan # NoPlan =>
    LET firm   == {s \in Steps(plan) : ~s.optional}
        writes == {s \in Steps(plan) : IsWrite(s.op)}
        mine   == {Family[c.op] : c \in prompt.reviewed} \cup {w.family : w \in prompt.wants}
    IN /\ \A w \in prompt.wants :
            \E s \in firm : Family[s.op] = w.family /\ w.kind \in Kinds[s.op]
       /\ \A app \in prompt.selected : \E s \in firm : app \in {Family[s.tool], Family[s.op]}
       /\ \A s \in Steps(plan) : \A c \in CallsOf(s) : Family[c.op] \notin prompt.excluded
       /\ prompt.draftOnly => \A s \in writes : Family[s.op] # "gmail"
       /\ prompt.revises => \A s \in writes : Family[s.op] \in mine

\* A stored plan serves its request, for the drafts a model may answer here: nothing
\* is quoted unread, and what was asked for is done and no more.
ServesRequest == QuotesAreRead /\ KeepsTheRequest

\* A plan does not wait for an account that some other connected account makes
\* needless (plan_connection_routes.py:10-12): when, of the routes to Sheets or to Docs that
\* the request leaves, one that is connected can do all it asks of the app, and it
\* names no operation of another one, no other route is asked for.
NoNeedlessConnection ==
  [][\A p \in Planners : planner[p].pc = "deciding" /\ plan' = planner[p].plan =>
       LET granted == Grants(planner[p].saw)
           asked   == RouteBound(Catalog, prompt.routes)
           calls   == UNION {CallsOf(s) : s \in Steps(plan')}
       IN \A family \in {"sheets", "docs"}, t \in Tools :
            /\ Ready(prompt, asked, granted, family) = {t}
            /\ \A c \in asked : c.op \in prompt.exact /\ Family[c.op] = family => c.tool = t
            => \A c \in calls : family \in {Family[c.tool], Family[c.op]} =>
                 c.tool \in Builtin \cup Granted(planner[p].saw)]_vars

\* Planning comes to an end: with an offer, a question to a person, or an
\* incident; crashes, lost deliveries and failed attempts only delay it.
PlanningEnds == (status \in Plannable) ~> (status \notin Plannable)

\* A run that waits for connections goes on once they have been brought.
ConnectedRunGoesOn ==
  (status = "waiting_for_action" /\ Pending # {}) ~> (status # "waiting_for_action" \/ Pending = {})

\* No run is left behind between its creation and its start.
PlanningGoesOn == PlanningEnds /\ ConnectedRunGoesOn
================================================================================
