------------------------------ MODULE PlanReview ------------------------------
(***************************************************************************)
(* What a person agrees to, and what the worker then sends: the approval   *)
(* of a plan and of its actions (main.py, approve_plan, decide_approval),  *)
(* the versions and snapshots that record it, the worker's integrity       *)
(* checks (orchestrator.py), and the review of tool outputs                *)
(* (tool_output_review.py).                                                *)
(*                                                                         *)
(* Grain.  A request loads the run, its steps and approvals, and commits   *)
(* later; versions are looked up when it writes.  A delivery keeps in its  *)
(* session what it has loaded when it began.  Two requests that take the   *)
(* row lock (SELECT FOR UPDATE) are one step each.                         *)
(***************************************************************************)
EXTENDS Naturals, FiniteSets, Sequences, RunStateMachine

CONSTANTS
  N,              \* steps of the plan
  Args,           \* the arguments a step may have
  Consequential,  \* steps whose action a person reviews
  Tool,           \* Tool[i]: the tool group of step i
  Grouped,        \* steps of the plan's approval group
  Clients,        \* requests in flight at the same time
  MaxVersions,    \* bound: plan versions
  MaxFaults,      \* bound: crashes
  NoArgs, NoRequest

Steps == 1..N
Plans == [Steps -> Args]

ASSUME ReviewAssumption ==
  /\ N \in Nat \ {0} /\ Consequential \subseteq Steps /\ Grouped \subseteq Consequential
  /\ DOMAIN Tool = Steps /\ NoArgs \notin Args /\ MaxVersions \in Nat \ {0} /\ MaxFaults \in Nat

VARIABLES
  direct,      \* setting planner_mode = "llm"; does not change
  status,      \* workflow_runs.status
  reapprove,   \* __aura_blocker__.code = "plan_approval_required"
  approved,    \* workflow_runs.plan_approved
  plan,        \* workflow_runs.plan: the arguments of each step
  versions,    \* plan_versions, by number (UNIQUE run_id, version)
  snaps,       \* approval_snapshots, oldest first (UNIQUE plan_version_id)
  steps,       \* run_steps
  apprs,       \* approvals of the consequential steps
  rev,         \* __aura_tool_output_review__
  due,         \* intents and messages of the kind "execute"
  wk,          \* the delivery that holds the lock of the run, and its session
  req,         \* requests that have loaded and not yet written
  sent,        \* history: what was sent for a step, and under which snapshot
  refused,     \* history: actions refused while nothing else was going on
  raced,       \* history: a request has written rows that changed since it read them
  faults       \* counter of the bound

vars == <<direct, status, reapprove, approved, plan, versions, snaps, steps, apprs, rev, due, wk,
          req, sent, refused, raced, faults>>
run  == <<status, reapprove, approved, plan>>
docs == <<versions, snaps>>
hist == <<sent, refused, raced>>
rows == <<run, docs, steps, apprs, rev>>

Idle      == [pc |-> "idle"]
StepRows  == [Steps -> [status : {"pending", "awaiting", "completed", "skipped", "failed"},
                        args : Args]]
NoReview  == [enabled |-> FALSE, between |-> FALSE, exec |-> <<>>, pending |-> {}, reviewed |-> {}]
Newest    == snaps[Len(snaps)]
Last(S)   == CHOOSE x \in S : \A y \in S : y <= x
ApprovedV == {v \in DOMAIN versions : versions[v].status = "approved"}
Undecided == {i \in Consequential : apprs[i].status = "pending" /\ apprs[i].preview # NoArgs}
-------------------------------------------------------------------------------
\* Review of tool outputs

Done(rs, i) == rs[i].status \in {"completed", "skipped"}

\* Mutant: completed steps are shown as they come, their group need not be done.
PendingUnreviewed(rs, r) ==
  IF ~r.enabled \/ ~r.between THEN {} ELSE
    {i \in Steps : rs[i].status = "completed" /\ i \notin r.reviewed /\ ~\E j \in Steps : j > i}

\* pending_output_review: the completed steps of the first contiguous tool
\* group nobody has reviewed; nothing while an earlier group is not done.
\* Without a review between tools, all steps at the end.
PendingReview(rs, r) ==
  LET fresh     == {i \in Steps : rs[i].status = "completed" /\ i \notin r.reviewed}
      first     == CHOOSE i \in fresh : \A j \in fresh : i <= j
      Group(i)  == {j \in Steps : \A k \in Steps :
                      (i <= k /\ k <= j) \/ (j <= k /\ k <= i) => Tool[k] = Tool[i]}
  IN IF ~r.enabled THEN {}
     ELSE IF r.pending # {} THEN r.pending
     ELSE IF fresh = {} THEN {}
     ELSE IF ~r.between THEN IF \A i \in Steps : Done(rs, i) THEN fresh ELSE {}
     ELSE IF \A i \in Steps : i <= first \/ i \in Group(first) => Done(rs, i)
          THEN fresh \cap Group(first) ELSE {}

\* pause_for_output_review, on a run loaded as running.
PauseForReview(rs, r) ==
  /\ rev' = [r EXCEPT !.pending = PendingReview(rs, r)]
  /\ status' = StoreStatus(status, "running", "awaiting_approval") /\ reapprove' = FALSE

\* review_tool_output: the reviewer acknowledges the checkpoint that is pending.
ReviewOutput ==
  /\ status = "awaiting_approval" /\ approved /\ rev.enabled /\ rev.pending # {}
  /\ \A i \in rev.pending : steps[i].status = "completed"
  /\ rev' = [rev EXCEPT !.pending = {}, !.reviewed = @ \cup rev.pending]
  /\ status' = "running" /\ reapprove' = FALSE /\ due' = due + 1
  /\ UNCHANGED <<direct, approved, plan, docs, steps, apprs, wk, req, hist, faults>>

\* resume_reviewed_plan: the saved plan is executed under its original decision.
ResumeReviewedPlan ==
  /\ approved /\ status = "awaiting_approval" /\ ~reapprove
  /\ ~(rev.enabled /\ rev.exec # <<>>) /\ ApprovedV # {} /\ snaps # <<>>
  /\ Newest.version = Last(ApprovedV) /\ versions[Newest.version].plan = plan
  /\ \A i \in Steps : Done(steps, i) \/ steps[i].status \in {"pending", "awaiting"}
  /\ LET r == [rev EXCEPT !.enabled = TRUE, !.exec = plan]
         p == PendingReview(steps, r) IN
       IF p # {}
       THEN rev' = [r EXCEPT !.pending = p] /\ UNCHANGED <<status, due>>
       ELSE rev' = r /\ status' = "running" /\ due' = due + 1
  /\ UNCHANGED <<direct, reapprove, approved, plan, docs, steps, apprs, wk, req, hist, faults>>
-------------------------------------------------------------------------------
\* The worker

\* A delivery begins: the newest approved version and the newest snapshot are
\* the plan of the run, a pending review is not passed, and the executable
\* steps are those of the plan.
Begin ==
  /\ wk = Idle /\ due > 0 /\ due' = due - 1
  /\ CASE status \notin Executable -> UNCHANGED <<status, reapprove, wk, rev>>
       [] status \in Executable /\ ~approved ->
            status' = "awaiting_approval" /\ reapprove' = TRUE /\ UNCHANGED <<wk, rev>>
       [] status \in Executable /\ approved
            /\ (ApprovedV = {} \/ snaps = <<>> \/ versions[Last(ApprovedV)].plan # plan
                \/ Newest.plan # plan) ->
            status' = "waiting_for_action" /\ reapprove' = TRUE /\ UNCHANGED <<wk, rev>>
       [] OTHER ->
            IF PendingReview(steps, rev) # {}
            THEN PauseForReview(steps, rev) /\ UNCHANGED wk
            ELSE IF \E i \in Steps : steps[i].args # plan[i]
            THEN status' = "waiting_for_action" /\ UNCHANGED <<reapprove, wk, rev>>
            ELSE /\ wk' = [pc |-> "step", at |-> 1, steps |-> steps,
                           snap |-> Len(snaps), rev |-> rev]
                 /\ status' = "running" /\ reapprove' = FALSE /\ rev' = rev
  /\ UNCHANGED <<direct, approved, plan, docs, steps, apprs, req, hist, faults>>

\* A delivery that meets a taken lock is acknowledged and gone.
MissLock ==
  /\ wk # Idle /\ due > 0 /\ due' = due - 1
  /\ UNCHANGED <<direct, rows, wk, req, hist, faults>>

At == wk.at

\* Mutant: the step is read again before it is sent.
MineStored == steps[At]

\* The step at hand, as the session has loaded it, and its approval.
Mine    == wk.steps[At]
Matches == apprs[At].status = "approved" /\ apprs[At].preview = Mine.args

\* The next step is not to be executed any more; a pending review comes first.
Pass ==
  /\ wk.pc = "step" /\ At <= N /\ Done(wk.steps, At)
  /\ IF PendingReview(wk.steps, wk.rev) # {}
     THEN PauseForReview(wk.steps, wk.rev) /\ wk' = Idle
     ELSE wk' = [wk EXCEPT !.at = @ + 1] /\ UNCHANGED <<status, reapprove, rev>>
  /\ UNCHANGED <<direct, approved, plan, docs, steps, apprs, due, req, hist, faults>>

\* A consequential step without a matching approval is prepared for review: its
\* approval is loaded, and opened again when the step believes it has one.
LoadApproval ==
  /\ wk.pc = "step" /\ At <= N /\ At \in Consequential
  /\ PendingReview(wk.steps, wk.rev) = {}
  /\ \/ Mine.status = "pending" /\ ~Matches
     \/ Mine.status = "awaiting" /\ apprs[At].status = "pending"
  /\ wk' = [wk EXCEPT !.pc = "preparing"]
  /\ UNCHANGED <<direct, rows, due, req, hist, faults>>

\* The approval has been decided behind the worker's back.
MissApproval ==
  /\ wk.pc = "step" /\ At <= N /\ Mine.status = "awaiting" /\ apprs[At].status # "pending"
  /\ status' = StoreStatus(status, "running", "waiting_for_action") /\ wk' = Idle
  /\ steps' = [steps EXCEPT ![At].status = "failed"]
  /\ UNCHANGED <<direct, reapprove, approved, plan, docs, apprs, rev, due, req, hist, faults>>

\* A step that failed goes straight to its dispatch, and without a matching
\* approval it is not sent.
RefuseDispatch ==
  /\ wk.pc = "step" /\ At <= N /\ At \in Consequential /\ Mine.status = "failed" /\ ~Matches
  /\ PendingReview(wk.steps, wk.rev) = {}
  /\ status' = StoreStatus(status, "running", "waiting_for_action") /\ wk' = Idle
  /\ steps' = [steps EXCEPT ![At].status = "failed"]
  /\ UNCHANGED <<direct, reapprove, approved, plan, docs, apprs, rev, due, req, hist, faults>>

\* plan_authorizes_action: Start covers the actions of its exact plan.
Authorized == wk.rev.enabled /\ wk.rev.exec # <<>> /\ wk.rev.exec = snaps[wk.snap].plan

\* The preview is ready.  Either Start has authorized the action, or the run is
\* paused for it, with the later actions of the group that are ready as well.
StorePreview ==
  /\ wk.pc = "preparing"
  /\ \E mates \in SUBSET {j \in Grouped : j > At /\ At \in Grouped /\ ~Authorized
                            /\ wk.steps[j].status = "awaiting" /\ apprs[j].status = "pending"} :
       apprs' = [i \in Consequential |->
                   IF i = At
                   THEN [status  |-> IF Authorized THEN "approved"
                                     ELSE IF Mine.status = "pending" THEN "pending"
                                     ELSE apprs[i].status,
                         preview |-> Mine.args, grouped |-> mates # {}]
                   ELSE IF i \in mates
                   THEN [apprs[i] EXCEPT !.preview = wk.steps[i].args, !.grouped = TRUE]
                   ELSE apprs[i]]
  /\ rev' = wk.rev
  /\ IF Authorized
     THEN /\ wk' = [wk EXCEPT !.pc = "step", !.steps[At].status = "pending"]
          /\ steps' = [steps EXCEPT ![At].status = "pending"]
          /\ UNCHANGED <<status, reapprove>>
     ELSE /\ wk' = Idle
          /\ steps' = [steps EXCEPT ![At].status =
                         IF Mine.status = "pending" THEN "awaiting" ELSE @]
          /\ status' = StoreStatus(status, "running", "awaiting_approval") /\ reapprove' = FALSE
  /\ UNCHANGED <<direct, approved, plan, docs, due, req, hist, faults>>

\* The step is sent with the arguments the session has loaded, and recorded.
ExecuteStep ==
  /\ wk.pc = "step" /\ At <= N /\ Mine.status \in {"pending", "failed"}
  /\ PendingReview(wk.steps, wk.rev) = {}
  /\ At \in Consequential => Matches
  /\ sent' = [sent EXCEPT ![At] = [args |-> Mine.args, under |-> wk.snap]]
  /\ steps' = [steps EXCEPT ![At].status = "completed"]
  /\ LET rs == [wk.steps EXCEPT ![At].status = "completed"] IN
       IF PendingReview(rs, wk.rev) # {}
       THEN PauseForReview(rs, wk.rev) /\ wk' = Idle
       ELSE /\ wk' = [wk EXCEPT !.at = @ + 1, !.steps = rs] /\ rev' = wk.rev
            /\ UNCHANGED <<status, reapprove>>
  /\ UNCHANGED <<direct, approved, plan, docs, apprs, due, req, refused, raced, faults>>

\* The end of the plan: a last review, then the result.
FinishRun ==
  /\ wk.pc = "step" /\ At > N /\ wk' = Idle
  /\ IF PendingReview(wk.steps, wk.rev) # {}
     THEN PauseForReview(wk.steps, wk.rev)
     ELSE /\ status' = StoreStatus(status, "running",
                         IF \A i \in Steps : wk.steps[i].status = "completed"
                         THEN "completed" ELSE "failed")
          /\ UNCHANGED <<reapprove, rev>>
  /\ UNCHANGED <<direct, approved, plan, docs, steps, apprs, due, req, hist, faults>>

\* The process dies; PostgreSQL frees the lock.
Crash ==
  /\ wk # Idle /\ faults < MaxFaults /\ faults' = faults + 1 /\ wk' = Idle
  /\ UNCHANGED <<direct, rows, due, req, hist>>

\* recover_stale_runs: a running run without a delivery gets one.
Sweep ==
  /\ status \in Executable /\ wk = Idle /\ due = 0 /\ due' = 1
  /\ UNCHANGED <<direct, rows, wk, req, hist, faults>>
-------------------------------------------------------------------------------
\* Requests

Quiet(c) == wk = Idle /\ \A d \in Clients \ {c} : req[d] = NoRequest

\* What a request has loaded is not what is stored any more.
Stale(c) == req[c].run # run \/ req[c].steps # steps \/ req[c].apprs # apprs \/ wk # Idle

\* _requires_plan_reapproval
RequiresReapproval == status = "waiting_for_action" /\ reapprove

Load(c, r) == req' = [req EXCEPT ![c] = [run |-> run, steps |-> steps, apprs |-> apprs, rev |-> rev,
                                         want |-> r]]
Leave(c)   == req' = [req EXCEPT ![c] = NoRequest]

\* approve_plan reads the run: it is a draft, or its review has to be repeated.
\* A step with a recorded result is not edited.
ReadStart(c) ==
  /\ req[c] = NoRequest /\ (~approved \/ RequiresReapproval)
  /\ \E p \in Plans, enabled, between, exec \in BOOLEAN :
       /\ \A i \in Steps : steps[i].status = "completed" => p[i] = plan[i]
       /\ (exec => enabled) /\ (enabled \/ between)
       /\ Load(c, [kind |-> "start", plan |-> p, enabled |-> enabled, between |-> between,
                   exec |-> exec, again |-> RequiresReapproval])
  /\ UNCHANGED <<direct, rows, due, wk, hist, faults>>

\* The person rejects the plan.
RejectPlan ==
  /\ ~approved \/ RequiresReapproval
  /\ MayTransition(status, "cancelled", FALSE) /\ status' = "cancelled"
  /\ UNCHANGED <<direct, reapprove, approved, plan, docs, steps, apprs, rev, due, wk, req, hist,
                 faults>>

\* A new version follows the latest, which it supersedes while it is a draft.
NewVersion(p) ==
  /\ Len(versions) < MaxVersions
  /\ versions' =
       Append([v \in DOMAIN versions |->
                 IF v = Len(versions) /\ versions[v].status = "draft"
                 THEN [versions[v] EXCEPT !.status = "superseded"] ELSE versions[v]],
              [status |-> "approved", plan |-> p])

\* The version that approve_plan approves: the draft, edited in place in direct
\* mode; a new version for an edit or a repeated review; the latest as it is.
ApproveVersion(p, edited, again) ==
  LET latest == versions[Len(versions)] IN
    IF edited /\ direct /\ latest.status = "draft"
    THEN versions' = [versions EXCEPT ![Len(versions)] = [status |-> "approved", plan |-> p]]
    ELSE IF edited \/ again THEN NewVersion(p)
    ELSE /\ latest.plan = p
         /\ versions' = [versions EXCEPT ![Len(versions)].status = "approved"]

\* A version has at most one snapshot (UNIQUE plan_version_id).
Snapshot(p) ==
  /\ \A k \in DOMAIN snaps : snaps[k].version # Len(versions')
  /\ snaps' = Append(snaps, [version |-> Len(versions'), plan |-> p])

\* approve_plan writes: the version and its snapshot, the steps, the approvals
\* reset to "preparing", the review mode, and the run.
WriteStart(c) ==
  /\ req[c] # NoRequest /\ req[c].want.kind = "start"
  /\ LET r == req[c]  w == r.want  edited == w.plan # r.run[4] IN
       /\ ApproveVersion(w.plan, edited, w.again) /\ Snapshot(w.plan)
       /\ plan' = w.plan /\ approved' = TRUE
       /\ steps' = [i \in Steps |->
            [status |-> IF r.steps[i].status = "completed" \/ i \notin Consequential
                        THEN steps[i].status
                        ELSE StoreStatus(steps[i].status, r.steps[i].status, "awaiting"),
             args   |-> IF edited THEN w.plan[i] ELSE steps[i].args]]
       /\ apprs' = [i \in Consequential |->
            IF r.steps[i].status = "completed" THEN apprs[i]
            ELSE [status |-> "pending", preview |-> NoArgs, grouped |-> FALSE]]
       /\ rev' = [enabled |-> w.enabled, between |-> w.between, pending |-> {},
                  exec |-> IF w.exec THEN w.plan ELSE <<>>, reviewed |-> r.rev.reviewed]
       /\ MayTransition(r.run[1], "running", FALSE) /\ status' = "running" /\ reapprove' = FALSE
       /\ due' = due + 1 /\ Leave(c)
       /\ raced' = (raced \/ Stale(c)) /\ refused' = {}
  /\ UNCHANGED <<direct, wk, sent, faults>>

\* decide_approval loads a pending approval; only a ready preview is approved.
ReadDecision(c, i) ==
  /\ req[c] = NoRequest /\ apprs[i].status = "pending"
  /\ \/ Load(c, [kind |-> "reject", at |-> i])
     \/ /\ apprs[i].preview # NoArgs
        /\ \E a \in Args \cup {NoArgs} : Load(c, [kind |-> "approve", at |-> i, edit |-> a])
  /\ UNCHANGED <<direct, rows, due, wk, hist, faults>>

\* The stored preview is refreshed for review, and leaves its group.
RefreshPreview(c) ==
  /\ req[c] # NoRequest /\ req[c].want.kind = "approve"
  /\ \E a \in Args : apprs' = [apprs EXCEPT ![req[c].want.at].preview = a,
                                            ![req[c].want.at].grouped = FALSE]
  /\ Leave(c) /\ raced' = (raced \/ Stale(c))
  /\ UNCHANGED <<direct, run, docs, steps, rev, due, wk, sent, refused, faults>>

\* An edited action is a version of the whole plan as the request has loaded it.
EditAction(i, a, r) ==
  LET p == [r.run[4] EXCEPT ![i] = a] IN
    /\ ApprovedV # {} /\ snaps # <<>> /\ Last(ApprovedV) = Len(versions)
    /\ plan' = p /\ NewVersion(p) /\ Snapshot(p)

\* Mutant: the action that is being decided counts as undecided.
GroupWaitingItself(i, r) ==
  r.apprs[i].grouped /\ \E j \in Consequential : r.apprs[j].status = "pending" /\ r.apprs[j].grouped

\* Are other actions of the group still undecided?
GroupWaiting(i, r) ==
  /\ r.apprs[i].grouped
  /\ \E j \in Consequential \ {i} : /\ r.apprs[j].status = "pending" /\ r.apprs[j].grouped
                                    /\ r.apprs[j].preview # NoArgs

\* The run goes on when the whole group is decided.
Dispatch(i, r) ==
  IF GroupWaiting(i, r)
  THEN /\ status' = StoreStatus(status, r.run[1], "awaiting_approval") /\ due' = due
       /\ reapprove' = reapprove
  ELSE /\ status' = StoreStatus(status, r.run[1], "running") /\ due' = due + 1
       /\ reapprove' = FALSE

MayDecide(c) == MayTransition(req[c].run[1], "running", TRUE)

WriteApproval(c) ==
  /\ req[c] # NoRequest /\ req[c].want.kind = "approve" /\ MayDecide(c)
  /\ LET r == req[c]  i == r.want.at
         a == IF r.want.edit = NoArgs THEN r.apprs[i].preview ELSE r.want.edit IN
       /\ IF r.want.edit # NoArgs \/ a # r.steps[i].args
          THEN EditAction(i, a, r) ELSE UNCHANGED <<plan, docs>>
       /\ apprs' = [apprs EXCEPT ![i] = [@ EXCEPT !.status = "approved", !.preview = a]]
       /\ steps' = [steps EXCEPT ![i] =
            [status |-> StoreStatus(steps[i].status, r.steps[i].status, "pending"),
             args |-> IF r.want.edit # NoArgs \/ a # r.steps[i].args THEN a ELSE @.args]]
       /\ Dispatch(i, r)
  /\ Leave(c) /\ raced' = (raced \/ Stale(c))
  /\ UNCHANGED <<direct, approved, rev, wk, sent, refused, faults>>

\* Mutant: the step is released whatever the decision.
WriteRejectionPending(c) ==
  /\ req[c] # NoRequest /\ req[c].want.kind = "reject" /\ MayDecide(c)
  /\ LET r == req[c]  i == r.want.at IN
       /\ apprs' = [apprs EXCEPT ![i].status = "rejected"]
       /\ steps' = [steps EXCEPT ![i].status = "pending"]
       /\ Dispatch(i, r)
       /\ refused' = IF Quiet(c) /\ ~Stale(c) THEN refused \cup {i} ELSE refused
  /\ Leave(c) /\ raced' = (raced \/ Stale(c))
  /\ UNCHANGED <<direct, approved, plan, docs, rev, wk, sent, faults>>

WriteRejection(c) ==
  /\ req[c] # NoRequest /\ req[c].want.kind = "reject" /\ MayDecide(c)
  /\ LET r == req[c]  i == r.want.at IN
       /\ apprs' = [apprs EXCEPT ![i].status = "rejected"]
       /\ steps' = [steps EXCEPT ![i].status =
                      StoreStatus(steps[i].status, r.steps[i].status, "skipped")]
       /\ Dispatch(i, r)
       /\ refused' = IF Quiet(c) /\ ~Stale(c) THEN refused \cup {i} ELSE refused
  /\ Leave(c) /\ raced' = (raced \/ Stale(c))
  /\ UNCHANGED <<direct, approved, plan, docs, rev, wk, sent, faults>>

\* A constraint or a check refuses the request, and it is rolled back.
Abort(c) ==
  /\ req[c] # NoRequest /\ Leave(c)
  /\ UNCHANGED <<direct, rows, due, wk, hist, faults>>
-------------------------------------------------------------------------------
\* The planner has stored its draft and offers it (Planning).
Init ==
  /\ direct \in BOOLEAN /\ status = "awaiting_approval" /\ reapprove = TRUE /\ approved = FALSE
  /\ plan \in {[i \in Steps |-> a] : a \in Args}
  /\ versions = <<[status |-> "draft", plan |-> plan]>> /\ snaps = <<>>
  /\ steps = [i \in Steps |-> [status |-> "pending", args |-> plan[i]]]
  /\ apprs = [i \in Consequential |-> [status |-> "none", preview |-> NoArgs, grouped |-> FALSE]]
  /\ rev = NoReview /\ due = 0 /\ wk = Idle /\ req = [c \in Clients |-> NoRequest]
  /\ sent = [i \in Steps |-> [args |-> NoArgs, under |-> 0]]
  /\ refused = {} /\ raced = FALSE /\ faults = 0

Work ==
  /\ wk # Idle
  /\ \/ Pass \/ LoadApproval \/ MissApproval \/ StorePreview
     \/ RefuseDispatch \/ ExecuteStep \/ FinishRun
Write(c) == WriteStart(c) \/ RefreshPreview(c) \/ WriteApproval(c) \/ WriteRejection(c) \/ Abort(c)

Next ==
  \/ Begin \/ MissLock \/ Sweep \/ Crash \/ Work
  \/ ReviewOutput \/ ResumeReviewedPlan \/ RejectPlan
  \/ \E c \in Clients : Write(c) \/ ReadStart(c) \/ \E i \in Consequential : ReadDecision(c, i)

Spec == Init /\ [][Next]_vars
-------------------------------------------------------------------------------
\* Properties

\* Every row has its shape.
TypeOK ==
  /\ {direct, reapprove, approved, raced} \subseteq BOOLEAN /\ status \in RunStatus
  /\ plan \in Plans /\ steps \in StepRows
  /\ versions \in Seq([status : {"draft", "superseded", "approved"}, plan : Plans])
  /\ \A k \in DOMAIN snaps : snaps[k].version \in DOMAIN versions /\ snaps[k].plan \in Plans
  /\ apprs \in [Consequential -> [status : {"none", "pending", "approved", "rejected"},
                                  preview : Args \cup {NoArgs}, grouped : BOOLEAN]]
  /\ rev \in [enabled : BOOLEAN, between : BOOLEAN, exec : Plans \cup {<<>>},
              pending : SUBSET Steps, reviewed : SUBSET Steps]
  /\ refused \subseteq Consequential /\ faults \in 0..MaxFaults

\* A version somebody has approved is never changed (main.py:7386): not by a
\* second Start, an edit of a draft in place, or the edit of an action.
ApprovedVersionsFrozen ==
  [][\A k \in DOMAIN snaps :
       /\ snaps'[k] = snaps[k]
       /\ versions'[snaps[k].version].plan = versions[snaps[k].version].plan]_vars

\* What was sent is what the snapshot says that the delivery ran under, and
\* that snapshot is the one of an approved version with the same content.
SentUnderSnapshot ==
  \A i \in Steps : sent[i].args # NoArgs =>
    /\ snaps[sent[i].under].plan[i] = sent[i].args
    /\ versions[snaps[sent[i].under].version].plan = snaps[sent[i].under].plan

\* With a review between tools, no action of a next tool is sent before the
\* results of the tools before it have been reviewed (orchestrator.py:2789): the
\* session has loaded their review, and it is stored, unless requests have raced.
ReviewedBeforeNextTool ==
  [][\A i, j \in Steps :
       /\ sent'[j] # sent[j] /\ wk.rev.enabled /\ wk.rev.between
       /\ i < j /\ Tool[i] # Tool[j] /\ steps[i].status = "completed"
       => i \in wk.rev.reviewed /\ (i \in rev.reviewed \/ raced)]_vars

\* An action that was refused while nothing else was going on is not sent,
\* unless the whole plan is started again.
RefusalHolds == [][\A i \in refused : sent'[i] = sent[i]]_vars

\* What a person has decided stays decided: an approved version keeps its
\* content, and a refused action is not sent.
DecisionsHold == ApprovedVersionsFrozen /\ RefusalHolds

\* A run that waits for a person has something to decide: unless requests have
\* overtaken each other or the worker, an approved run that waits for approval
\* shows an action or an output.
SomethingToDecide ==
  /\ TypeOK
  /\ status = "awaiting_approval" /\ approved /\ ~raced => Undecided # {} \/ rev.pending # {}
================================================================================
