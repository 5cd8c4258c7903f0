--------------------------- MODULE RunStateMachine ---------------------------
(***************************************************************************)
(* The persisted status of a workflow run and the edges the run supervisor *)
(* lets a component take (run_supervisor.py, transition_run), together     *)
(* with the outbox row each edge produces by itself.                       *)
(*                                                                         *)
(* A component asks for a transition with the status its own session has   *)
(* loaded, not with the status in the database: the row carries no         *)
(* version, and the UPDATE names only the columns the session has changed. *)
(***************************************************************************)

RunStatus == {"queued", "planning", "awaiting_approval", "running", "recovering",
              "waiting_for_action", "failed", "blocked", "completed", "cancelled"}

AllowedTransitions ==
  [queued             |-> {"planning", "waiting_for_action", "blocked", "cancelled"},
   planning           |-> {"queued", "awaiting_approval", "waiting_for_action", "blocked",
                           "cancelled"},
   awaiting_approval  |-> {"planning", "running", "waiting_for_action", "cancelled"},
   running            |-> {"awaiting_approval", "waiting_for_action", "recovering", "failed",
                           "completed", "cancelled", "blocked"},
   recovering         |-> RunStatus \ {"recovering"},
   waiting_for_action |-> {"queued", "planning", "running", "recovering",
                           "awaiting_approval", "cancelled", "blocked"},
   failed             |-> {"recovering", "awaiting_approval", "waiting_for_action", "blocked",
                           "cancelled"},
   blocked            |-> {"queued", "planning", "recovering", "waiting_for_action",
                           "cancelled"},
   completed          |-> {},
   cancelled          |-> {}]

Terminal == {s \in RunStatus : AllowedTransitions[s] = {}}

\* The statuses in which a delivery may execute the plan.
Executable == {"running", "recovering"}

\* transition_run accepts the edge from the status the caller loaded.
MayTransition(loaded, target, allowSame) ==
  IF target = loaded THEN allowSame ELSE target \in AllowedTransitions[loaded]

\* The UPDATE of the status column: a session that ends with the status it
\* loaded leaves the column alone, any other overwrites what is stored.
StoreStatus(stored, loaded, target) == IF target = loaded THEN stored ELSE target

\* The kind of the outbox row an edge produces when its caller leaves
\* dispatch to the supervisor.
AutomaticDispatch(loaded, target) ==
  CASE target = "queued" -> "plan"
    [] target = "recovering" -> "execute"
    [] target = "running" /\ loaded \in {"awaiting_approval", "waiting_for_action"} -> "execute"
    [] target = "completed" -> "memory"
    [] OTHER -> "none"
==============================================================================
