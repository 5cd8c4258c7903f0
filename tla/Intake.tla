------------------------------- MODULE Intake -------------------------------
(***************************************************************************)
(* How work comes in without a person who waits for it: signed webhooks    *)
(* and keyed requests, polls, and schedules of workflows and of processes  *)
(* (main.py, polling_runtime.py, scheduler_runtime.py, process_runtime.py, *)
(* worker.py, trigger_runtime.py).                                         *)
(*                                                                         *)
(* Grain.  A request reads in one step and commits in a later one, a pass  *)
(* of the scheduler too; rows read FOR UPDATE stay locked in between.  A   *)
(* workspace has the sources of one part: keys, a poll, or a schedule.     *)
(***************************************************************************)
EXTENDS Naturals, Sequences, FiniteSets

CONSTANTS
  Parts,       \* the parts checked: "keys", "poll", "workflow", "process"
  Hooks,       \* event ids of a webhook
  Requests,    \* values of the Idempotency-Key header
  Contents,    \* what an event says, and what a poll reads
  Clients,     \* deliveries, requests and changes under way at once
  Messages,    \* messages of a poll in the broker
  MaxRuns,     \* bound: runs, replays included
  MaxTime,     \* bound: the clock
  MaxChanges,  \* bound: changes to a schedule, a page, a role or a source
  MaxFaults,   \* bound: failed polls and crashes; at most max_retries
  None

Keys == Hooks \cup Requests

ASSUME IntakeAssumption ==
  /\ Parts \subseteq {"keys", "poll", "workflow", "process"}
  /\ Hooks \cap Requests = {} /\ Keys \cap Contents = {} /\ None \notin Contents \cup Clients
  /\ None \notin [content : Contents \cup {None}, run : 1..MaxRuns]
  /\ {MaxRuns, MaxTime, MaxChanges} \subseteq Nat /\ MaxFaults \in 0..3

VARIABLES
  part,     \* the part of this workspace; does not change
  runs,     \* workflow_runs
  claim,    \* webhook_deliveries and request keys: the content and the run
  replays,  \* deliveries that replay another one, by the run they replay
  open,     \* the webhook subscription is active
  cli,      \* what a request has read and not yet committed
  answer,   \* history: the runs that the callers of a key were told
  page,     \* what the polled operation returns, None while its tool is off
  sub,      \* polling_subscriptions, with its polling_deliveries
  msg,      \* messages of the poll
  now,      \* the clock
  sch,      \* workflow_schedules, or process_definitions with a schedule
  role,     \* the membership of the schedule's creator
  source,   \* the workflow, and its latest completed and approved run
  pass,     \* what a pass of the scheduler has read and not yet committed
  due,      \* runs and cases that a schedule has started
  changes, faults,
  crossed   \* history: a change has stored an occurrence that was due since

vars == <<part, runs, claim, replays, open, cli, answer, page, sub, msg, now, sch, role, source,
          pass, due, changes, faults, crossed>>
keyed == <<claim, replays, open, answer>>
polled == <<page, sub, msg>>
scheduled == <<now, sch, role, source, pass, due, crossed>>

Idle == [kind |-> "idle"]

Modes == {"review", "writes", "auto"}

Delivery == [content : Contents \cup {None}, run : 1..MaxRuns]

\* The payload hashes of its deliveries are in "seen".
Subscription == [st : {"none", "stored", "on", "off"}, first : BOOLEAN,
                 last : Contents \cup {None}, seen : SUBSET Contents]

\* "was" is created_by_role.
Schedule == [st : {"none", "on", "off", "gone"}, mode : Modes, every : {1, 2}, next : Nat,
             was : {"admin", "member", "none"}]

Run == [key : Keys \cup Contents, st : {"open", "failed", "completed"}, acted : BOOLEAN]

NewRun(key) == Append(runs, [key |-> key, st |-> "open", acted |-> FALSE])
-------------------------------------------------------------------------------
\* Webhooks and keyed requests

\* classify_delivery
Same(k, x) == claim[k].content = x

\* What a caller of a key that is taken is told: the run of the first one.
Replayed(k, x) ==
  answer' = IF Same(k, x) THEN [answer EXCEPT ![k] = @ \cup {claim[k].run}] ELSE answer

Ask(c, k, x) ==
  /\ part = "keys" /\ cli[c] = Idle
  /\ IF claim[k] # None
     THEN Replayed(k, x) /\ claim[k].run \notin answer[k] /\ UNCHANGED cli
     ELSE cli' = [cli EXCEPT ![c] = [kind |-> "key", key |-> k, content |-> x]] /\ UNCHANGED answer
  /\ UNCHANGED <<part, runs, claim, replays, open, polled, scheduled, changes, faults>>

\* receive_webhook up to the claim of the event's id, the signature verified.
ReceiveWebhook(c, k, x) == open /\ Ask(c, k, x)

\* create_run up to the claim of its request_key; without a content to compare.
CreateRun(c, k) == Ask(c, k, None)

\* The claim and the run in one transaction.  A claim of the same key that was
\* faster has been waited for, and its run is the answer.
Claim(c) ==
  LET k == cli[c].key  x == cli[c].content
  IN /\ IF claim[k] # None THEN Replayed(k, x) /\ UNCHANGED <<runs, claim>>
        ELSE /\ Len(runs) < MaxRuns
             /\ runs' = NewRun(k)
             /\ claim' = [claim EXCEPT ![k] = [content |-> x, run |-> Len(runs) + 1]]
             /\ answer' = [answer EXCEPT ![k] = @ \cup {Len(runs) + 1}]
     /\ cli' = [cli EXCEPT ![c] = Idle]
     /\ UNCHANGED <<part, replays, open, polled, scheduled, changes, faults>>

\* receive_webhook, from the savepoint of the delivery to its commit.
ClaimDelivery(c) == cli[c].kind = "key" /\ cli[c].key \in Hooks /\ Claim(c)

\* create_run, from the flush of the run to its commit.
ClaimRequest(c) == cli[c].kind = "key" /\ cli[c].key \in Requests /\ Claim(c)

\* delivery_can_be_replayed
Replayable(run) == run.st = "failed" /\ ~run.acted

\* replay_webhook_delivery
Replay(k) ==
  /\ part = "keys" /\ open /\ claim[k] # None
  /\ Replayable(runs[claim[k].run]) /\ Len(runs) < MaxRuns
  /\ runs' = NewRun(k)
  /\ replays' = [replays EXCEPT ![k] = @ + 1]
  /\ UNCHANGED <<part, claim, open, cli, answer, polled, scheduled, changes, faults>>

\* disable_webhook_subscription
DisableHook ==
  /\ part = "keys" /\ open
  /\ open' = FALSE
  /\ UNCHANGED <<part, runs, claim, replays, cli, answer, polled, scheduled, changes, faults>>

\* A run completes a step, completes, or fails, and a failed one is taken up again.
RunMoves(i) ==
  /\ part = "keys"
  /\ \/ runs[i].st = "open" /\ runs' = [runs EXCEPT ![i].acted = TRUE]
     \/ runs[i].st = "open" /\ runs[i].acted /\ runs' = [runs EXCEPT ![i].st = "completed"]
     \/ runs[i].st = "open" /\ runs' = [runs EXCEPT ![i].st = "failed"]
     \/ runs[i].st = "failed" /\ faults < MaxFaults /\ runs' = [runs EXCEPT ![i].st = "open"]
  /\ faults' = IF runs[i].st = "failed" THEN faults + 1 ELSE faults
  /\ UNCHANGED <<part, keyed, cli, polled, scheduled, changes>>
-------------------------------------------------------------------------------
\* Polls

\* create_polling_subscription, and the message it sends after its commit.
Subscribe(first) ==
  /\ part = "poll" /\ sub.st = "none" /\ page # None
  /\ sub' = [sub EXCEPT !.st = "stored", !.first = first]
  /\ UNCHANGED <<part, runs, keyed, cli, page, msg, scheduled, changes, faults>>

SendFirst(m) ==
  /\ sub.st = "stored"
  /\ sub' = [sub EXCEPT !.st = "on"]
  /\ msg' = [msg EXCEPT ![m] = [st |-> "ready", tries |-> 0]]
  /\ UNCHANGED <<part, runs, keyed, cli, page, scheduled, changes, faults>>

Locked == \E m \in Messages : msg[m].st = "polling"

\* disable_polling_subscription, or the disconnection of its account; it waits
\* for a poll that has locked the row.
Unsubscribe ==
  /\ sub.st \in {"stored", "on"} /\ ~Locked
  /\ sub' = [sub EXCEPT !.st = "off"]
  /\ UNCHANGED <<part, runs, keyed, cli, page, msg, scheduled, changes, faults>>

\* poll_subscription_task takes a message; an inactive subscription ends it.
TakePoll(m) ==
  /\ msg[m].st = "ready" /\ ~Locked
  /\ msg' = [msg EXCEPT ![m].st = IF sub.st = "off" THEN "none" ELSE "polling"]
  /\ UNCHANGED <<part, runs, keyed, cli, page, sub, scheduled, changes, faults>>

\* should_trigger_poll
ShouldTrigger(x) == IF sub.last = None THEN sub.first ELSE sub.last # x

\* Mutant: a page that was delivered before starts a run again.
DeliverAgain(x) == runs' = NewRun(x) /\ sub' = [sub EXCEPT !.last = x, !.seen = @ \cup {x}]

\* The delivery of a page and its run, unless that page was delivered before.
Deliver(x) ==
  /\ runs' = IF x \in sub.seen THEN runs ELSE NewRun(x)
  /\ sub' = [sub EXCEPT !.last = x, !.seen = @ \cup {x}]

\* poll_subscription reads the page and commits the fingerprint, the checkpoint,
\* the delivery and the run together.  A tool that is off is not read.
Poll(m) ==
  /\ msg[m].st = "polling"
  /\ IF page = None THEN UNCHANGED <<runs, sub>>
     ELSE IF ShouldTrigger(page) THEN Deliver(page)
     ELSE sub' = [sub EXCEPT !.last = page] /\ UNCHANGED runs
  /\ msg' = [msg EXCEPT ![m].st = "polled"]
  /\ UNCHANGED <<part, keyed, cli, page, scheduled, changes, faults>>

\* The task sends its successor, and is acknowledged after that.
SendNext(m, n) ==
  /\ msg[m].st = "polled" /\ msg[n].st = "none"
  /\ msg' = [msg EXCEPT ![m].st = "sent", ![n] = [st |-> "ready", tries |-> 0]]
  /\ UNCHANGED <<part, runs, keyed, cli, page, sub, scheduled, changes, faults>>

Acknowledge(m) ==
  /\ msg[m].st = "sent"
  /\ msg' = [msg EXCEPT ![m].st = "none"]
  /\ UNCHANGED <<part, runs, keyed, cli, page, sub, scheduled, changes, faults>>

\* An exception rolls the poll back; the task is retried max_retries times.
PollFails(m) ==
  /\ msg[m].st = "polling" /\ faults < MaxFaults
  /\ msg' = [msg EXCEPT ![m] = IF @.tries = 3 THEN [st |-> "none", tries |-> 0]
                               ELSE [st |-> "ready", tries |-> @.tries + 1]]
  /\ faults' = faults + 1
  /\ UNCHANGED <<part, runs, keyed, cli, page, sub, scheduled, changes>>

\* Mutant: a message is acknowledged when it is taken.
WorkerDiesEarlyAck(m) ==
  /\ msg[m].st \in {"polling", "polled", "sent"} /\ faults < MaxFaults
  /\ msg' = [msg EXCEPT ![m].st = "none"]
  /\ faults' = faults + 1
  /\ UNCHANGED <<part, runs, keyed, cli, page, sub, scheduled, changes>>

\* A worker dies: its message was not acknowledged and is delivered again, with
\* task_acks_late and task_reject_on_worker_lost.
WorkerDies(m) ==
  /\ msg[m].st \in {"polling", "polled", "sent"} /\ faults < MaxFaults
  /\ msg' = [msg EXCEPT ![m].st = "ready"]
  /\ faults' = faults + 1
  /\ UNCHANGED <<part, runs, keyed, cli, page, sub, scheduled, changes>>

\* The provider's data change, or the tool is turned off and on.
PageChanges(x) ==
  /\ part = "poll" /\ page # x /\ changes < MaxChanges
  /\ page' = x /\ changes' = changes + 1
  /\ UNCHANGED <<part, runs, keyed, cli, sub, msg, scheduled, faults>>
-------------------------------------------------------------------------------
\* Schedules

\* next_calendar_occurrence: the first multiple of the cadence after a time.
NextOccurrence(after, every) == ((after \div every) + 1) * every

others == <<part, runs, keyed, polled>>

\* A pass holds the row.
Late == pass # Idle

Started(mode, every) ==
  [st |-> "on", mode |-> mode, every |-> every, next |-> NextOccurrence(now, every), was |-> role]

\* create_workflow_schedule: from a completed and approved run of one's own; an
\* automatic one needs one's own approval, and an administrator.
CreateSchedule(mode, every) ==
  /\ part = "workflow" /\ sch.st = "none" /\ role # "none"
  /\ mode = "auto" => source.by = "creator" /\ role = "admin"
  /\ sch' = Started(mode, every)
  /\ source' = [source EXCEPT !.enabled = TRUE]
  /\ UNCHANGED <<others, cli, now, role, pass, due, changes, faults, crossed>>

\* The key of an occurrence, schedule:<id>:<time> or process-schedule:<id>:<time>.
Taken(t) == \E i \in 1..Len(due) : due[i].at = t

\* start_process_instance: a dedupe_key that exists leaves the case as it is.
StartCase(t) == IF Taken(t) THEN due ELSE Append(due, [at |-> t, mode |-> "case"])

\* create_process_definition; its approval mode is its cases' (ProcessCoordinator).
\* With start_immediately it also starts a case, whose key is no occurrence's.
CreateProcess(every, immediately) ==
  /\ part = "process" /\ sch.st = "none" /\ role # "none"
  /\ sch' = Started("review", every)
  /\ due' = IF immediately THEN StartCase(0) ELSE due
  /\ UNCHANGED <<others, cli, now, role, source, pass, changes, faults, crossed>>

\* The rows that a pass locks; FOR UPDATE SKIP LOCKED leaves them to it.
DueNow == sch.st = "on" /\ sch.next <= now

\* Mutant: the role that the creator had when the schedule was made.
WritesAllowedOnce == sch.was = "admin"

\* Whether the creator may let external writes run unattended.
WritesAllowed == role = "admin"

\* build_approved_workflow_run: the creator has left, the approved plan was
\* changed or the policy blocks it, or an automatic run lacks its authority.
NeedsReview ==
  \/ sch.mode = "review" \/ role = "none" \/ ~source.sound
  \/ sch.mode = "auto" /\ (source.by # "creator" \/ ~WritesAllowed)

ReviewRun(t) == [at |-> t, mode |-> "review"]

\* A copy of the approved run, with approvals that are pending or given.
ApprovedRun(t) == [at |-> t, mode |-> sch.mode]

\* dispatch_due_schedules up to its commit; the schedule of a workflow that was
\* disabled is turned off.
BeginPass ==
  /\ part = "workflow" /\ ~Late /\ DueNow
  /\ IF source.enabled
     THEN pass' = [kind |-> "pass", next |-> NextOccurrence(now, sch.every),
                   start |-> IF NeedsReview THEN ReviewRun(sch.next) ELSE ApprovedRun(sch.next)]
          /\ UNCHANGED sch
     ELSE sch' = [sch EXCEPT !.st = "off"] /\ UNCHANGED pass
  /\ UNCHANGED <<others, cli, now, role, source, due, changes, faults, crossed>>

\* Mutant: a schedule that needs a review does not move on.
CommitPassReview ==
  /\ part = "workflow" /\ Late
  /\ IF Taken(pass.start.at) THEN UNCHANGED <<due, sch>>
     ELSE /\ due' = Append(due, pass.start)
          /\ sch' = IF pass.start.mode = "review" THEN sch ELSE [sch EXCEPT !.next = pass.next]
  /\ pass' = Idle
  /\ UNCHANGED <<others, cli, now, role, source, changes, faults, crossed>>

\* A run whose request_key exists makes the whole transaction fail.
CommitPass ==
  /\ part = "workflow" /\ Late
  /\ IF Taken(pass.start.at) THEN UNCHANGED <<due, sch>>
     ELSE due' = Append(due, pass.start) /\ sch' = [sch EXCEPT !.next = pass.next]
  /\ pass' = Idle
  /\ UNCHANGED <<others, cli, now, role, source, changes, faults, crossed>>

\* _trigger_due_definitions, and the commit of dispatch_due_processes.
BeginTrigger ==
  /\ part = "process" /\ ~Late /\ DueNow
  /\ pass' = [kind |-> "pass", next |-> NextOccurrence(now, sch.every),
              start |-> [at |-> sch.next, mode |-> "case"]]
  /\ UNCHANGED <<others, cli, now, sch, role, source, due, changes, faults, crossed>>

CommitTrigger ==
  /\ part = "process" /\ Late
  /\ due' = StartCase(pass.start.at)
  /\ sch' = [sch EXCEPT !.next = pass.next]
  /\ pass' = Idle
  /\ UNCHANGED <<others, cli, now, role, source, changes, faults, crossed>>

\* A case completes or is stopped.
CaseEnds(i) ==
  /\ due[i].mode = "case"
  /\ due' = [due EXCEPT ![i].mode = "done"]
  /\ UNCHANGED <<others, cli, now, sch, role, source, pass, changes, faults, crossed>>

\* A change whose value is the stored one writes nothing.
Change(field, value, next) ==
  [kind |-> "change", field |-> field, value |-> IF value = sch[field] THEN None ELSE value,
   next |-> IF next = sch.next THEN None ELSE next]

\* update_workflow_schedule reads the schedule, and computes its next
\* occurrence from the clock when it is enabled or its cadence changes.
AskChange(c, field, value) ==
  /\ part = "workflow" /\ sch.st \in {"on", "off"} /\ cli[c] = Idle
  /\ changes < MaxChanges
  /\ changes' = changes + 1
  /\ LET r == Change(field, value, CASE field = "every" -> NextOccurrence(now, value)
                                     [] value = "on" -> NextOccurrence(now, sch.every)
                                     [] OTHER -> None)
     IN (r.value # None \/ r.next # None) /\ cli' = [cli EXCEPT ![c] = r]
  /\ UNCHANGED <<others, scheduled, faults>>

\* update_process_definition: its cadence only while no case is active.
AskProcessChange(c, field, value) ==
  /\ part = "process" /\ sch.st \in {"on", "off"} /\ cli[c] = Idle
  /\ field = "every" => \A i \in 1..Len(due) : due[i].mode = "done"
  /\ field # "mode" /\ changes < MaxChanges
  /\ changes' = changes + 1
  /\ LET r == Change(field, value, CASE field = "every" -> NextOccurrence(now, value)
                                     [] value = "on" -> NextOccurrence(now, sch.every)
                                     [] OTHER -> None)
     IN (r.value # None \/ r.next # None) /\ cli' = [cli EXCEPT ![c] = r]
  /\ UNCHANGED <<others, scheduled, faults>>

\* The change is stored when no pass holds the row.
CommitChange(c) ==
  LET r == cli[c]
  IN /\ r.kind = "change" /\ ~Late
     /\ sch' = IF sch.st = "gone" THEN sch
               ELSE [sch EXCEPT ![r.field] = IF r.value = None THEN @ ELSE r.value,
                                !.next = IF r.next = None THEN @ ELSE r.next]
     /\ crossed' = (crossed \/ (r.next # None /\ r.next <= now))
     /\ cli' = [cli EXCEPT ![c] = Idle]
     /\ UNCHANGED <<others, now, role, source, pass, due, changes, faults>>

\* delete_workflow_schedule
DeleteSchedule ==
  /\ part = "workflow" /\ sch.st \in {"on", "off"} /\ ~Late
  /\ sch' = [sch EXCEPT !.st = "gone"]
  /\ UNCHANGED <<others, cli, now, role, source, pass, due, changes, faults, crossed>>

\* A pass dies before its commit.
PassDies ==
  /\ Late /\ faults < MaxFaults
  /\ pass' = Idle
  /\ faults' = faults + 1
  /\ UNCHANGED <<others, cli, now, sch, role, source, due, changes, crossed>>

\* A person signs in with another role, or loses the membership.
RoleChanges(r) ==
  /\ part = "workflow" /\ role # r /\ changes < MaxChanges
  /\ role' = r /\ changes' = changes + 1
  /\ UNCHANGED <<others, cli, now, sch, source, pass, due, faults, crossed>>

\* A run of the workflow completes that a person has reviewed, the creator or
\* another one, or the plan or the policy changes after its approval.
\* update_workflow turns the workflow on and off.
SourceChanges(src) ==
  /\ part = "workflow" /\ source # src /\ changes < MaxChanges
  /\ source' = src /\ changes' = changes + 1
  /\ UNCHANGED <<others, cli, now, sch, role, pass, due, faults, crossed>>

ClockTicks ==
  /\ part \in {"workflow", "process"} /\ now < MaxTime
  /\ now' = now + 1
  /\ UNCHANGED <<others, cli, sch, role, source, pass, due, changes, faults, crossed>>
-------------------------------------------------------------------------------
Init ==
  /\ part \in Parts
  /\ runs = <<>>
  /\ claim = [k \in Keys |-> None] /\ replays = [k \in Keys |-> 0] /\ open = TRUE
  /\ cli = [c \in Clients |-> Idle] /\ answer = [k \in Keys |-> {}]
  /\ page \in Contents
  /\ sub = [st |-> "none", first |-> FALSE, last |-> None, seen |-> {}]
  /\ msg = [m \in Messages |-> [st |-> "none", tries |-> 0]]
  /\ now = 0
  /\ sch = [st |-> "none", mode |-> "review", every |-> 1, next |-> 0, was |-> "none"]
  /\ role \in {"admin", "member"}
  /\ source = [by |-> "creator", sound |-> TRUE, enabled |-> TRUE]
  /\ pass = Idle /\ due = <<>>
  /\ changes = 0 /\ faults = 0 /\ crossed = FALSE

Edits == ({"st"} \X {"on", "off"}) \cup ({"mode"} \X Modes) \cup ({"every"} \X {1, 2})

Next ==
  \/ \E c \in Clients : \/ \E e \in Hooks, x \in Contents : ReceiveWebhook(c, e, x)
                         \/ \E k \in Requests : CreateRun(c, k)
                         \/ ClaimDelivery(c) \/ ClaimRequest(c) \/ CommitChange(c)
  \/ \E k \in Hooks : Replay(k)
  \/ \E i \in 1..Len(runs) : RunMoves(i)
  \/ \E first \in BOOLEAN : Subscribe(first)
  \/ \E m \in Messages : \/ SendFirst(m) \/ TakePoll(m) \/ Poll(m) \/ Acknowledge(m)
                         \/ PollFails(m) \/ WorkerDies(m)
  \/ \E m, n \in Messages : SendNext(m, n)
  \/ \E x \in Contents \cup {None} : PageChanges(x)
  \/ \E every \in {1, 2} : \/ \E mode \in Modes : CreateSchedule(mode, every)
                           \/ \E immediately \in BOOLEAN : CreateProcess(every, immediately)
  \/ BeginPass \/ CommitPass \/ BeginTrigger \/ CommitTrigger \/ PassDies
  \/ \E i \in 1..Len(due) : CaseEnds(i)
  \/ \E c \in Clients, edit \in Edits : \/ AskChange(c, edit[1], edit[2])
                                        \/ AskProcessChange(c, edit[1], edit[2])
  \/ \E r \in {"admin", "member", "none"} : RoleChanges(r)
  \/ \E src \in [by : {"creator", "other"}, sound : BOOLEAN, enabled : BOOLEAN] : SourceChanges(src)
  \/ DisableHook \/ Unsubscribe \/ DeleteSchedule \/ ClockTicks

Spec == Init /\ [][Next]_vars

\* Workers take what the broker delivers and finish it, and beat starts a pass
\* of the scheduler every 30 seconds.
FairSpec ==
  /\ Spec
  /\ \A m \in Messages : /\ WF_vars(SendFirst(m)) /\ SF_vars(TakePoll(m)) /\ WF_vars(Poll(m))
                         /\ WF_vars(\E n \in Messages : SendNext(m, n)) /\ WF_vars(Acknowledge(m))
  /\ WF_vars(BeginPass) /\ WF_vars(CommitPass) /\ WF_vars(BeginTrigger) /\ WF_vars(CommitTrigger)
-------------------------------------------------------------------------------
TypeOK ==
  /\ part \in Parts
  /\ \A i \in 1..Len(runs) : runs[i] \in Run
  /\ \A k \in Keys : claim[k] # None => claim[k] \in Delivery /\ claim[k].run <= Len(runs)
  /\ open \in BOOLEAN /\ page \in Contents \cup {None}
  /\ sub \in Subscription
  /\ msg \in [Messages -> [st : {"none", "ready", "polling", "polled", "sent"}, tries : 0..3]]
  /\ now \in 0..MaxTime /\ changes \in 0..MaxChanges /\ faults \in 0..MaxFaults
  /\ sch \in Schedule
  /\ role \in {"admin", "member", "none"}
  /\ \A i \in 1..Len(due) : due[i].mode \in Modes \cup {"case", "done"}

\* An event or a keyed request starts one run, however often and however nearly
\* at once it is delivered, and every caller is told that run; further runs of
\* an event are replays that an administrator has asked for.
OneRunPerKey ==
  \A k \in Keys :
    /\ Cardinality(answer[k]) <= 1
    /\ Cardinality({i \in 1..Len(runs) : runs[i].key = k}) <=
         replays[k] + (IF claim[k] = None THEN 0 ELSE 1)

\* A page starts one run, although its poll is delivered again after a crash
\* and two chains of messages may go on side by side.
OneRunPerPage ==
  \A x \in Contents : Cardinality({i \in 1..Len(runs) : runs[i].key = x}) <= 1

\* An occurrence of a schedule starts one run or case, whatever changes, crashes
\* and second passes do, and none is started ahead of its time.
OneRunPerOccurrence ==
  \A i, j \in 1..Len(due) : due[i].at <= now /\ (due[i].at = due[j].at => i = j)

\* One cause, one run: an event, a page or an occurrence starts a single run.
OneRunPerCause == TypeOK /\ OneRunPerKey /\ OneRunPerPage /\ OneRunPerOccurrence

\* A run is approved without a person for external writes only while the
\* creator of its schedule has the role for it, or lost it during the pass.
AutoOnlyWithRole ==
  [][~Late /\ pass'.kind = "pass" /\ pass'.start.mode = "auto" => role = "admin"]_vars

\* What a polled page has become is noticed while the subscription is active,
\* also after failed polls and crashes, fewer than the task has retries.
ChangeNoticed ==
  \A x \in Contents :
    sub.st = "on" /\ page = x ~> sub.st = "off" \/ page # x \/ sub.last = x

\* A schedule that is due is served, or turned off, unless a change has
\* brought back an occurrence that had been served.
DueIsServed == DueNow /\ ~crossed ~> ~DueNow \/ crossed
===============================================================================
