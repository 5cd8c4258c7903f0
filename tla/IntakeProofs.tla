----------------------------- MODULE IntakeProofs -----------------------------
(***************************************************************************)
(* One cause starts one run: an event or a key, a polled page, an          *)
(* occurrence of a schedule, for any number of keys, clients, messages,    *)
(* pages and runs, any clock and any crashes.                              *)
(*                                                                         *)
(* The argument.  Runs are counted by their cause.  A key whose claim is   *)
(* stored gets no run but by a replay, and its claim names the one run     *)
(* that callers are told; a page that has a run is among those delivered;  *)
(* what a pass is about to start has come due and is not yet taken.        *)
(***************************************************************************)
EXTENDS Intake, SequenceTheorems, FiniteSetTheorems, TLAPS

\* The runs of a cause.
RunsOf(c) == {i \in 1..Len(runs) : runs[i].key = c}
Count(c)  == Cardinality(RunsOf(c))

\* Claims, what callers are told, and the runs of a key.
Claims ==
  /\ runs \in Seq(Run)
  /\ claim \in [Keys -> Delivery \cup {None}]
  /\ replays \in [Keys -> Nat] /\ answer \in [Keys -> SUBSET Nat]
  /\ \A k \in Keys : claim[k] # None => claim[k].run <= Len(runs)
  /\ \A k \in Keys : answer[k] \subseteq IF claim[k] = None THEN {} ELSE {claim[k].run}
  /\ \A k \in Keys : Count(k) <= replays[k] + (IF claim[k] = None THEN 0 ELSE 1)

\* What was delivered, and the runs of a page.
Pages ==
  /\ sub \in Subscription
  /\ \A x \in Contents : Count(x) <= 1 /\ (x \notin sub.seen => Count(x) = 0)

Start == [at : Nat, mode : Modes \cup {"case", "done"}]
Pass  == [kind : {"pass"}, next : Nat, start : Start]

\* What a pass starts has come due, and every occurrence was started once.
Occurrences ==
  /\ now \in 0..MaxTime /\ sch \in Schedule
  /\ due \in Seq(Start) /\ pass \in Pass \cup {Idle}
  /\ pass # Idle => pass.start.at <= now
  /\ OneRunPerOccurrence

\* What a client is about to commit.
Asked    == [kind : {"key"}, key : Keys, content : Contents \cup {None}]
Changing == {r \in [kind : {"change"}, field : {"st", "mode", "every"},
                    value : {None, "on", "off", 1, 2} \cup Modes, next : Nat \cup {None}] :
               r.value = None \/ <<r.field, r.value>> \in Edits}
Commits  == cli \in [Clients -> {Idle} \cup Asked \cup Changing]

Shapes ==
  /\ part \in Parts /\ open \in BOOLEAN /\ page \in Contents \cup {None}
  /\ msg \in [Messages -> [st : {"none", "ready", "polling", "polled", "sent"}, tries : 0..3]]
  /\ changes \in 0..MaxChanges /\ faults \in 0..MaxFaults
  /\ role \in {"admin", "member", "none"}

Inv == Claims /\ Pages /\ Occurrences /\ Commits /\ Shapes

LEMMA Bounds ==
  /\ MaxRuns \in Nat /\ MaxTime \in Nat /\ MaxChanges \in Nat /\ MaxFaults \in 0..3
  /\ Keys \cap Contents = {} /\ None \notin Contents /\ None \notin Delivery
BY IntakeAssumption DEF IntakeAssumption, Delivery
-------------------------------------------------------------------------------
\* Counting runs

LEMMA RunsFinite ==
  ASSUME runs \in Seq(Run), NEW c
  PROVE  IsFiniteSet(RunsOf(c)) /\ Count(c) \in Nat
<1>1. Len(runs) \in Nat
  BY LenProperties
<1>2. IsFiniteSet(1..Len(runs))
  BY <1>1, FS_Interval
<1>3. IsFiniteSet(RunsOf(c))
  BY <1>2, FS_Subset DEF RunsOf
<1>. QED
  BY <1>3, FS_CardinalityType DEF Count

\* A new run is one more of its cause, and none more of another.
LEMMA Counted ==
  ASSUME runs \in Seq(Run), NEW k \in Keys \cup Contents, runs' = NewRun(k)
  PROVE  /\ runs' \in Seq(Run) /\ Len(runs') = Len(runs) + 1 /\ Count(k)' = Count(k) + 1
         /\ \A c : c # k => Count(c)' = Count(c)
<1> DEFINE r == [key |-> k, st |-> "open", acted |-> FALSE]
<1>1. r \in Run /\ r.key = k
  BY DEF Run
<1>2. runs' = Append(runs, r)
  BY DEF NewRun
<1>. HIDE DEF r
<1>3. /\ runs' \in Seq(Run) /\ Len(runs') = Len(runs) + 1 /\ Len(runs) \in Nat
      /\ \A i \in 1..Len(runs) : runs'[i] = runs[i]
      /\ runs'[Len(runs) + 1] = r
  BY <1>1, <1>2, AppendProperties, LenProperties
<1>4. RunsOf(k)' = RunsOf(k) \cup {Len(runs) + 1} /\ Len(runs) + 1 \notin RunsOf(k)
  BY <1>1, <1>3 DEF RunsOf
<1>5. \A c : c # k => RunsOf(c)' = RunsOf(c)
  BY <1>1, <1>3 DEF RunsOf
<1>6. Cardinality(RunsOf(k) \cup {Len(runs) + 1}) = Cardinality(RunsOf(k)) + 1
  BY <1>4, RunsFinite, FS_AddElement
<1>. QED
  BY <1>3, <1>4, <1>5, <1>6 DEF Count

\* A run that moves keeps its cause.
LEMMA Recounted ==
  ASSUME runs \in Seq(Run), runs' \in Seq(Run), Len(runs') = Len(runs),
         \A i \in 1..Len(runs) : runs'[i].key = runs[i].key
  PROVE  \A c : Count(c)' = Count(c)
<1>1. \A c : RunsOf(c)' = RunsOf(c)
  BY DEF RunsOf
<1>. QED
  BY <1>1 DEF Count
-------------------------------------------------------------------------------
\* What each part of the state needs

LEMMA ClaimsKept == ASSUME Claims, UNCHANGED <<runs, claim, replays, answer>> PROVE Claims'
<1>1. \A c : Count(c)' = Count(c)
  BY DEF Count, RunsOf
<1>. QED
  BY <1>1 DEF Claims

LEMMA PagesKept == ASSUME Pages, UNCHANGED <<runs, sub>> PROVE Pages'
<1>1. \A c : Count(c)' = Count(c)
  BY DEF Count, RunsOf
<1>. QED
  BY <1>1 DEF Pages

LEMMA OccurrencesKept == ASSUME Occurrences, UNCHANGED <<now, sch, due, pass>> PROVE Occurrences'
BY DEF Occurrences, OneRunPerOccurrence

LEMMA InvImplies == Inv => OneRunPerCause
<1>. SUFFICES ASSUME Inv PROVE OneRunPerCause
  OBVIOUS
<1>1. TypeOK
  <2>1. \A i \in 1..Len(runs) : runs[i] \in Run
    BY ElementOfSeq DEF Inv, Claims
  <2>2. \A i \in 1..Len(due) : due[i].mode \in Modes \cup {"case", "done"}
    <3>1. \A i \in 1..Len(due) : due[i] \in Start
      BY ElementOfSeq DEF Inv, Occurrences
    <3>. QED
      BY <3>1 DEF Start
  <2>. QED
    BY <2>1, <2>2 DEF Inv, TypeOK, Claims, Pages, Occurrences, Shapes
<1>2. OneRunPerKey
  <2>1. ASSUME NEW k \in Keys
        PROVE  Cardinality(answer[k]) <= 1
    <3>1. answer[k] = {} \/ answer[k] = {claim[k].run}
      BY DEF Inv, Claims
    <3>2. CASE answer[k] = {}
      BY <3>2, FS_EmptySet
    <3>3. CASE answer[k] = {claim[k].run}
      <4>1. Cardinality({claim[k].run}) = 1
        BY FS_Singleton
      <4>. QED
        BY <3>3, <4>1
    <3>. QED
      BY <3>1, <3>2, <3>3
  <2>. QED
    BY <2>1 DEF OneRunPerKey, Inv, Claims, Count, RunsOf
<1>3. OneRunPerPage
  BY DEF OneRunPerPage, Inv, Pages, Count, RunsOf
<1>. QED
  BY <1>1, <1>2, <1>3 DEF OneRunPerCause, Inv, Occurrences
-------------------------------------------------------------------------------
\* Webhooks and keyed requests

LEMMA AskKeeps ==
  ASSUME Inv, NEW c \in Clients, NEW k \in Keys, NEW x \in Contents \cup {None}, Ask(c, k, x),
         k \in Requests => x = None
  PROVE  Inv'
<1>1. CASE claim[k] # None
  <2>1. /\ UNCHANGED <<part, runs, claim, replays, open, polled, scheduled, changes, faults, cli>>
        /\ Replayed(k, x)
    BY <1>1 DEF Ask
  <2>2. claim[k].run \in Nat
    <3>1. claim[k] \in Delivery
      BY <1>1 DEF Inv, Claims
    <3>. QED
      BY <3>1, Bounds DEF Delivery
  <2>3. \A c2 : Count(c2)' = Count(c2)
    BY <2>1 DEF Count, RunsOf
  <2>4. Claims'
    BY <1>1, <2>1, <2>2, <2>3 DEF Inv, Claims, Replayed
  <2>5. Pages' /\ Occurrences'
    BY <2>1, PagesKept, OccurrencesKept DEF Inv, polled, scheduled
  <2>6. Commits' /\ Shapes'
    BY <2>1 DEF Inv, Commits, Shapes, polled, scheduled
  <2>. QED
    BY <2>4, <2>5, <2>6 DEF Inv
<1>2. CASE claim[k] = None
  <2>1. /\ UNCHANGED <<part, runs, claim, replays, open, polled, scheduled, changes, faults,
                       answer>>
        /\ cli' = [cli EXCEPT ![c] = [kind |-> "key", key |-> k, content |-> x]]
    BY <1>2 DEF Ask
  <2>2. [kind |-> "key", key |-> k, content |-> x] \in Asked
    BY DEF Asked
  <2>3. Commits'
    BY <2>1, <2>2 DEF Inv, Commits
  <2>4. Claims' /\ Pages' /\ Occurrences'
    BY <2>1, ClaimsKept, PagesKept, OccurrencesKept DEF Inv, polled, scheduled
  <2>5. Shapes'
    BY <2>1 DEF Inv, Shapes, polled, scheduled
  <2>. QED
    BY <2>3, <2>4, <2>5 DEF Inv
<1>. QED
  BY <1>1, <1>2

LEMMA ClaimKeeps ==
  ASSUME Inv, NEW c \in Clients, cli[c].kind = "key", Claim(c)
  PROVE  Inv'
<1>1. cli[c] \in Asked
  <2>1. cli[c] \in {Idle} \cup Asked \cup Changing
    BY DEF Inv, Commits
  <2>2. Idle.kind = "idle" /\ \A r \in Changing : r.kind = "change"
    BY DEF Idle, Changing
  <2>. QED
    BY <2>1, <2>2
<1>2. PICK k \in Keys, x \in Contents \cup {None} : k = cli[c].key /\ x = cli[c].content
  BY <1>1 DEF Asked
<1>3. /\ cli' = [cli EXCEPT ![c] = Idle]
      /\ UNCHANGED <<part, replays, open, polled, scheduled, changes, faults>>
  BY DEF Claim
<1>4. Occurrences' /\ Commits' /\ Shapes'
  BY <1>3, OccurrencesKept DEF Inv, Commits, Shapes, polled, scheduled
<1>5. CASE claim[k] # None /\ Replayed(k, x) /\ UNCHANGED <<runs, claim>>
  <2>1. claim[k].run \in Nat
    <3>1. claim[k] \in Delivery
      BY <1>2, <1>5 DEF Inv, Claims
    <3>. QED
      BY <3>1, Bounds DEF Delivery
  <2>2. \A c2 : Count(c2)' = Count(c2)
    BY <1>5 DEF Count, RunsOf
  <2>3. Claims'
    BY <1>2, <1>3, <1>5, <2>1, <2>2 DEF Inv, Claims, Replayed
  <2>4. Pages'
    BY <1>3, <1>5, PagesKept DEF Inv, polled
  <2>. QED
    BY <1>4, <2>3, <2>4 DEF Inv
<1>6. CASE /\ claim[k] = None /\ Len(runs) < MaxRuns /\ runs' = NewRun(k)
           /\ claim' = [claim EXCEPT ![k] = [content |-> x, run |-> Len(runs) + 1]]
           /\ answer' = [answer EXCEPT ![k] = @ \cup {Len(runs) + 1}]
  <2>1. runs \in Seq(Run) /\ Len(runs) \in Nat
    BY LenProperties DEF Inv, Claims
  <2>2. /\ runs' \in Seq(Run) /\ Len(runs') = Len(runs) + 1 /\ Count(k)' = Count(k) + 1
        /\ \A c2 : c2 # k => Count(c2)' = Count(c2)
    BY <1>2, <1>6, <2>1, Counted
  <2>3. [content |-> x, run |-> Len(runs) + 1] \in Delivery
    BY <1>2, <1>6, <2>1, Bounds DEF Delivery
  <2>4. \A c2 : Count(c2) \in Nat
    BY <2>1, RunsFinite
  <2>5. /\ claim' \in [Keys -> Delivery \cup {None}] /\ answer' \in [Keys -> SUBSET Nat]
        /\ claim'[k] # None /\ claim'[k].run = Len(runs) + 1
        /\ answer'[k] = answer[k] \cup {Len(runs) + 1}
        /\ \A j \in Keys \ {k} : claim'[j] = claim[j] /\ answer'[j] = answer[j]
    BY <1>2, <1>6, <2>1, <2>3, Bounds DEF Inv, Claims
  <2>6. ASSUME NEW j \in Keys
        PROVE  /\ claim'[j] # None => claim'[j].run <= Len(runs')
               /\ answer'[j] \subseteq IF claim'[j] = None THEN {} ELSE {claim'[j].run}
               /\ Count(j)' <= replays'[j] + (IF claim'[j] = None THEN 0 ELSE 1)
    <3>1. replays[j] \in Nat /\ replays' = replays
      BY <1>3 DEF Inv, Claims
    <3>2. CASE j = k
      <4>1. answer[k] = {} /\ Count(k) <= replays[k]
        BY <1>2, <1>6, <3>1, <3>2 DEF Inv, Claims
      <4>2. Count(k)' <= replays'[k] + 1
        BY <2>2, <2>4, <3>1, <3>2, <4>1
      <4>3. claim'[k].run <= Len(runs') /\ answer'[k] = {claim'[k].run}
        BY <2>1, <2>2, <2>5, <4>1
      <4>. QED
        BY <2>5, <3>2, <4>2, <4>3
    <3>3. CASE j # k
      <4>1. claim[j] # None => claim[j] \in Delivery
        BY DEF Inv, Claims
      <4>2. claim[j] # None => claim[j].run \in Nat /\ claim[j].run <= Len(runs)
        BY <4>1, Bounds DEF Inv, Claims, Delivery
      <4>. QED
        BY <2>1, <2>2, <2>5, <3>1, <3>3, <4>2 DEF Inv, Claims
    <3>. QED
      BY <3>2, <3>3
  <2>7. Claims'
    BY <1>3, <2>2, <2>5, <2>6 DEF Inv, Claims
  <2>8. Pages'
    <3>1. \A y \in Contents : Count(y)' = Count(y)
      BY <1>2, <2>2, Bounds
    <3>. QED
      BY <1>3, <3>1 DEF Inv, Pages, polled
  <2>. QED
    BY <1>4, <2>7, <2>8 DEF Inv
<1>. QED
  BY <1>2, <1>5, <1>6 DEF Claim

LEMMA ReplayKeeps == ASSUME Inv, NEW k \in Hooks, Replay(k) PROVE Inv'
<1>1. k \in Keys
  BY DEF Keys
<1>2. runs \in Seq(Run) /\ Len(runs) \in Nat
  BY LenProperties DEF Inv, Claims
<1>3. /\ runs' \in Seq(Run) /\ Len(runs') = Len(runs) + 1 /\ Count(k)' = Count(k) + 1
      /\ \A c2 : c2 # k => Count(c2)' = Count(c2)
  BY <1>1, <1>2, Counted DEF Replay
<1>4. \A c2 : Count(c2) \in Nat
  BY <1>2, RunsFinite
<1>5. /\ replays' = [replays EXCEPT ![k] = @ + 1] /\ UNCHANGED <<claim, answer>>
      /\ UNCHANGED <<part, open, cli, polled, scheduled, changes, faults>>
  BY DEF Replay
<1>6. Occurrences' /\ Commits' /\ Shapes'
  BY <1>5, OccurrencesKept DEF Inv, Commits, Shapes, polled, scheduled
<1>7. Pages'
  <2>1. \A y \in Contents : Count(y)' = Count(y)
    BY <1>1, <1>3, Bounds
  <2>. QED
    BY <1>5, <2>1 DEF Inv, Pages, polled
<1>8. \A j \in Keys : claim[j] # None => claim[j].run \in Nat
  <2>1. \A j \in Keys : claim[j] # None => claim[j] \in Delivery
    BY DEF Inv, Claims
  <2>. QED
    BY <2>1, Bounds DEF Delivery
<1>9. Claims'
  <2>1. replays' \in [Keys -> Nat]
    BY <1>1, <1>5 DEF Inv, Claims
  <2>2. \A j \in Keys : claim'[j] # None => claim'[j].run <= Len(runs')
    BY <1>2, <1>3, <1>5, <1>8 DEF Inv, Claims
  <2>3. ASSUME NEW j \in Keys
        PROVE  Count(j)' <= replays'[j] + (IF claim'[j] = None THEN 0 ELSE 1)
    BY <1>1, <1>3, <1>4, <1>5 DEF Inv, Claims
  <2>. QED
    BY <1>3, <1>5, <2>1, <2>2, <2>3 DEF Inv, Claims
<1>. QED
  BY <1>6, <1>7, <1>9 DEF Inv

LEMMA RunMovesKeeps == ASSUME Inv, NEW i \in 1..Len(runs), RunMoves(i) PROVE Inv'
<1>1. runs \in Seq(Run) /\ runs[i] \in Run
  BY ElementOfSeq DEF Inv, Claims
<1>2. PICK r \in Run : r.key = runs[i].key /\ runs' = [runs EXCEPT ![i] = r]
  <2>1. CASE runs' = [runs EXCEPT ![i].acted = TRUE]
    BY <1>1, <2>1 DEF Run
  <2>2. ASSUME NEW st \in {"open", "failed", "completed"}, runs' = [runs EXCEPT ![i].st = st]
        PROVE  \E r \in Run : r.key = runs[i].key /\ runs' = [runs EXCEPT ![i] = r]
    BY <1>1, <2>2 DEF Run
  <2>. QED
    BY <2>1, <2>2 DEF RunMoves
<1>3. /\ runs' \in Seq(Run) /\ Len(runs') = Len(runs)
      /\ \A j \in 1..Len(runs) : runs'[j].key = runs[j].key
  BY <1>1, <1>2, ExceptSeq
<1>4. \A c : Count(c)' = Count(c)
  BY <1>1, <1>3, Recounted
<1>5. UNCHANGED <<part, keyed, cli, polled, scheduled, changes>>
  BY DEF RunMoves
<1>6. faults' \in 0..MaxFaults
  BY Bounds DEF RunMoves, Inv, Shapes
<1>7. Occurrences' /\ Commits' /\ Shapes'
  BY <1>5, <1>6, OccurrencesKept DEF Inv, Commits, Shapes, polled, scheduled, keyed
<1>8. Claims' /\ Pages'
  BY <1>3, <1>4, <1>5 DEF Inv, Claims, Pages, keyed, polled
<1>. QED
  BY <1>7, <1>8 DEF Inv
-------------------------------------------------------------------------------
\* Polls

\* The steps that change messages, and the state of the subscription.
LEMMA MessagesKeep ==
  ASSUME Inv, UNCHANGED <<part, runs, keyed, cli, scheduled, changes>>,
         page' \in Contents \cup {None}, faults' \in 0..MaxFaults,
         sub' \in Subscription, sub'.seen = sub.seen,
         msg' \in [Messages -> [st : {"none", "ready", "polling", "polled", "sent"}, tries : 0..3]]
  PROVE  Inv'
<1>1. \A c : Count(c)' = Count(c)
  BY DEF Count, RunsOf
<1>2. Claims' /\ Occurrences' /\ Commits' /\ Shapes'
  BY ClaimsKept, OccurrencesKept DEF Inv, Commits, Shapes, keyed, scheduled
<1>3. Pages'
  BY <1>1 DEF Inv, Pages
<1>. QED
  BY <1>2, <1>3 DEF Inv

\* A poll delivers a page that has no run, or one that gets none.
LEMMA PollKeeps == ASSUME Inv, NEW m \in Messages, Poll(m) PROVE Inv'
<1>1. /\ UNCHANGED <<part, keyed, cli, page, scheduled, changes, faults>>
      /\ msg' = [msg EXCEPT ![m].st = "polled"]
  BY DEF Poll
<1>2. msg' \in [Messages -> [st : {"none", "ready", "polling", "polled", "sent"}, tries : 0..3]]
  BY <1>1 DEF Inv, Shapes
<1>3. CASE UNCHANGED <<runs, sub>>
  BY <1>1, <1>2, <1>3, MessagesKeep DEF Inv, Shapes, Pages
<1>4. CASE page # None /\ sub' = [sub EXCEPT !.last = page] /\ UNCHANGED runs
  <2>1. sub' \in Subscription /\ sub'.seen = sub.seen
    BY <1>4 DEF Inv, Pages, Shapes, Subscription
  <2>. QED
    BY <1>1, <1>2, <1>4, <2>1, MessagesKeep DEF Inv, Shapes
<1>5. CASE page # None /\ Deliver(page)
  <2>1. PICK x \in Contents : x = page
    BY <1>5 DEF Inv, Shapes
  <2>2. /\ runs' = IF x \in sub.seen THEN runs ELSE NewRun(x)
        /\ sub' = [sub EXCEPT !.last = x, !.seen = @ \cup {x}]
    BY <1>5, <2>1 DEF Deliver
  <2>3. sub' \in Subscription /\ sub'.seen = sub.seen \cup {x}
    BY <2>2 DEF Inv, Pages, Subscription
  <2>4. CASE x \in sub.seen
    <3>1. sub'.seen = sub.seen /\ runs' = runs
      BY <2>2, <2>3, <2>4
    <3>. QED
      BY <1>1, <1>2, <2>3, <3>1, MessagesKeep DEF Inv, Shapes
  <2>5. CASE x \notin sub.seen
    <3>1. runs \in Seq(Run) /\ Len(runs) \in Nat
      BY LenProperties DEF Inv, Claims
    <3>2. /\ runs' \in Seq(Run) /\ Len(runs') = Len(runs) + 1 /\ Count(x)' = Count(x) + 1
          /\ \A c : c # x => Count(c)' = Count(c)
      BY <2>2, <2>5, <3>1, Counted
    <3>3. Count(x) = 0
      BY <2>5 DEF Inv, Pages
    <3>4. ASSUME NEW y \in Contents
          PROVE  Count(y)' <= 1 /\ (y \notin sub'.seen => Count(y)' = 0)
      BY <2>3, <3>2, <3>3 DEF Inv, Pages
    <3>5. Pages'
      BY <2>3, <3>4 DEF Pages
    <3>6. \A k \in Keys : Count(k)' = Count(k)
      BY <3>2, Bounds
    <3>7. \A k \in Keys : claim[k] # None => claim[k].run \in Nat
      <4>1. \A k \in Keys : claim[k] # None => claim[k] \in Delivery
        BY DEF Inv, Claims
      <4>. QED
        BY <4>1, Bounds DEF Delivery
    <3>8. Claims'
      BY <1>1, <3>1, <3>2, <3>6, <3>7 DEF Inv, Claims, keyed
    <3>9. Occurrences' /\ Commits' /\ Shapes'
      BY <1>1, <1>2, OccurrencesKept DEF Inv, Commits, Shapes, keyed, scheduled
    <3>. QED
      BY <3>5, <3>8, <3>9 DEF Inv
  <2>. QED
    BY <2>4, <2>5
<1>. QED
  BY <1>3, <1>4, <1>5 DEF Poll

LEMMA PollingKeeps ==
  ASSUME Inv, NEW m \in Messages, NEW n \in Messages,
         \/ SendFirst(m) \/ TakePoll(m) \/ SendNext(m, n) \/ Acknowledge(m)
         \/ PollFails(m) \/ WorkerDies(m)
  PROVE  Inv'
<1> DEFINE Message == [st : {"none", "ready", "polling", "polled", "sent"}, tries : 0..3]
<1>1. /\ msg \in [Messages -> Message] /\ sub \in Subscription /\ faults \in 0..MaxFaults
      /\ page \in Contents \cup {None}
  BY DEF Inv, Shapes, Pages
<1>2. \A st \in {"none", "ready", "polling", "polled", "sent"} :
        [msg[m] EXCEPT !.st = st] \in Message
  BY <1>1
<1>3. [st |-> "ready", tries |-> 0] \in Message /\ [st |-> "none", tries |-> 0] \in Message
  OBVIOUS
<1>4. msg' \in [Messages -> Message]
  <2>1. CASE SendFirst(m)
    BY <1>1, <1>3, <2>1 DEF SendFirst
  <2>2. CASE TakePoll(m)
    BY <1>1, <2>2 DEF TakePoll
  <2>3. CASE SendNext(m, n)
    BY <1>1, <1>3, <2>3 DEF SendNext
  <2>4. CASE Acknowledge(m)
    BY <1>1, <2>4 DEF Acknowledge
  <2>5. CASE PollFails(m)
    <3>1. msg[m].tries \in 0..3
      BY <1>1
    <3>2. msg[m].tries # 3 => [st |-> "ready", tries |-> msg[m].tries + 1] \in Message
      BY <3>1
    <3>3. msg' = [msg EXCEPT ![m] = IF msg[m].tries = 3 THEN [st |-> "none", tries |-> 0]
                                    ELSE [st |-> "ready", tries |-> msg[m].tries + 1]]
      BY <2>5 DEF PollFails
    <3>. HIDE DEF Message
    <3>. QED
      BY <1>1, <1>3, <3>2, <3>3
  <2>6. CASE WorkerDies(m)
    BY <1>1, <2>6 DEF WorkerDies
  <2>. QED
    BY <2>1, <2>2, <2>3, <2>4, <2>5, <2>6
<1>5. sub' \in Subscription /\ sub'.seen = sub.seen
  BY <1>1 DEF SendFirst, TakePoll, SendNext, Acknowledge, PollFails, WorkerDies, Subscription
<1>6. faults' \in 0..MaxFaults
  BY <1>1, Bounds DEF SendFirst, TakePoll, SendNext, Acknowledge, PollFails, WorkerDies
<1>7. UNCHANGED <<part, runs, keyed, cli, page, scheduled, changes>>
  BY DEF SendFirst, TakePoll, SendNext, Acknowledge, PollFails, WorkerDies
<1>. QED
  BY <1>1, <1>4, <1>5, <1>6, <1>7, MessagesKeep
-------------------------------------------------------------------------------
\* Schedules

LEMMA ScheduleKeeps ==
  ASSUME Inv, UNCHANGED others, Occurrences', Commits', changes' \in 0..MaxChanges,
         faults' \in 0..MaxFaults, role' \in {"admin", "member", "none"}
  PROVE  Inv'
BY ClaimsKept, PagesKept DEF Inv, Shapes, others, keyed, polled

LEMMA NextOccurrenceNat ==
  ASSUME Occurrences, NEW every \in {1, 2}
  PROVE  NextOccurrence(now, every) \in Nat
<1>1. now \in Nat
  BY Bounds DEF Occurrences
<1>2. (now \div 1) \in Nat /\ (now \div 2) \in Nat
  BY <1>1
<1>. QED
  BY <1>2 DEF NextOccurrence

\* An occurrence that has come due and is not taken is started.
LEMMA Begun ==
  ASSUME Occurrences, NEW t \in Nat, NEW mode \in Modes \cup {"case", "done"},
         t <= now, ~Taken(t), due' = Append(due, [at |-> t, mode |-> mode]), UNCHANGED now
  PROVE  due' \in Seq(Start) /\ OneRunPerOccurrence'
<1> DEFINE s == [at |-> t, mode |-> mode]
<1>1. s \in Start /\ s.at = t /\ due \in Seq(Start) /\ Len(due) \in Nat
  BY LenProperties DEF Start, Occurrences
<1>. HIDE DEF s
<1>2. /\ due' \in Seq(Start) /\ Len(due') = Len(due) + 1
      /\ \A i \in 1..Len(due) : due'[i] = due[i]
      /\ due'[Len(due) + 1] = s
  BY <1>1, AppendProperties DEF s
<1>3. \A i \in 1..Len(due) : due[i].at # t /\ due[i].at <= now
  BY DEF Taken, Occurrences, OneRunPerOccurrence
<1>4. \A i, j \in 1..Len(due) : due[i].at = due[j].at => i = j
  BY DEF Occurrences, OneRunPerOccurrence
<1>5. ASSUME NEW i \in 1..Len(due'), NEW j \in 1..Len(due')
      PROVE  due'[i].at <= now /\ (due'[i].at = due'[j].at => i = j)
  BY <1>1, <1>2, <1>3, <1>4
<1>. QED
  BY <1>2, <1>5 DEF OneRunPerOccurrence

LEMMA StartCaseBegins ==
  ASSUME Occurrences, NEW t \in Nat, t <= now, due' = StartCase(t), UNCHANGED now
  PROVE  due' \in Seq(Start) /\ OneRunPerOccurrence'
<1>1. CASE Taken(t)
  <2>1. due' = due
    BY <1>1 DEF StartCase
  <2>. QED
    BY <2>1 DEF Occurrences, OneRunPerOccurrence
<1>2. CASE ~Taken(t)
  BY <1>2, Begun DEF StartCase
<1>. QED
  BY <1>1, <1>2

\* What a schedule may be stored as.
LEMMA StoredIsSchedule ==
  ASSUME Occurrences, role \in {"admin", "member", "none"},
         NEW mode \in Modes, NEW every \in {1, 2}
  PROVE  Started(mode, every) \in Schedule
BY NextOccurrenceNat DEF Started, Schedule

LEMMA CreateKeeps ==
  ASSUME Inv, NEW mode \in Modes, NEW every \in {1, 2}, NEW immediately \in BOOLEAN,
         CreateSchedule(mode, every) \/ CreateProcess(every, immediately)
  PROVE  Inv'
<1>1. /\ UNCHANGED <<others, cli, now, role, pass, changes, faults>>
      /\ sch' \in {Started(mode, every), Started("review", every)}
      /\ due' = due \/ due' = StartCase(0)
  BY DEF CreateSchedule, CreateProcess
<1>2. sch' \in Schedule
  BY <1>1, StoredIsSchedule DEF Inv, Shapes, Modes
<1>3. due' \in Seq(Start) /\ OneRunPerOccurrence'
  <2>1. 0 <= now
    BY Bounds DEF Inv, Occurrences
  <2>2. CASE due' = due
    BY <1>1, <2>2 DEF Inv, Occurrences, OneRunPerOccurrence
  <2>3. CASE due' = StartCase(0)
    BY <1>1, <2>1, <2>3, StartCaseBegins DEF Inv
  <2>. QED
    BY <1>1, <2>2, <2>3
<1>4. Occurrences'
  BY <1>1, <1>2, <1>3 DEF Inv, Occurrences
<1>5. Commits'
  BY <1>1 DEF Inv, Commits
<1>. QED
  BY <1>1, <1>4, <1>5, ScheduleKeeps DEF Inv, Shapes

\* A pass takes up an occurrence that has come due.
LEMMA BeginKeeps == ASSUME Inv, BeginPass \/ BeginTrigger PROVE Inv'
<1>1. Occurrences /\ sch \in Schedule /\ now \in Nat /\ sch.next \in Nat /\ sch.mode \in Modes
      /\ sch.every \in {1, 2} /\ sch.next <= now
  BY Bounds DEF Inv, Occurrences, Schedule, BeginPass, BeginTrigger, DueNow
<1>2. UNCHANGED <<others, cli, now, role, due, changes, faults>>
  BY DEF BeginPass, BeginTrigger
<1>3. \/ /\ sch' = sch
         /\ pass' \in Pass /\ pass'.start.at <= now
      \/ sch' \in Schedule /\ pass' = pass
  <2> DEFINE next == NextOccurrence(now, sch.every)
  <2>1. next \in Nat
    BY <1>1, NextOccurrenceNat
  <2>. HIDE DEF next
  <2>2. CASE sch' = [sch EXCEPT !.st = "off"] /\ pass' = pass
    BY <1>1, <2>2 DEF Schedule
  <2>3. ASSUME NEW mode \in Modes \cup {"case"}, sch' = sch,
               pass' = [kind |-> "pass", next |-> next, start |-> [at |-> sch.next, mode |-> mode]]
        PROVE  sch' = sch /\ pass' \in Pass /\ pass'.start.at <= now
    BY <1>1, <2>1, <2>3 DEF Pass, Start
  <2>4. "review" \in Modes
    BY DEF Modes
  <2>. QED
    BY <1>1, <2>2, <2>3, <2>4 DEF BeginPass, BeginTrigger, ReviewRun, ApprovedRun, next
<1>4. OneRunPerOccurrence'
  BY <1>1, <1>2 DEF Occurrences, OneRunPerOccurrence
<1>5. Occurrences'
  BY <1>1, <1>2, <1>3, <1>4 DEF Occurrences
<1>6. Commits'
  BY <1>2 DEF Inv, Commits
<1>. QED
  BY <1>2, <1>5, <1>6, ScheduleKeeps DEF Inv, Shapes

\* A pass starts what it took up, unless it was started meanwhile.
LEMMA CommitKeeps == ASSUME Inv, CommitPass \/ CommitTrigger PROVE Inv'
<1>1. Occurrences /\ pass \in Pass /\ pass.start.at <= now
  BY DEF Inv, Occurrences, CommitPass, CommitTrigger, Late
<1>2. pass.next \in Nat /\ pass.start \in Start
  BY <1>1 DEF Pass
<1>3. PICK t \in Nat, mode \in Modes \cup {"case", "done"} :
        t = pass.start.at /\ pass.start = [at |-> t, mode |-> mode]
  BY <1>2 DEF Start
<1>4. UNCHANGED <<others, cli, now, role, changes, faults>> /\ pass' = Idle
  BY DEF CommitPass, CommitTrigger
<1>5. sch' \in Schedule
  BY <1>1, <1>2 DEF CommitPass, CommitTrigger, Occurrences, Schedule
<1>6. due' \in Seq(Start) /\ OneRunPerOccurrence'
  <2>1. CASE due' = due
    BY <1>1, <1>4, <2>1 DEF Occurrences, OneRunPerOccurrence
  <2>2. CASE ~Taken(t) /\ due' = Append(due, pass.start)
    BY <1>1, <1>3, <1>4, <2>2, Begun
  <2>3. CASE due' = StartCase(t)
    BY <1>1, <1>3, <1>4, <2>3, StartCaseBegins
  <2>. QED
    BY <1>3, <2>1, <2>2, <2>3 DEF CommitPass, CommitTrigger
<1>7. Occurrences'
  BY <1>1, <1>4, <1>5, <1>6 DEF Occurrences
<1>8. Commits'
  BY <1>4 DEF Inv, Commits
<1>. QED
  BY <1>4, <1>7, <1>8, ScheduleKeeps DEF Inv, Shapes

LEMMA CaseEndsKeeps == ASSUME Inv, NEW i \in 1..Len(due), CaseEnds(i) PROVE Inv'
<1>1. due \in Seq(Start) /\ due[i] \in Start
  BY ElementOfSeq DEF Inv, Occurrences
<1>2. UNCHANGED <<others, cli, now, sch, role, pass, changes, faults>>
  BY DEF CaseEnds
<1>3. PICK e \in Start : e.at = due[i].at /\ due' = [due EXCEPT ![i] = e]
  <2>1. [due[i] EXCEPT !.mode = "done"] \in Start /\ [due[i] EXCEPT !.mode = "done"].at = due[i].at
    BY <1>1 DEF Start
  <2>2. due' = [due EXCEPT ![i] = [due[i] EXCEPT !.mode = "done"]]
    BY DEF CaseEnds
  <2>. QED
    BY <2>1, <2>2
<1>4. due' \in Seq(Start) /\ Len(due') = Len(due) /\ \A j \in 1..Len(due) : due'[j].at = due[j].at
  BY <1>1, <1>3, ExceptSeq
<1>5. Occurrences'
  BY <1>2, <1>4 DEF Inv, Occurrences, OneRunPerOccurrence
<1>6. Commits'
  BY <1>2 DEF Inv, Commits
<1>. QED
  BY <1>2, <1>5, <1>6, ScheduleKeeps DEF Inv, Shapes

\* What a client asks for is the value of the field, and a time.
LEMMA ChangeIsChanging ==
  ASSUME Occurrences, NEW field, NEW value, <<field, value>> \in Edits,
         NEW next \in Nat \cup {None}
  PROVE  Change(field, value, next) \in Changing
<1>1. field \in {"st", "mode", "every"} /\ value \in {"on", "off", 1, 2} \cup Modes
  BY DEF Edits
<1>2. Change(field, value, next) = [kind |-> "change", field |-> field,
        value |-> Change(field, value, next).value, next |-> Change(field, value, next).next]
  BY DEF Change
<1>3. /\ Change(field, value, next).value \in {None, value}
      /\ Change(field, value, next).next \in {None, next}
  BY DEF Change
<1>. QED
  BY <1>1, <1>2, <1>3 DEF Changing

LEMMA AskChangeKeeps ==
  ASSUME Inv, NEW c \in Clients, NEW edit \in Edits,
         AskChange(c, edit[1], edit[2]) \/ AskProcessChange(c, edit[1], edit[2])
  PROVE  Inv'
<1> DEFINE next == CASE edit[1] = "every" -> NextOccurrence(now, edit[2])
                     [] edit[2] = "on" -> NextOccurrence(now, sch.every)
                     [] OTHER -> None
<1>1. edit = <<edit[1], edit[2]>> /\ (edit[1] = "every" => edit[2] \in {1, 2})
  BY DEF Edits
<1>2. Occurrences /\ sch.every \in {1, 2}
  BY DEF Inv, Occurrences, Schedule
<1>3. next \in Nat \cup {None}
  <2>1. edit[1] = "every" => NextOccurrence(now, edit[2]) \in Nat
    BY <1>1, <1>2, NextOccurrenceNat
  <2>2. NextOccurrence(now, sch.every) \in Nat
    BY <1>2, NextOccurrenceNat
  <2>. QED
    BY <2>1, <2>2
<1>4. UNCHANGED <<others, scheduled, faults>> /\ changes' \in 0..MaxChanges
      /\ cli' = [cli EXCEPT ![c] = Change(edit[1], edit[2], next)]
  BY Bounds DEF AskChange, AskProcessChange, Inv, Shapes
<1>. HIDE DEF next
<1>5. Change(edit[1], edit[2], next) \in Changing
  BY <1>1, <1>2, <1>3, ChangeIsChanging
<1>6. Commits'
  BY <1>4, <1>5 DEF Inv, Commits
<1>7. Occurrences' /\ role' = role
  BY <1>2, <1>4, OccurrencesKept DEF scheduled
<1>. QED
  BY <1>4, <1>6, <1>7, ScheduleKeeps DEF Inv, Shapes

LEMMA CommitChangeKeeps == ASSUME Inv, NEW c \in Clients, CommitChange(c) PROVE Inv'
<1> DEFINE r == cli[c]
<1>1. r \in Changing
  <2>1. r \in {Idle} \cup Asked \cup Changing /\ r.kind = "change"
    BY DEF Inv, Commits, CommitChange
  <2>2. Idle.kind = "idle" /\ \A a \in Asked : a.kind = "key"
    BY DEF Idle, Asked
  <2>. QED
    BY <2>1, <2>2
<1>2. r.next \in Nat \cup {None} /\ r.field \in {"st", "mode", "every"}
      /\ (r.value = None \/ <<r.field, r.value>> \in Edits)
  BY <1>1 DEF Changing
<1>3. /\ UNCHANGED <<others, now, role, source, pass, due, changes, faults>>
      /\ cli' = [cli EXCEPT ![c] = Idle]
      /\ sch' = IF sch.st = "gone" THEN sch
                ELSE [sch EXCEPT ![r.field] = IF r.value = None THEN @ ELSE r.value,
                                 !.next = IF r.next = None THEN @ ELSE r.next]
  BY DEF CommitChange
<1>. HIDE DEF r
<1>4. sch \in Schedule
  BY DEF Inv, Occurrences
<1>5. sch' \in Schedule
  <2> DEFINE next == IF r.next = None THEN sch.next ELSE r.next
  <2>1. next \in Nat
    BY <1>2, <1>4 DEF Schedule
  <2>2. CASE sch' = sch
    BY <1>4, <2>2
  <2>3. CASE r.field = "st" /\ sch.st # "gone"
    <3> DEFINE v == IF r.value = None THEN sch.st ELSE r.value
    <3>1. v \in {"none", "on", "off", "gone"}
      BY <1>2, <1>4, <2>3 DEF Edits, Schedule
    <3>2. sch' = [sch EXCEPT !.st = v, !.next = next]
      BY <1>3, <1>4, <2>3 DEF Schedule
    <3>. HIDE DEF v, next
    <3>. QED
      BY <1>4, <2>1, <3>1, <3>2 DEF Schedule
  <2>4. CASE r.field = "mode" /\ sch.st # "gone"
    <3> DEFINE v == IF r.value = None THEN sch.mode ELSE r.value
    <3>1. v \in Modes
      BY <1>2, <1>4, <2>4 DEF Edits, Schedule
    <3>2. sch' = [sch EXCEPT !.mode = v, !.next = next]
      BY <1>3, <1>4, <2>4 DEF Schedule
    <3>. HIDE DEF v, next
    <3>. QED
      BY <1>4, <2>1, <3>1, <3>2 DEF Schedule
  <2>5. CASE r.field = "every" /\ sch.st # "gone"
    <3> DEFINE v == IF r.value = None THEN sch.every ELSE r.value
    <3>1. v \in {1, 2}
      BY <1>2, <1>4, <2>5 DEF Edits, Schedule
    <3>2. sch' = [sch EXCEPT !.every = v, !.next = next]
      BY <1>3, <1>4, <2>5 DEF Schedule
    <3>. HIDE DEF v, next
    <3>. QED
      BY <1>4, <2>1, <3>1, <3>2 DEF Schedule
  <2>. QED
    BY <1>2, <1>3, <2>2, <2>3, <2>4, <2>5
<1>6. Occurrences'
  BY <1>3, <1>5 DEF Inv, Occurrences, OneRunPerOccurrence
<1>7. Commits'
  BY <1>3 DEF Inv, Commits
<1>. QED
  BY <1>3, <1>6, <1>7, ScheduleKeeps DEF Inv, Shapes

\* A schedule is deleted, a pass dies, a role or a source changes, the clock ticks.
LEMMA AroundKeeps ==
  ASSUME Inv, \/ DeleteSchedule \/ PassDies \/ ClockTicks
              \/ \E r \in {"admin", "member", "none"} : RoleChanges(r)
              \/ \E src \in [by : {"creator", "other"}, sound : BOOLEAN, enabled : BOOLEAN] :
                   SourceChanges(src)
  PROVE  Inv'
<1>1. UNCHANGED <<others, cli, due>> /\ (sch' = sch \/ sch' = [sch EXCEPT !.st = "gone"])
      /\ (pass' = pass \/ pass' = Idle)
  BY DEF DeleteSchedule, PassDies, ClockTicks, RoleChanges, SourceChanges
<1>2. /\ changes' \in 0..MaxChanges /\ faults' \in 0..MaxFaults
      /\ role' \in {"admin", "member", "none"} /\ now' \in 0..MaxTime /\ now <= now'
  BY Bounds DEF DeleteSchedule, PassDies, ClockTicks, RoleChanges, SourceChanges, Inv, Shapes,
     Occurrences
<1>3. sch' \in Schedule
  BY <1>1 DEF Inv, Occurrences, Schedule
<1>4. \A i \in 1..Len(due) : due[i] \in Start /\ due[i].at \in Nat
  <2>1. \A i \in 1..Len(due) : due[i] \in Start
    BY ElementOfSeq DEF Inv, Occurrences
  <2>. QED
    BY <2>1 DEF Start
<1>5. pass \in Pass => pass.start.at \in Nat
  BY DEF Pass, Start
<1>6. now \in Nat /\ now' \in Nat
  BY <1>2, Bounds DEF Inv, Occurrences
<1>7. OneRunPerOccurrence'
  BY <1>1, <1>2, <1>4, <1>6 DEF Inv, Occurrences, OneRunPerOccurrence
<1>8. pass' \in Pass \cup {Idle} /\ (pass' # Idle => pass'.start.at <= now')
  BY <1>1, <1>2, <1>5, <1>6 DEF Inv, Occurrences
<1>9. Occurrences'
  BY <1>1, <1>2, <1>3, <1>7, <1>8 DEF Inv, Occurrences
<1>10. Commits'
  BY <1>1 DEF Inv, Commits
<1>. QED
  BY <1>1, <1>2, <1>9, <1>10, ScheduleKeeps
-------------------------------------------------------------------------------
\* The theorems

LEMMA InitInv == Init => Inv
<1>. SUFFICES ASSUME Init PROVE Inv
  OBVIOUS
<1>1. runs = <<>> /\ \A c : RunsOf(c) = {}
  BY EmptySeq DEF Init, RunsOf
<1>2. \A c : Count(c) = 0
  BY <1>1, FS_EmptySet DEF Count
<1>3. Claims
  BY <1>1, <1>2, EmptySeq DEF Init, Claims
<1>4. Pages
  BY <1>2 DEF Init, Pages, Subscription
<1>5. Occurrences
  <2>1. sch \in Schedule
    BY DEF Init, Schedule, Modes
  <2>2. due \in Seq(Start) /\ OneRunPerOccurrence
    BY EmptySeq DEF Init, OneRunPerOccurrence
  <2>. QED
    BY <2>1, <2>2, Bounds DEF Init, Occurrences
<1>6. Commits
  BY DEF Init, Commits
<1>7. Shapes
  BY Bounds DEF Init, Shapes
<1>. QED
  BY <1>3, <1>4, <1>5, <1>6, <1>7 DEF Inv

LEMMA StepKeeps == Inv /\ [Next]_vars => Inv'
<1>. SUFFICES ASSUME Inv, [Next]_vars PROVE Inv'
  OBVIOUS
<1>1. ASSUME NEW c \in Clients, NEW e \in Hooks, NEW x \in Contents, ReceiveWebhook(c, e, x)
      PROVE  Inv'
  BY <1>1, AskKeeps, IntakeAssumption DEF ReceiveWebhook, Keys, IntakeAssumption
<1>2. ASSUME NEW c \in Clients, NEW k \in Requests, CreateRun(c, k) PROVE Inv'
  BY <1>2, AskKeeps DEF CreateRun, Keys
<1>3. ASSUME NEW c \in Clients, ClaimDelivery(c) \/ ClaimRequest(c) PROVE Inv'
  BY <1>3, ClaimKeeps DEF ClaimDelivery, ClaimRequest
<1>4. ASSUME NEW c \in Clients, CommitChange(c) PROVE Inv'
  BY <1>4, CommitChangeKeeps
<1>5. ASSUME NEW k \in Hooks, Replay(k) PROVE Inv'
  BY <1>5, ReplayKeeps
<1>6. ASSUME NEW i \in 1..Len(runs), RunMoves(i) PROVE Inv'
  BY <1>6, RunMovesKeeps
<1>7. ASSUME (\E first \in BOOLEAN : Subscribe(first)) \/ Unsubscribe
             \/ \E x \in Contents \cup {None} : PageChanges(x)
      PROVE  Inv'
  <2>1. /\ page' \in Contents \cup {None}
        /\ UNCHANGED <<part, runs, keyed, cli, msg, scheduled, faults>>
        /\ changes' \in 0..MaxChanges
    <3>1. CASE \E first \in BOOLEAN : Subscribe(first)
      BY <3>1 DEF Subscribe, Inv, Shapes
    <3>2. CASE Unsubscribe
      BY <3>2 DEF Unsubscribe, Inv, Shapes
    <3>3. CASE \E x \in Contents \cup {None} : PageChanges(x)
      BY <3>3, Bounds DEF PageChanges, Inv, Shapes
    <3>. QED
      BY <1>7, <3>1, <3>2, <3>3
  <2>2. sub' \in Subscription /\ sub'.seen = sub.seen
    BY <1>7 DEF Subscribe, Unsubscribe, PageChanges, Inv, Pages, Subscription
  <2>3. \A c : Count(c)' = Count(c)
    BY <2>1 DEF Count, RunsOf
  <2>4. Pages'
    BY <2>2, <2>3 DEF Inv, Pages
  <2>. QED
    BY <2>1, <2>4, ClaimsKept, OccurrencesKept DEF Inv, Commits, Shapes, keyed, scheduled
<1>8. ASSUME NEW m \in Messages, Poll(m) PROVE Inv'
  BY <1>8, PollKeeps
<1>9. ASSUME NEW m \in Messages, NEW n \in Messages,
             \/ SendFirst(m) \/ TakePoll(m) \/ SendNext(m, n) \/ Acknowledge(m)
             \/ PollFails(m) \/ WorkerDies(m)
      PROVE  Inv'
  BY <1>9, PollingKeeps
<1>10. ASSUME NEW every \in {1, 2}, NEW mode \in Modes, CreateSchedule(mode, every) PROVE Inv'
  BY <1>10, CreateKeeps
<1>11. ASSUME NEW every \in {1, 2}, NEW immediately \in BOOLEAN, CreateProcess(every, immediately)
       PROVE  Inv'
  <2>1. "review" \in Modes
    BY DEF Modes
  <2>. QED
    BY <1>11, <2>1, CreateKeeps
<1>12. CASE BeginPass \/ BeginTrigger
  BY <1>12, BeginKeeps
<1>13. CASE CommitPass \/ CommitTrigger
  BY <1>13, CommitKeeps
<1>14. ASSUME NEW i \in 1..Len(due), CaseEnds(i) PROVE Inv'
  BY <1>14, CaseEndsKeeps
<1>15. ASSUME NEW c \in Clients, NEW edit \in Edits,
              AskChange(c, edit[1], edit[2]) \/ AskProcessChange(c, edit[1], edit[2])
       PROVE  Inv'
  BY <1>15, AskChangeKeeps
<1>16. CASE \/ DeleteSchedule \/ PassDies \/ ClockTicks
            \/ \E r \in {"admin", "member", "none"} : RoleChanges(r)
            \/ \E src \in [by : {"creator", "other"}, sound : BOOLEAN, enabled : BOOLEAN] :
                 SourceChanges(src)
  BY <1>16, AroundKeeps
<1>17. CASE DisableHook
  BY <1>17, ClaimsKept, PagesKept, OccurrencesKept DEF DisableHook, Inv, Commits, Shapes, polled,
     scheduled
<1>18. CASE UNCHANGED vars
  BY <1>18, ClaimsKept, PagesKept, OccurrencesKept DEF vars, Inv, Commits, Shapes
<1>. QED
  BY <1>1, <1>2, <1>3, <1>4, <1>5, <1>6, <1>7, <1>8, <1>9, <1>10, <1>11, <1>12, <1>13, <1>14,
     <1>15, <1>16, <1>17, <1>18 DEF Next

\* However often and however nearly at once an event, a key, a page or an
\* occurrence is delivered, by whatever crashes, retries, second passes and
\* changes, it starts one run, and every caller of a key is told that run.
THEOREM OneRunPerCauseHolds == Spec => []OneRunPerCause
<1>1. Init => Inv
  BY InitInv
<1>2. Inv /\ [Next]_vars => Inv'
  BY StepKeeps
<1>. QED
  BY <1>1, <1>2, InvImplies, PTL DEF Spec

\* A pass that lets a run write without a person finds its creator an
\* administrator, whatever the schedule, its source and the role were before.
THEOREM AutoOnlyWithRoleHolds == Spec => AutoOnlyWithRole
<1> DEFINE Authorised == ~Late /\ pass'.kind = "pass" /\ pass'.start.mode = "auto" => role = "admin"
<1>1. ASSUME [Next]_vars PROVE Authorised
  <2>1. CASE pass' = pass \/ pass' = Idle
    BY <2>1 DEF Late, Idle
  <2>2. CASE BeginPass
    BY <2>2 DEF BeginPass, NeedsReview, WritesAllowed, ReviewRun, ApprovedRun, Late, Idle
  <2>3. CASE BeginTrigger
    BY <2>3 DEF BeginTrigger
  <2>4. pass' = pass \/ pass' = Idle \/ BeginPass \/ BeginTrigger
    BY <1>1 DEF Next, vars, ReceiveWebhook, CreateRun, Ask, ClaimDelivery, ClaimRequest, Claim,
       CommitChange, Replay, RunMoves, Subscribe, SendFirst, TakePoll, Poll, Acknowledge, PollFails,
       WorkerDies, SendNext, PageChanges, CreateSchedule, CreateProcess, CommitPass, CommitTrigger,
       PassDies, CaseEnds, AskChange, AskProcessChange, RoleChanges, SourceChanges, DisableHook,
       Unsubscribe, DeleteSchedule, ClockTicks, scheduled, others
  <2>. QED
    BY <2>1, <2>2, <2>3, <2>4
<1>2. [Next]_vars => [Authorised]_vars
  BY <1>1
<1>. QED
  BY <1>2, PTL DEF Spec, AutoOnlyWithRole
===============================================================================
