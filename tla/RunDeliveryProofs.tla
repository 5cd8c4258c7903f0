--------------------------- MODULE RunDeliveryProofs ---------------------------
(***************************************************************************)
(* Publishers, sweeps and workers never disagree about the outbox: every   *)
(* intent a publisher holds is its own and still pending, for any number   *)
(* of workers and dispatchers, any outage, crash or loss.                  *)
(*                                                                         *)
(* The argument.  What is held is counted by class.  A publisher takes an  *)
(* intent only beyond those that are held (SKIP LOCKED), it takes away     *)
(* only what it holds, or what nobody holds, and a retry puts an intent    *)
(* off only while nothing is held (it waits for the row lock).             *)
(***************************************************************************)
EXTENDS RunDelivery, FiniteSetTheorems, TLAPS

\* There are finitely many publishers.
FinitelyMany == IsFiniteSet(Publishers)

\* What has been handed to the broker is still held.
Marked == \A p \in Publishers : out[p] => hand[p] # "none"

Inv == OutboxConsistent /\ Marked

Hold(k) == {p \in Publishers : hand[p] = k}

LEMMA HeldNat ==
  ASSUME FinitelyMany, NEW k
  PROVE  IsFiniteSet(Hold(k)) /\ Held(k) \in Nat /\ Held(k) = Cardinality(Hold(k))
<1>1. IsFiniteSet(Hold(k))
  BY FS_Subset DEF Hold, FinitelyMany
<1>2. Held(k) = Cardinality(Hold(k))
  BY DEF Held, Hold
<1>. QED
  BY <1>1, <1>2, FS_CardinalityType

\* A publisher takes an intent of the class x in its hand.
LEMMA HeldTaken ==
  ASSUME FinitelyMany, TypeOK, NEW p \in Publishers, NEW x \in {"due", "later"},
         hand[p] = "none", hand' = [hand EXCEPT ![p] = x]
  PROVE  /\ Held(x)' = Held(x) + 1
         /\ \A k \in {"due", "later"} \ {x} : Held(k)' = Held(k)
<1>1. Hold(x)' = Hold(x) \cup {p} /\ p \notin Hold(x)
  BY DEF TypeOK, Hold
<1>2. \A k \in {"due", "later"} \ {x} : Hold(k)' = Hold(k)
  BY DEF TypeOK, Hold
<1>3. Cardinality(Hold(x) \cup {p}) = Cardinality(Hold(x)) + 1
  BY <1>1, HeldNat, FS_AddElement
<1>4. \A k : Held(k)' = Cardinality(Hold(k)')
  BY DEF Held, Hold
<1>. QED
  BY <1>1, <1>2, <1>3, <1>4, HeldNat

\* A publisher opens its hand.
LEMMA HeldReleased ==
  ASSUME FinitelyMany, TypeOK, NEW p \in Publishers, NEW x \in {"due", "later"},
         hand[p] = x, hand' = [hand EXCEPT ![p] = "none"]
  PROVE  /\ Held(x)' = Held(x) - 1 /\ Held(x) > 0
         /\ \A k \in {"due", "later"} \ {x} : Held(k)' = Held(k)
<1>1. Hold(x)' = Hold(x) \ {p} /\ p \in Hold(x)
  BY DEF TypeOK, Hold
<1>2. \A k \in {"due", "later"} \ {x} : Hold(k)' = Hold(k)
  BY DEF TypeOK, Hold
<1>3. Cardinality(Hold(x) \ {p}) = Cardinality(Hold(x)) - 1
  BY <1>1, HeldNat, FS_RemoveElement
<1>4. Cardinality(Hold(x)) > 0
  BY <1>1, HeldNat, FS_EmptySet, FS_CardinalityType
<1>5. \A k : Held(k)' = Cardinality(Hold(k)')
  BY DEF Held, Hold
<1>. QED
  BY <1>1, <1>2, <1>3, <1>4, <1>5, HeldNat

\* Nobody holds anything.
LEMMA HeldNone ==
  ASSUME FinitelyMany, NoneHeld
  PROVE  \A k \in {"due", "later"} : Held(k) = 0
<1>1. \A k \in {"due", "later"} : Hold(k) = {}
  BY DEF NoneHeld, Hold
<1>. QED
  BY <1>1, HeldNat, FS_EmptySet

\* The hands are as they were, and what they hold is still there.
LEMMA Untouched ==
  ASSUME FinitelyMany, Inv, TypeOK', UNCHANGED hands,
         Held("due") <= due', Held("later") <= later'
  PROVE  Inv'
<1>1. \A k : Held(k)' = Held(k)
  BY DEF Held, hands
<1>. QED
  BY <1>1 DEF Inv, OutboxConsistent, HeldIsPending, Marked, hands

\* The outbox is as it was, or has grown.
LEMMA Grown ==
  ASSUME FinitelyMany, Inv, TypeOK', UNCHANGED hands,
         UNCHANGED outbox \/ AddDue \/ AddLater
  PROVE  Inv'
<1>1. Held("due") \in Nat /\ Held("later") \in Nat
  BY HeldNat
<1>2. Held("due") <= due' /\ Held("later") <= later'
  BY <1>1 DEF Inv, OutboxConsistent, TypeOK, HeldIsPending, outbox, AddDue, AddLater
<1>. QED
  BY <1>2, Untouched

\* An intent is put off while nothing is held.
LEMMA PutOff ==
  ASSUME FinitelyMany, Inv, TypeOK', UNCHANGED hands, NoneHeld
  PROVE  Inv'
<1>1. Held("due") <= due' /\ Held("later") <= later'
  BY HeldNone DEF TypeOK
<1>. QED
  BY <1>1, Untouched

\* What an intent that is put off leaves of the counts.
LEMMA PutOffNat ==
  ASSUME TypeOK, NEW w \in Workers, PutOffOne \/ PutOffSeen(w)
  PROVE  due' \in Nat /\ later' \in Nat
<1>1. due \in Nat /\ later \in Nat /\ wk[w].saw \in Nat
  BY DEF TypeOK, Worker
<1>2. CASE PutOffOne
  BY <1>1, <1>2 DEF PutOffOne, outbox
<1>3. CASE PutOffSeen(w)
  BY <1>1, <1>3 DEF PutOffSeen, Pending
<1>. QED
  BY <1>2, <1>3
-------------------------------------------------------------------------------
LEMMA SelectKeeps ==
  ASSUME FinitelyMany, Inv, NEW p \in Publishers, Select(p)
  PROVE  Inv'
<1>1. PICK k \in Selectable(p) : hand' = [hand EXCEPT ![p] = k]
  BY DEF Select
<1>2. /\ k \in {"due", "later"} /\ Held(k) < (IF k = "due" THEN due ELSE later)
      /\ hand[p] = "none"
  BY DEF Selectable, Select, MaySelect
<1>3. TypeOK'
  BY <1>1, <1>2 DEF Select, Inv, OutboxConsistent, TypeOK, outbox, broker, counters
<1>4. /\ Held(k)' = Held(k) + 1
      /\ \A j \in {"due", "later"} \ {k} : Held(j)' = Held(j)
  BY <1>1, <1>2, HeldTaken DEF Inv, OutboxConsistent
<1>5. HeldIsPending'
  BY <1>2, <1>4, HeldNat DEF Select, outbox, Inv, OutboxConsistent, HeldIsPending, TypeOK
<1>6. Marked'
  BY <1>1, <1>2 DEF Select, Marked, Inv, OutboxConsistent, TypeOK
<1>. QED
  BY <1>3, <1>5, <1>6 DEF Inv, OutboxConsistent

LEMMA SupersedeKeeps ==
  ASSUME FinitelyMany, Inv, NEW p \in Publishers, Supersede(p)
  PROVE  Inv'
<1>1. PICK k \in Selectable(p) : Remove(k)
  BY DEF Supersede
<1>2. k \in {"due", "later"} /\ Held(k) < (IF k = "due" THEN due ELSE later)
  BY DEF Selectable
<1>3. due \in Nat /\ later \in Nat /\ Held("due") \in Nat /\ Held("later") \in Nat
  BY HeldNat DEF Inv, OutboxConsistent, TypeOK
<1>4. due' \in Nat /\ later' \in Nat /\ Held("due") <= due' /\ Held("later") <= later'
  BY <1>1, <1>2, <1>3 DEF Remove, Inv, OutboxConsistent, HeldIsPending
<1>5. TypeOK'
  BY <1>4 DEF Supersede, Inv, OutboxConsistent, TypeOK, broker, hands, counters
<1>. QED
  BY <1>4, <1>5, Untouched DEF Supersede

LEMMA PublishKeeps ==
  ASSUME FinitelyMany, Inv, NEW p \in Publishers, Publish(p)
  PROVE  Inv'
<1>1. TypeOK'
  BY DEF Publish, Inv, OutboxConsistent, TypeOK, outbox, counters
<1>2. hand' = hand /\ due' = due /\ later' = later /\ out' = [out EXCEPT ![p] = TRUE]
  BY DEF Publish, outbox
<1>3. HeldIsPending'
  BY <1>2 DEF Inv, OutboxConsistent, HeldIsPending, Held
<1>4. Marked'
  BY <1>2 DEF Publish, Marked, Inv, OutboxConsistent, TypeOK
<1>. QED
  BY <1>1, <1>3, <1>4 DEF Inv, OutboxConsistent

\* A hand is opened, and what it held is at most removed.
LEMMA OpenedKeeps ==
  ASSUME FinitelyMany, Inv, NEW p \in Publishers, NEW x \in {"due", "later"}, hand[p] = x,
         hand' = [hand EXCEPT ![p] = "none"], TypeOK', Marked',
         due' >= (IF x = "due" THEN due - 1 ELSE due),
         later' >= (IF x = "later" THEN later - 1 ELSE later)
  PROVE  Inv'
<1>1. /\ Held(x)' = Held(x) - 1
      /\ \A k \in {"due", "later"} \ {x} : Held(k)' = Held(k)
  BY HeldReleased DEF Inv, OutboxConsistent
<1>2. due \in Nat /\ later \in Nat /\ due' \in Nat /\ later' \in Nat
  BY DEF Inv, OutboxConsistent, TypeOK
<1>3. Held("due") \in Nat /\ Held("later") \in Nat
  BY HeldNat
<1>4. Held("due") <= due /\ Held("later") <= later
  BY DEF Inv, OutboxConsistent, HeldIsPending
<1>5. CASE x = "due"
  <2>1. Held("due")' = Held("due") - 1 /\ Held("later")' = Held("later")
    BY <1>1, <1>5
  <2>. QED
    BY <2>1, <1>2, <1>3, <1>4, <1>5 DEF Inv, OutboxConsistent, HeldIsPending
<1>6. CASE x = "later"
  <2>1. Held("later")' = Held("later") - 1 /\ Held("due")' = Held("due")
    BY <1>1, <1>6
  <2>. QED
    BY <2>1, <1>2, <1>3, <1>4, <1>6 DEF Inv, OutboxConsistent, HeldIsPending
<1>. QED
  BY <1>5, <1>6

LEMMA CommitKeeps ==
  ASSUME FinitelyMany, Inv, NEW p \in Publishers, CommitPublished(p)
  PROVE  Inv'
<1>1. PICK x \in {"due", "later"} : hand[p] = x
  BY DEF CommitPublished, Inv, OutboxConsistent, Marked, TypeOK
<1>2. Held(x) > 0 /\ Held("due") <= due /\ Held("later") <= later
  BY <1>1, HeldReleased DEF CommitPublished, Inv, OutboxConsistent, HeldIsPending
<1>3. due \in Nat /\ later \in Nat /\ Held("due") \in Nat /\ Held("later") \in Nat
  BY HeldNat DEF Inv, OutboxConsistent, TypeOK
<1>4. /\ due' = (IF x = "due" THEN due - 1 ELSE due)
      /\ later' = (IF x = "later" THEN later - 1 ELSE later)
  BY <1>1 DEF CommitPublished, Remove
<1>5. due' \in Nat /\ later' \in Nat
  BY <1>2, <1>3, <1>4
<1>6. TypeOK'
  BY <1>5 DEF CommitPublished, Inv, OutboxConsistent, TypeOK, broker, counters
<1>7. Marked'
  BY DEF CommitPublished, Inv, OutboxConsistent, Marked, TypeOK
<1>8. hand' = [hand EXCEPT ![p] = "none"]
  BY DEF CommitPublished
<1>9. /\ due' >= (IF x = "due" THEN due - 1 ELSE due)
      /\ later' >= (IF x = "later" THEN later - 1 ELSE later)
  BY <1>3, <1>4
<1>. QED
  BY <1>1, <1>6, <1>7, <1>8, <1>9, OpenedKeeps

LEMMA BrokerDownKeeps ==
  ASSUME FinitelyMany, Inv, NEW p \in Publishers, BrokerDown(p)
  PROVE  Inv'
<1>1. PICK x \in {"due", "later"} : hand[p] = x
  BY DEF BrokerDown, Inv, OutboxConsistent, TypeOK
<1>2. Held(x) > 0 /\ Held("due") <= due
  BY <1>1, HeldReleased DEF BrokerDown, Inv, OutboxConsistent, HeldIsPending
<1>3. due \in Nat /\ later \in Nat /\ Held("due") \in Nat
  BY HeldNat DEF Inv, OutboxConsistent, TypeOK
<1>4. /\ due' \in Nat /\ later' \in Nat
      /\ due' >= (IF x = "due" THEN due - 1 ELSE due)
      /\ later' >= (IF x = "later" THEN later - 1 ELSE later)
  BY <1>1, <1>2, <1>3 DEF BrokerDown
<1>5. TypeOK'
  BY <1>4 DEF BrokerDown, Inv, OutboxConsistent, TypeOK, broker, counters
<1>6. Marked'
  BY DEF BrokerDown, Inv, OutboxConsistent, Marked, TypeOK
<1>7. hand' = [hand EXCEPT ![p] = "none"]
  BY DEF BrokerDown
<1>. QED
  BY <1>1, <1>4, <1>5, <1>6, <1>7, OpenedKeeps

\* A publisher that dies loses its lock on the row, not the row.
LEMMA DeathKeeps ==
  ASSUME FinitelyMany, Inv, NEW p \in Publishers, TypeOK',
         hand' = [hand EXCEPT ![p] = "none"], out' = [out EXCEPT ![p] = FALSE],
         due' = due, later' = later
  PROVE  Inv'
<1>1. Marked'
  BY DEF Inv, OutboxConsistent, Marked, TypeOK
<1>2. CASE hand[p] # "none"
  <2>1. PICK x \in {"due", "later"} : hand[p] = x
    BY <1>2 DEF Inv, OutboxConsistent, TypeOK
  <2>2. due \in Nat /\ later \in Nat
    BY DEF Inv, OutboxConsistent, TypeOK
  <2>3. /\ due' >= (IF x = "due" THEN due - 1 ELSE due)
        /\ later' >= (IF x = "later" THEN later - 1 ELSE later)
    BY <2>2
  <2>. QED
    BY <1>1, <2>1, <2>3, OpenedKeeps
<1>3. CASE hand[p] = "none"
  <2>1. hand' = hand
    BY <1>3 DEF Inv, OutboxConsistent, TypeOK
  <2>. QED
    BY <2>1, <1>1 DEF Inv, OutboxConsistent, HeldIsPending, Held
<1>. QED
  BY <1>2, <1>3

\* When time passes, what was held for later is held as due.
LEMMA ElapseKeeps ==
  ASSUME FinitelyMany, Inv, Elapse
  PROVE  Inv'
<1>1. TypeOK'
  BY DEF Elapse, Inv, OutboxConsistent, TypeOK, counters
<1>2. hand' = [p \in Publishers |-> IF hand[p] = "later" THEN "due" ELSE hand[p]]
  BY DEF Elapse
<1>3. Hold("due")' = Hold("due") \cup Hold("later") /\ Hold("later")' = {}
  BY <1>2 DEF Hold
<1>4. Hold("due") \cap Hold("later") = {}
  BY DEF Hold
<1>5. Cardinality(Hold("due") \cup Hold("later")) = Held("due") + Held("later")
  <2>1. Cardinality({}) = 0
    BY FS_EmptySet
  <2>2. \A k : IsFiniteSet(Hold(k)) /\ Held(k) \in Nat /\ Held(k) = Cardinality(Hold(k))
    BY HeldNat
  <2>3. Cardinality(Hold("due") \cup Hold("later"))
          = Cardinality(Hold("due")) + Cardinality(Hold("later")) - Cardinality({})
    BY <1>4, <2>2, FS_Union
  <2>. QED
    BY <2>1, <2>2, <2>3
<1>6. Held("due")' = Held("due") + Held("later") /\ Held("later")' = 0
  BY <1>3, <1>5, FS_EmptySet DEF Held, Hold
<1>7. HeldIsPending'
  BY <1>6, HeldNat DEF Elapse, Inv, OutboxConsistent, HeldIsPending, TypeOK
<1>8. Marked'
  BY <1>2 DEF Elapse, Inv, Marked
<1>. QED
  BY <1>1, <1>7, <1>8 DEF Inv, OutboxConsistent
-------------------------------------------------------------------------------
\* A worker's delivery.
LEMMA WorkerTyped ==
  ASSUME TypeOK, NEW w \in Workers,
         NEW pc \in {"idle", "early", "working", "retrying", "closing", "tail"}
  PROVE  [wk EXCEPT ![w].pc = pc] \in [Workers -> Worker]
  BY DEF TypeOK, Worker

LEMMA IdleTyped == Idle \in Worker
  BY DEF Idle, Worker, RunStatus, Retry

LEMMA DeliverKeeps ==
  ASSUME FinitelyMany, Inv, NEW w \in Workers, Deliver(w) \/ Close(w)
  PROVE  Inv'
<1>1. UNCHANGED hands /\ UNCHANGED outbox
  BY DEF Deliver, Close, Begin, Drop, Release, EndDelivery
<1>2. TypeOK'
  <2>1. CASE Begin(w)
    <3>1. Pending \in Nat
      BY DEF Pending, Inv, OutboxConsistent, TypeOK
    <3>2. wk' \in [Workers -> Worker]
      BY <2>1, <3>1 DEF Begin, Inv, OutboxConsistent, TypeOK, Worker, Retry
    <3>. QED
      BY <2>1, <3>2 DEF Begin, Inv, OutboxConsistent, TypeOK, outbox, hands, counters
  <2>2. CASE Drop(w)
    <3>1. wk' \in [Workers -> Worker]
      BY <2>2, WorkerTyped DEF Drop, Goto, Inv, OutboxConsistent
    <3>. QED
      BY <2>2, <3>1 DEF Drop, Inv, OutboxConsistent, TypeOK, outbox, hands, counters
  <2>3. CASE Release(w)
    <3>1. wk' \in [Workers -> Worker]
      BY <2>3, WorkerTyped DEF Release, Goto, Inv, OutboxConsistent
    <3>. QED
      BY <2>3, <3>1 DEF Release, Inv, OutboxConsistent, TypeOK, outbox, broker, hands, counters
  <2>4. CASE EndDelivery(w)
    <3>1. wk' \in [Workers -> Worker]
      BY <2>4, IdleTyped DEF EndDelivery, Inv, OutboxConsistent, TypeOK
    <3>. QED
      BY <2>4, <3>1 DEF EndDelivery, Inv, OutboxConsistent, TypeOK, outbox, broker, hands, counters
  <2>. QED
    BY <2>1, <2>2, <2>3, <2>4 DEF Deliver, Close
<1>. QED
  BY <1>1, <1>2, Grown

LEMMA WorkKeeps ==
  ASSUME FinitelyMany, Inv, NEW w \in Workers, Work(w)
  PROVE  Inv'
<1>1. TypeOK /\ wk[w].status \in RunStatus /\ wk[w].retry \in Retry
  BY DEF Inv, OutboxConsistent, TypeOK, Worker
<1>2. UNCHANGED hands
  BY DEF Work, PreserveRetry, Finish, AskRetry, CommitRetry, DeferVerification
<1>3. CASE PreserveRetry(w)
  <2>1. wk' \in [Workers -> Worker]
    BY <1>1, <1>3, WorkerTyped DEF PreserveRetry, Goto
  <2>2. UNCHANGED outbox \/ AddDue \/ AddLater \/ (NoneHeld /\ PutOffSeen(w))
    BY <1>3 DEF PreserveRetry
  <2>3. due' \in Nat /\ later' \in Nat
    BY <1>1, <2>2, PutOffNat DEF AddDue, AddLater, outbox, TypeOK
  <2>4. TypeOK'
    BY <1>1, <1>3, <2>1, <2>3 DEF PreserveRetry, TypeOK, broker, hands, counters
  <2>. QED
    BY <1>2, <2>2, <2>4, Grown, PutOff
<1>4. CASE Finish(w)
  <2>1. wk' \in [Workers -> Worker]
    BY <1>1, <1>4, WorkerTyped DEF Finish, Goto
  <2>2. Outcomes \subseteq RunStatus
    BY OutcomeAssumption DEF AllowedTransitions, RunStatus
  <2>3. status' \in RunStatus /\ stale' = FALSE
    BY <1>1, <1>4, <2>2 DEF Finish, Move, StoreStatus, TypeOK
  <2>4. TypeOK'
    BY <1>1, <1>4, <2>1, <2>3 DEF Finish, TypeOK, outbox, broker, hands, counters
  <2>. QED
    BY <1>2, <1>4, <2>4, Grown DEF Finish
<1>5. CASE AskRetry(w)
  <2>1. Pending \in Nat
    BY <1>1 DEF Pending, TypeOK
  <2>2. wk' \in [Workers -> Worker]
    <3>1. [wk[w] EXCEPT !.pc = "retrying", !.saw = Pending, !.retry = "preflight"] \in Worker
      BY <1>1, <2>1 DEF TypeOK, Worker, Retry
    <3>2. [pc |-> "retrying", status |-> status, saw |-> Pending, retry |-> "recovery"] \in Worker
      BY <1>1, <2>1 DEF TypeOK, Worker, Retry
    <3>. QED
      BY <1>1, <1>5, <3>1, <3>2 DEF AskRetry, TypeOK
  <2>3. TypeOK'
    BY <1>1, <1>5, <2>2 DEF AskRetry, TypeOK, outbox, broker, hands
  <2>. QED
    BY <1>2, <1>5, <2>3, Grown DEF AskRetry
<1>6. CASE CommitRetry(w)
  <2>1. wk' \in [Workers -> Worker]
    BY <1>1, <1>6, WorkerTyped DEF CommitRetry, Goto
  <2>2. \/ UNCHANGED outbox \/ AddLater
        \/ NoneHeld /\ (PutOffSeen(w) \/ PutOffOne)
    BY <1>6 DEF CommitRetry
  <2>3. due' \in Nat /\ later' \in Nat
    BY <1>1, <2>2, PutOffNat DEF AddLater, outbox, TypeOK
  <2>4. status' \in RunStatus /\ stale' = FALSE /\ waiting' \in Retry
    BY <1>1, <1>6 DEF CommitRetry, Move, StoreStatus, TypeOK, RunStatus
  <2>5. TypeOK'
    BY <1>1, <1>6, <2>1, <2>3, <2>4 DEF CommitRetry, TypeOK, broker, hands, counters
  <2>. QED
    BY <1>2, <2>2, <2>5, Grown, PutOff
<1>7. CASE DeferVerification(w)
  <2>1. wk' \in [Workers -> Worker]
    BY <1>1, <1>7, WorkerTyped DEF DeferVerification, Goto
  <2>2. NoneHeld /\ (AddLater \/ PutOffOne)
    BY <1>7 DEF DeferVerification
  <2>3. due' \in Nat /\ later' \in Nat
    BY <1>1, <2>2, PutOffNat DEF AddLater, TypeOK
  <2>4. status' \in RunStatus /\ stale' = FALSE /\ waiting' \in Retry
    BY <1>1, <1>7 DEF DeferVerification, Move, StoreStatus, TypeOK, RunStatus, Retry
  <2>5. TypeOK'
    <3>1. UNCHANGED <<ready, delayed, hand, out, holder, sweep, restarts, resumes, faults>>
      BY <1>7 DEF DeferVerification, broker, hands
    <3>2. retries' \in Nat
      BY <1>1, <1>7 DEF DeferVerification, TypeOK
    <3>. QED
      BY <1>1, <2>1, <2>3, <2>4, <3>1, <3>2 DEF TypeOK
  <2>. QED
    BY <1>2, <2>2, <2>5, PutOff
<1>. QED
  BY <1>3, <1>4, <1>5, <1>6, <1>7 DEF Work

\* The sweep, a person and the clock.
LEMMA SweepKeeps ==
  ASSUME FinitelyMany, Inv, Sweep \/ Resume \/ Age
  PROVE  Inv'
<1>1. UNCHANGED hands /\ (UNCHANGED outbox \/ AddDue)
  BY DEF Sweep, RecoverStale, DecidePark, CommitPark, Resume, Age
<1>2. due' \in Nat /\ later' \in Nat
  BY <1>1 DEF outbox, AddDue, Inv, OutboxConsistent, TypeOK
<1>3. TypeOK'
  <2>1. CASE RecoverStale
    <3>1. TypeOK /\ restarts \in 0..MaxRestarts /\ restarts < MaxRestarts
      BY <2>1 DEF RecoverStale, Inv, OutboxConsistent, TypeOK
    <3>2. restarts' \in 0..MaxRestarts
      BY <2>1, <3>1, BoundAssumption DEF RecoverStale
    <3>3. status' \in RunStatus /\ stale' = FALSE
      BY <2>1 DEF RecoverStale, Move, RunStatus
    <3>4. UNCHANGED <<waiting, ready, delayed, hand, out, holder, wk, sweep, retries, resumes,
                      faults>>
      BY <2>1 DEF RecoverStale, broker, hands
    <3>. QED
      BY <1>2, <3>1, <3>2, <3>3, <3>4 DEF TypeOK
  <2>2. CASE DecidePark
    BY <2>2, <1>2 DEF DecidePark, Inv, OutboxConsistent, TypeOK, outbox, broker, hands, counters
  <2>3. CASE CommitPark
    BY <2>3, <1>2 DEF CommitPark, Move, Inv, OutboxConsistent, TypeOK, RunStatus, outbox, broker,
                      hands, counters
  <2>4. CASE Resume
    <3>1. TypeOK
      BY DEF Inv, OutboxConsistent
    <3>2. status' \in RunStatus /\ stale' = FALSE /\ waiting' = "none"
      BY <2>4 DEF Resume, Move, RunStatus
    <3>3. UNCHANGED <<ready, delayed, hand, out, holder, wk, sweep, restarts, retries, faults>>
      BY <2>4 DEF Resume, broker, hands
    <3>4. resumes' \in Nat
      BY <2>4, <3>1 DEF Resume, TypeOK
    <3>. QED
      BY <1>2, <3>1, <3>2, <3>3, <3>4 DEF TypeOK
  <2>5. CASE Age
    BY <2>5, <1>2 DEF Age, Inv, OutboxConsistent, TypeOK, broker, hands, counters
  <2>. QED
    BY <2>1, <2>2, <2>3, <2>4, <2>5 DEF Sweep
<1>. QED
  BY <1>1, <1>3, Grown

LEMMA FaultsKeep ==
  ASSUME FinitelyMany, Inv, Faults
  PROVE  Inv'
<1>1. CASE LoseMessage
  <2>1. TypeOK'
    BY <1>1 DEF LoseMessage, Fault, Inv, OutboxConsistent, TypeOK, hands
  <2>. QED
    BY <1>1, <2>1, Grown DEF LoseMessage, outbox
<1>2. CASE \E p \in Publishers : BrokerDown(p)
  BY <1>2, BrokerDownKeeps
<1>3. ASSUME NEW p \in Dispatchers, DispatcherDies(p) PROVE Inv'
  <2>1. TypeOK'
    BY <1>3 DEF DispatcherDies, Fault, Inv, OutboxConsistent, TypeOK, broker, Publishers
  <2>. QED
    BY <1>3, <2>1, DeathKeeps DEF DispatcherDies, Publishers
<1>4. ASSUME NEW w \in Workers, WorkerDies(w) PROVE Inv'
  <2>1. wk' \in [Workers -> Worker]
    BY <1>4, IdleTyped DEF WorkerDies, Inv, OutboxConsistent, TypeOK
  <2>2. TypeOK'
    BY <1>4, <2>1 DEF WorkerDies, Fault, Inv, OutboxConsistent, TypeOK, Publishers
  <2>. QED
    BY <1>4, <2>2, DeathKeeps DEF WorkerDies, Publishers
<1>. QED
  BY <1>1, <1>2, <1>3, <1>4 DEF Faults

LEMMA InitEstablishes ==
  ASSUME FinitelyMany, Init PROVE Inv
<1>1. TypeOK
  <2>1. wk \in [Workers -> Worker] /\ status \in RunStatus
    BY IdleTyped DEF Init, RunStatus
  <2>2. restarts \in 0..MaxRestarts
    BY BoundAssumption DEF Init
  <2>. QED
    BY <2>1, <2>2 DEF Init, TypeOK
<1>2. NoneHeld
  BY DEF Init, NoneHeld
<1>3. HeldIsPending
  BY <1>2, HeldNone DEF Init, HeldIsPending
<1>4. Marked
  BY DEF Init, Marked
<1>. QED
  BY <1>1, <1>3, <1>4 DEF Inv, OutboxConsistent

LEMMA NextKeeps ==
  ASSUME FinitelyMany, Inv, [Next]_vars PROVE Inv'
<1>1. ASSUME NEW p \in Publishers, Dispatch(p) PROVE Inv'
  BY <1>1, SelectKeeps, SupersedeKeeps, PublishKeeps, CommitKeeps DEF Dispatch
<1>2. ASSUME NEW w \in Workers, Deliver(w) \/ Work(w) \/ Close(w) PROVE Inv'
  BY <1>2, DeliverKeeps, WorkKeeps
<1>3. CASE Elapse \/ Age \/ Sweep \/ Resume \/ Faults
  BY <1>3, ElapseKeeps, SweepKeeps, FaultsKeep
<1>4. CASE UNCHANGED vars
  BY <1>4 DEF vars, outbox, broker, hands, counters, Inv, OutboxConsistent, TypeOK, HeldIsPending,
              Held, Marked
<1>. QED
  BY <1>1, <1>2, <1>3, <1>4 DEF Next

\* Any number of workers and dispatchers share the outbox of a run without ever
\* holding an intent twice, or one that is gone (dispatch.py:97-122), and the
\* sweep never restarts a run more often than allowed.
THEOREM OutboxStaysConsistent ==
  ASSUME FinitelyMany PROVE Spec => []OutboxConsistent
<1>1. Init => Inv
  BY InitEstablishes
<1>2. Inv /\ [Next]_vars => Inv'
  BY NextKeeps
<1>3. Inv => OutboxConsistent
  BY DEF Inv
<1>. QED
  BY <1>1, <1>2, <1>3, PTL DEF Spec
================================================================================
