--------------------------- MODULE WorkQueueProof ---------------------------
(***************************************************************************)
(* What the proofs about the protocol workers share: the invariant of the  *)
(* work queue, for any number of producers and messages and any size of    *)
(* the ring, and that every step of the queue keeps it.                    *)
(***************************************************************************)
EXTENDS WorkQueue, FiniteSetTheorems, TLAPS

QueueTypes ==
    /\ asks \in Seq(Kinds) /\ Len(asks) <= MaxMsgs
    /\ queue \in Seq(Nat) /\ Len(queue) <= Capacity
    /\ posting \subseteq Producers /\ IsFiniteSet(posting)
    /\ queue_sem \in Nat /\ interrupts \in 0..MaxInterrupts
    /\ popped \in Seq(Nat)

\* What was popped and what is in the ring are all the messages, in order.
InOrder ==
    /\ Len(popped) + Len(queue) = Len(asks)
    /\ \A i \in 1..Len(popped) : popped[i] = i
    /\ \A i \in 1..Len(queue) : queue[i] = Len(popped) + i

\* There are no more posts than messages, and every message in the ring has one left.
PostsBounded == queue_sem + Cardinality(posting) <= Len(asks)
InHandIsThere == Handling => queue # <<>>

QueueInv == QueueTypes /\ InOrder /\ PostsBounded /\ PostsCoverQueue /\ InHandIsThere

-----------------------------------------------------------------------------
(* The queue *)

LEMMA QueueInit == InitQueue => QueueInv
  <1>1. IsFiniteSet({}) /\ Cardinality({}) = 0
    BY FS_EmptySet
  <1>2. QED
    BY <1>1, WorkQueueAssumption
    DEF InitQueue, QueueInv, QueueTypes, InOrder, PostsBounded, PostsCoverQueue,
        InHandIsThere, Handling

\* The first message of the ring follows the last one popped.
LEMMA InHandIsNext ==
    ASSUME QueueInv, Handling
    PROVE  /\ InHand = Len(popped) + 1 /\ InHand \in 1..Len(asks)
           /\ Ask \in Kinds
  BY DEF QueueInv, QueueTypes, InOrder, InHandIsThere, InHand, Ask

LEMMA ProduceKeepsQueue ==
    ASSUME QueueInv, NEW p \in Producers, Produce(p)
    PROVE  QueueInv'
  <1>1. PICK k \in Kinds : asks' = Append(asks, k)
    BY DEF Produce
  <1>2. /\ asks' \in Seq(Kinds) /\ Len(asks') = Len(asks) + 1 /\ Len(asks') <= MaxMsgs
        /\ queue' \in Seq(Nat) /\ Len(queue') = Len(queue) + 1 /\ Len(queue') <= Capacity
        /\ \A i \in 1..Len(queue) : queue'[i] = queue[i]
        /\ queue'[Len(queue) + 1] = Len(asks) + 1
    BY <1>1, WorkQueueAssumption DEF Produce, QueueInv, QueueTypes
  <1>3. IsFiniteSet(posting') /\ Cardinality(posting') = Cardinality(posting) + 1
        /\ Cardinality(posting) \in Nat
    BY FS_AddElement, FS_CardinalityType DEF Produce, QueueInv, QueueTypes
  <1>4. QueueTypes'
    BY <1>2, <1>3 DEF Produce, QueueInv, QueueTypes
  <1>5. InOrder'
    BY <1>2 DEF Produce, QueueInv, QueueTypes, InOrder
  <1>6. PostsBounded' /\ PostsCoverQueue'
    BY <1>2, <1>3 DEF Produce, QueueInv, QueueTypes, PostsBounded, PostsCoverQueue
  <1>7. InHandIsThere'
    BY <1>2 DEF InHandIsThere, QueueInv, QueueTypes
  <1>8. QED
    BY <1>4, <1>5, <1>6, <1>7 DEF QueueInv

LEMMA PostKeepsQueue ==
    ASSUME QueueInv, NEW p \in Producers, PostSem(p)
    PROVE  QueueInv'
  <1>1. IsFiniteSet(posting') /\ Cardinality(posting') = Cardinality(posting) - 1
        /\ Cardinality(posting) \in Nat
    BY FS_RemoveElement, FS_CardinalityType DEF PostSem, QueueInv, QueueTypes
  <1>2. QueueTypes'
    BY <1>1 DEF PostSem, QueueInv, QueueTypes
  <1>3. PostsBounded' /\ PostsCoverQueue'
    BY <1>1 DEF PostSem, QueueInv, QueueTypes, PostsBounded, PostsCoverQueue
  <1>4. InOrder' /\ InHandIsThere'
    BY DEF PostSem, QueueInv, InOrder, InHandIsThere, Handling
  <1>5. QED
    BY <1>2, <1>3, <1>4 DEF QueueInv

LEMMA PopKeepsQueue ==
    ASSUME QueueInv, Pop
    PROVE  QueueInv'
  <1>1. queue # <<>> /\ InHand = Len(popped) + 1
    BY InHandIsNext DEF Pop, Handling, QueueInv, InHandIsThere
  <1>2. /\ queue' \in Seq(Nat) /\ Len(queue') = Len(queue) - 1
        /\ \A i \in 1..(Len(queue) - 1) : queue'[i] = queue[i + 1]
        /\ popped' \in Seq(Nat) /\ Len(popped') = Len(popped) + 1
        /\ \A i \in 1..Len(popped) : popped'[i] = popped[i]
        /\ popped'[Len(popped) + 1] = Len(popped) + 1
    BY <1>1 DEF Pop, QueueInv, QueueTypes
  <1>3. QueueTypes'
    BY <1>2, WorkQueueAssumption DEF Pop, QueueInv, QueueTypes
  <1>4. InOrder'
    BY <1>2 DEF Pop, QueueInv, QueueTypes, InOrder
  <1>5. Cardinality(posting) \in Nat
    BY FS_CardinalityType DEF QueueInv, QueueTypes
  <1>6. PostsBounded' /\ PostsCoverQueue'
    BY <1>2, <1>5 DEF Pop, QueueInv, QueueTypes, PostsBounded, PostsCoverQueue
  <1>7. InHandIsThere'
    BY DEF Pop, InHandIsThere, Handling
  <1>8. QED
    BY <1>3, <1>4, <1>6, <1>7 DEF QueueInv

LEMMA WaitKeepsQueue ==
    ASSUME QueueInv, Wait \/ WaitInterrupted \/ Nothing
    PROVE  QueueInv'
  <1>1. Cardinality(posting) \in Nat
    BY FS_CardinalityType DEF QueueInv, QueueTypes
  <1>2. QueueTypes'
    BY WorkQueueAssumption
    DEF Wait, WaitInterrupted, Nothing, qvars, QueueInv, QueueTypes
  <1>3. PostsBounded' /\ PostsCoverQueue'
    BY <1>1 DEF Wait, WaitInterrupted, Nothing, qvars, QueueInv, QueueTypes, PostsBounded,
                PostsCoverQueue
  <1>4. InOrder' /\ InHandIsThere'
    BY DEF Wait, WaitInterrupted, Nothing, qvars, QueueInv, InOrder, InHandIsThere, Handling
  <1>5. QED
    BY <1>2, <1>3, <1>4 DEF QueueInv

\* A step between the peek and the pop, and the peek itself, leave the queue alone.
LEMMA StepKeepsQueue ==
    ASSUME QueueInv, UNCHANGED qvars,
           pc # "wait" /\ pc' # "wait",
           queue # <<>>
    PROVE  QueueInv'
  BY DEF qvars, QueueInv, QueueTypes, InOrder, PostsBounded, PostsCoverQueue, InHandIsThere,
         Handling

\* Idle steps of the worker and the producers' keep it.
LEMMA QueueStepsKeep ==
    ASSUME QueueInv, Idle \/ Producing
    PROVE  QueueInv'
  BY ProduceKeepsQueue, PostKeepsQueue, PopKeepsQueue, WaitKeepsQueue DEF Idle, Producing

\* The message in hand stays what it is while the producers go on, and while nothing happens
\* to the queue.
LEMMA SameMessage ==
    ASSUME UNCHANGED qvars
    PROVE  InHand' = InHand /\ Ask' = Ask
  BY DEF qvars, InHand, Ask

LEMMA ProducingSameMessage ==
    ASSUME QueueInv, Producing, Handling
    PROVE  InHand' = InHand /\ Ask' = Ask
  <1>1. queue # <<>> /\ InHand \in 1..Len(asks)
    BY InHandIsNext DEF QueueInv, InHandIsThere
  <1>2. queue'[1] = queue[1] /\ asks'[InHand] = asks[InHand] /\ queue' # <<>>
    <2>1. CASE UNCHANGED <<queue, asks>>
      BY <1>1, <2>1
    <2>2. CASE \E p \in Producers : Produce(p)
      <3>1. PICK k \in Kinds : /\ asks' = Append(asks, k) /\ asks \in Seq(Kinds)
                               /\ queue' = Append(queue, Len(asks) + 1) /\ queue \in Seq(Nat)
        BY <2>2 DEF Produce, QueueInv, QueueTypes
      <3>2. asks'[InHand] = asks[InHand]
        BY <1>1, <3>1
      <3>3. Len(queue) > 0 /\ Len(asks) \in Nat
        BY <1>1, <3>1
      <3>4. queue'[1] = queue[1] /\ queue' # <<>>
        BY <3>1, <3>3
      <3>5. QED BY <3>2, <3>4
    <2>3. QED BY <2>1, <2>2 DEF Producing, PostSem
  <1>3. InHand' = InHand
    BY <1>1, <1>2, QueueStepsKeep DEF InHand, QueueInv, QueueTypes
  <1>4. QED
    BY <1>2, <1>3 DEF Ask

\* The invariant gives what the runs check of a queue.
LEMMA QueueFollows ==
    ASSUME QueueInv
    PROVE  QueueTypeOK /\ PoppedInOrder /\ PostsCoverQueue
  <1>1. queue \in Seq(1..Len(asks)) /\ popped \in Seq(1..MaxMsgs)
    <2>1. \A i \in 1..Len(queue) : queue[i] \in 1..Len(asks)
      BY DEF QueueInv, QueueTypes, InOrder
    <2>2. \A i \in 1..Len(popped) : popped[i] \in 1..MaxMsgs
      BY WorkQueueAssumption DEF QueueInv, QueueTypes, InOrder
    <2>3. /\ queue = [i \in 1..Len(queue) |-> queue[i]] /\ Len(queue) \in Nat
          /\ popped = [i \in 1..Len(popped) |-> popped[i]] /\ Len(popped) \in Nat
      BY DEF QueueInv, QueueTypes
    <2>4. [i \in 1..Len(queue) |-> queue[i]] \in Seq(1..Len(asks))
      BY <2>1, <2>3
    <2>5. [i \in 1..Len(popped) |-> popped[i]] \in Seq(1..MaxMsgs)
      BY <2>2, <2>3
    <2>6. QED
      BY <2>3, <2>4, <2>5
  <1>2. queue_sem \in 0..MaxMsgs
    BY FS_CardinalityType, WorkQueueAssumption
    DEF QueueInv, QueueTypes, PostsBounded
  <1>3. QueueTypeOK
    BY <1>1, <1>2 DEF QueueInv, QueueTypes, InHandIsThere, QueueTypeOK
  <1>4. QED
    BY <1>3 DEF QueueInv, QueueTypes, InOrder, PoppedInOrder
=============================================================================
