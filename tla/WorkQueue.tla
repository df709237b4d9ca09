----------------------------- MODULE WorkQueue -----------------------------
(***************************************************************************)
(* The work queue that every protocol worker thread of the daemon (general,*)
(* modbus, bacnet) consumes: a ring buffer and a semaphore.  The queue is  *)
(* the bounded sequence that RingBuf implements; the message in hand stays *)
(* in its slot until it is popped.  Producers are outside the repository:  *)
(* they put a message into the ring and post queue_sem.  The workers extend*)
(* this module with what they do between the peek and the pop.             *)
(***************************************************************************)
EXTENDS Integers, Sequences, FiniteSets

CONSTANTS
    Producers,
    Kinds,         \* what a message may ask for
    Capacity,      \* slots of the work queue
    MaxMsgs,       \* bound: messages ever produced
    MaxInterrupts  \* bound: number of sem_wait calls a signal interrupts

ASSUME WorkQueueAssumption ==
    Capacity \in Nat \ {0} /\ MaxMsgs \in Nat /\ MaxInterrupts \in Nat

VARIABLES
    queue,      \* messages in the ring, oldest first
    asks,       \* what each message produced so far asks for
    posting,    \* producers between the put and the post
    queue_sem,
    pc,         \* where the worker is
    popped,     \* messages popped, in order (history)
    interrupts

qvars == <<queue, asks, posting, queue_sem, popped, interrupts>>

InitQueue ==
    /\ queue = <<>> /\ asks = <<>> /\ posting = {} /\ queue_sem = 0
    /\ pc = "wait" /\ popped = <<>> /\ interrupts = 0

InHand == Head(queue)
Ask == asks[InHand]
Handling == pc \notin {"wait", "check"}

\* A message is put when there is room.
Produce(p) ==
    /\ p \notin posting /\ Len(asks) < MaxMsgs /\ Len(queue) < Capacity
    /\ \E k \in Kinds : asks' = Append(asks, k)
    /\ queue' = Append(queue, Len(asks) + 1)
    /\ posting' = posting \cup {p}
    /\ UNCHANGED <<queue_sem, pc, popped, interrupts>>

PostSem(p) ==
    /\ p \in posting
    /\ posting' = posting \ {p}
    /\ queue_sem' = queue_sem + 1
    /\ UNCHANGED <<queue, asks, pc, popped, interrupts>>

\* sem_wait; its result is not looked at.
Wait ==
    /\ pc = "wait" /\ queue_sem > 0
    /\ queue_sem' = queue_sem - 1
    /\ pc' = "check"
    /\ UNCHANGED <<queue, asks, posting, popped, interrupts>>

\* Mutant: an interrupted wait takes the posts as well.
WaitInterruptedTakes ==
    /\ pc = "wait" /\ interrupts < MaxInterrupts /\ queue_sem > 0
    /\ interrupts' = interrupts + 1
    /\ queue_sem' = 0
    /\ UNCHANGED <<queue, asks, posting, pc, popped>>

\* A signal handler interrupts the wait: the worker goes on without a post.
WaitInterrupted ==
    /\ pc = "wait" /\ interrupts < MaxInterrupts
    /\ interrupts' = interrupts + 1
    /\ pc' = "check"
    /\ UNCHANGED <<queue, asks, posting, queue_sem, popped>>

\* Ringbuf_Empty: nothing to do.
Nothing ==
    /\ pc = "check" /\ queue = <<>>
    /\ pc' = "wait"
    /\ UNCHANGED qvars

\* The next step of the message in hand.
GoTo(here, there) ==
    /\ pc = here /\ pc' = there
    /\ UNCHANGED qvars

\* Ringbuf_Peek finds a message, and the worker goes on to the step given.
Found(there) == queue # <<>> /\ GoTo("check", there)

\* Mutant: a message followed by another takes that one with it.
PopTwice ==
    /\ pc = "pop"
    /\ queue' = IF Len(queue) > 1 THEN Tail(Tail(queue)) ELSE Tail(queue)
    /\ popped' = Append(popped, InHand)
    /\ pc' = "wait"
    /\ UNCHANGED <<asks, posting, queue_sem, interrupts>>

\* Mutant: the message stays in the ring.
PopNothing ==
    /\ pc = "pop"
    /\ pc' = "wait"
    /\ UNCHANGED qvars

\* Ringbuf_Pop
Pop ==
    /\ pc = "pop"
    /\ queue' = Tail(queue)
    /\ popped' = Append(popped, InHand)
    /\ pc' = "wait"
    /\ UNCHANGED <<asks, posting, queue_sem, interrupts>>

Idle == Wait \/ WaitInterrupted \/ Nothing \/ Pop

Producing == \E p \in Producers : Produce(p) \/ PostSem(p)

-----------------------------------------------------------------------------
(* Properties every worker has to keep *)

\* The queue's state has the types the code gives it; a message in hand is in it.
QueueTypeOK ==
    /\ asks \in Seq(Kinds) /\ Len(asks) <= MaxMsgs
    /\ queue \in Seq(1..Len(asks)) /\ Len(queue) <= Capacity
    /\ posting \subseteq Producers
    /\ queue_sem \in 0..MaxMsgs
    /\ popped \in Seq(1..MaxMsgs) /\ interrupts \in 0..MaxInterrupts
    /\ Handling => queue # <<>>

\* No message is left without a post that will bring the worker to it, although
\* the worker also comes for messages that are not posted yet, and then finds posts
\* whose message is gone.
PostsCoverQueue ==
    Len(queue) <= queue_sem + Cardinality(posting) + (IF pc = "wait" THEN 0 ELSE 1)

\* Messages leave the queue in the order they were put, each once.
PoppedInOrder == popped = [i \in 1..Len(popped) |-> i]

\* Every message put is popped in the end.  (The producers stop after MaxMsgs messages, so
\* the worker catches up with them again and again.)
EventuallyPopped == []<>(Len(popped) >= Len(asks))
=============================================================================
