---------------------------- MODULE MessageQueue ----------------------------
(***************************************************************************)
(* The message queue (sdk/module/message_queue/message_queue.c), at every  *)
(* step two threads can interleave.  Its free list and its queue are the   *)
(* same structure: an array of slots, a count, two positions and a place   *)
(* to sleep.  A sender takes a message from the pool and puts it into the  *)
(* queue, a receiver the other way round; a user of the allocator alone    *)
(* gives what it takes back to the pool.  Memory is sequentially           *)
(* consistent.                                                             *)
(***************************************************************************)
EXTENDS Integers, FiniteSets

CONSTANTS
    Senders, Receivers, Users,  \* threads that block
    Pollers,                    \* receivers that call tryread and do something else
    max_depth,                  \* after round_to_pow2
    MaxTakes                    \* bound: messages a thread takes

Threads == Senders \cup Receivers \cup Users \cup Pollers
Sides == {"pool", "queue"}
Messages == 1..max_depth
NULL == 0

VARIABLES
    slots,      \* freelist and queue_data
    count,      \* free_blocks and entries
    getpos,     \* allocpos and readpos
    putpos,     \* freepos and writepos
    blocked_readers, sem,
    pc,         \* where a thread is in an operation
    rv,         \* the message it has loaded
    pos,        \* the position it works at
    takes       \* messages taken (bound)

lvars == <<rv, pos, takes>>
mqvars == <<slots, count, getpos, putpos, blocked_readers, sem, pc, lvars>>

\* message_queue_init
QueueInit ==
    /\ slots = [s \in Sides |-> [k \in 0..(max_depth - 1) |-> IF s = "pool" THEN k + 1 ELSE NULL]]
    /\ count = [s \in Sides |-> IF s = "pool" THEN max_depth ELSE 0]
    /\ getpos = [s \in Sides |-> 0] /\ putpos = [s \in Sides |-> 0]
    /\ blocked_readers = [s \in Sides |-> 0] /\ sem = [s \in Sides |-> 0]
    /\ pc = [t \in Threads |-> "try"]
    /\ rv = [t \in Threads |-> NULL] /\ pos = [t \in Threads |-> 0]
    /\ takes = [t \in Threads |-> 0]

\* Where a thread takes from, and where it puts to.
From(t) == IF t \in Receivers \cup Pollers THEN "queue" ELSE "pool"
To(t) == IF t \in Senders THEN "queue" ELSE "pool"

Go(t, here, there) == pc[t] = here /\ pc' = [pc EXCEPT ![t] = there]
Slot(p) == p % max_depth

-----------------------------------------------------------------------------
(* message_queue_message_alloc and message_queue_tryread: with the suffix 2 the try of a
   thread that has registered as blocked, with the suffix 3 the one after a wakeup *)

Tries == {"try", "try2", "try3"}
Fails == [try |-> "restore", try2 |-> "restore2", try3 |-> "restore3"]
Gets == [try |-> "get", try2 |-> "get2", try3 |-> "get"]

\* __sync_fetch_and_add(&count, -1) > 0
Dec(t) ==
    /\ takes[t] < MaxTakes
    /\ \E here \in Tries : Go(t, here, IF count[From(t)] > 0 THEN Gets[here] ELSE Fails[here])
    /\ count' = [count EXCEPT ![From(t)] = @ - 1]
    /\ UNCHANGED <<slots, getpos, putpos, blocked_readers, sem, lvars>>

\* Nothing there: the count is restored; who does not block does something else.
Restore(t) ==
    /\ \/ Go(t, "restore", IF t \in Pollers THEN "try" ELSE "register")
       \/ Go(t, "restore2", "sleep")
       \/ Go(t, "restore3", "register")
    /\ count' = [count EXCEPT ![From(t)] = @ + 1]
    /\ UNCHANGED <<slots, getpos, putpos, blocked_readers, sem, lvars>>

\* The position.
GetPos(t) ==
    /\ Go(t, "get", "load") \/ Go(t, "get2", "load2")
    /\ pos' = [pos EXCEPT ![t] = getpos[From(t)]]
    /\ getpos' = [getpos EXCEPT ![From(t)] = @ + 1]
    /\ UNCHANGED <<slots, count, putpos, blocked_readers, sem, rv, takes>>

\* The slot is read until it holds a message,
Load(t) ==
    /\ slots[From(t)][Slot(pos[t])] # NULL
    /\ Go(t, "load", "clear") \/ Go(t, "load2", "clear2")
    /\ rv' = [rv EXCEPT ![t] = slots[From(t)][Slot(pos[t])]]
    /\ UNCHANGED <<slots, count, getpos, putpos, blocked_readers, sem, pos, takes>>

\* and then cleared.
Clear(t) ==
    /\ Go(t, "clear", "put") \/ Go(t, "clear2", "unregister")
    /\ slots' = [slots EXCEPT ![From(t)][Slot(pos[t])] = NULL]
    /\ takes' = [takes EXCEPT ![t] = @ + 1]
    /\ UNCHANGED <<count, getpos, putpos, blocked_readers, sem, rv, pos>>

-----------------------------------------------------------------------------
(* message_queue_message_alloc_blocking and message_queue_read *)

Register(t) ==
    /\ Go(t, "register", "try2")
    /\ blocked_readers' = [blocked_readers EXCEPT ![From(t)] = @ + 1]
    /\ UNCHANGED <<slots, count, getpos, putpos, sem, lvars>>

\* Mutant: the thread goes on without taking its registration back.
UnregisterNot(t) ==
    /\ Go(t, "unregister", "put")
    /\ UNCHANGED <<slots, count, getpos, putpos, blocked_readers, sem, lvars>>

\* The second try has succeeded.
Unregister(t) ==
    /\ Go(t, "unregister", "put")
    /\ blocked_readers' = [blocked_readers EXCEPT ![From(t)] = @ - 1]
    /\ UNCHANGED <<slots, count, getpos, putpos, sem, lvars>>

\* sem_wait
Sleep(t) ==
    /\ sem[From(t)] > 0
    /\ Go(t, "sleep", "try3")
    /\ sem' = [sem EXCEPT ![From(t)] = @ - 1]
    /\ UNCHANGED <<slots, count, getpos, putpos, blocked_readers, lvars>>

-----------------------------------------------------------------------------
(* message_queue_message_free and message_queue_write *)

PutPos(t) ==
    /\ Go(t, "put", "store")
    /\ pos' = [pos EXCEPT ![t] = putpos[To(t)]]
    /\ putpos' = [putpos EXCEPT ![To(t)] = @ + 1]
    /\ UNCHANGED <<slots, count, getpos, blocked_readers, sem, rv, takes>>

\* Mutant: the slot is not looked at.
AwaitNot(t) ==
    /\ Go(t, "store", "fill")
    /\ UNCHANGED <<slots, count, getpos, putpos, blocked_readers, sem, lvars>>

\* The slot is read until it is empty,
Await(t) ==
    /\ slots[To(t)][Slot(pos[t])] = NULL
    /\ Go(t, "store", "fill")
    /\ UNCHANGED <<slots, count, getpos, putpos, blocked_readers, sem, lvars>>

\* and then filled.
Fill(t) ==
    /\ Go(t, "fill", "inc")
    /\ slots' = [slots EXCEPT ![To(t)][Slot(pos[t])] = rv[t]]
    /\ rv' = [rv EXCEPT ![t] = NULL]
    /\ UNCHANGED <<count, getpos, putpos, blocked_readers, sem, pos, takes>>

Inc(t) ==
    /\ Go(t, "inc", "look")
    /\ count' = [count EXCEPT ![To(t)] = @ + 1]
    /\ UNCHANGED <<slots, getpos, putpos, blocked_readers, sem, lvars>>

\* if(blocked_readers): two threads may see the same one.
Look(t) ==
    /\ Go(t, "look", IF blocked_readers[To(t)] # 0 THEN "unblock" ELSE "try")
    /\ UNCHANGED <<slots, count, getpos, putpos, blocked_readers, sem, lvars>>

Unblock(t) ==
    /\ Go(t, "unblock", "post")
    /\ blocked_readers' = [blocked_readers EXCEPT ![To(t)] = @ - 1]
    /\ UNCHANGED <<slots, count, getpos, putpos, sem, lvars>>

Post(t) ==
    /\ Go(t, "post", "try")
    /\ sem' = [sem EXCEPT ![To(t)] = @ + 1]
    /\ UNCHANGED <<slots, count, getpos, putpos, blocked_readers, lvars>>

Step(t) ==
    \/ Dec(t) \/ Restore(t) \/ GetPos(t) \/ Load(t) \/ Clear(t) \/ Register(t)
    \/ Unregister(t) \/ Sleep(t) \/ PutPos(t) \/ Await(t) \/ Fill(t) \/ Inc(t) \/ Look(t)
    \/ Unblock(t) \/ Post(t)

QueueNext == \E t \in Threads : Step(t)
QueueSpec == QueueInit /\ [][QueueNext]_mqvars

-----------------------------------------------------------------------------
(* Properties *)

\* A message is in one hand or in one slot, never in two and never in none: none is
\* allocated or read twice, and none is lost.  A thread that has loaded a message has it
\* once the slot is cleared.
Holds(t, m) == rv[t] = m /\ pc[t] \notin {"clear", "clear2"}
Holders(m) == {t \in Threads : Holds(t, m)}
SlotsWith(m) == {p \in Sides \X (0..(max_depth - 1)) : slots[p[1]][p[2]] = m}
OwnedOnce ==
    \A m \in Messages : Cardinality(Holders(m)) + Cardinality(SlotsWith(m)) = 1

\* Threads that have registered as blocked and not gone on since, and those between taking a
\* registration back and their post.
Blocked(s) ==
    {t \in Threads :
        /\ From(t) = s
        /\ pc[t] \in {"try2", "restore2", "get2", "load2", "clear2", "unregister", "sleep"}}
Posting(s) == {t \in Threads : To(t) = s /\ pc[t] = "post"}

\* Every thread that is registered or asleep is in blocked_readers, has a post on its way or
\* one in the semaphore, and nothing else is: whoever takes a registration back, the reader
\* itself (message_queue.c:170, :229) or one that wakes it (:188, :203), several at a time and
\* below zero too, no sleeper is left that nobody counts, and no post is left over.
SleepersAreAccounted ==
    \A s \in Sides :
        blocked_readers[s] + sem[s] + Cardinality(Posting(s)) = Cardinality(Blocked(s))

\* "This reads a message from the queue, blocking if necessary until one is available"
\* (message_queue.h:151-152): a thread does not sleep on while a message is there for it and
\* no thread that blocks is on the way to take it, or any to wake a sleeper.
Busy(s) ==
    \E t \in Threads :
        \/ From(t) = s /\ t \notin Pollers /\ pc[t] # "sleep" /\ takes[t] < MaxTakes
        \/ To(t) = s /\ pc[t] \in {"look", "unblock", "post"}
Asleep(s) == \E t \in Threads : pc[t] = "sleep" /\ From(t) = s
NoLostWakeup == \A s \in Sides : Asleep(s) /\ sem[s] = 0 /\ count[s] > 0 => Busy(s)
=============================================================================
