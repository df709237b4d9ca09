------------------------- MODULE MessageQueueProof -------------------------
(***************************************************************************)
(* Theorems about MessageQueue: no message is allocated or read twice and  *)
(* none is lost, for any number of threads and any depth, when no side has *)
(* several threads that get and several that put.  Where a side has, a     *)
(* thread that has read its slot and not cleared it yet can be overtaken   *)
(* by a whole round, and a second thread gets the same message.  And, with *)
(* no such condition, every thread that sleeps is counted by someone who   *)
(* will wake it or can: which does not mean that it is woken for every     *)
(* message (NoLostWakeup, which TLC finds violated).                       *)
(***************************************************************************)
EXTENDS MessageQueue, FiniteSetTheorems, TLAPS

\* On each side of the queue at most one thread gets or at most one thread puts, as with the
\* two queues of examples/www_server.c.
OneGetter(s) == \A t, u \in Threads : From(t) = s /\ From(u) = s => t = u
OnePutter(s) == \A t, u \in Threads : To(t) = s /\ To(u) = s => t = u
OneSided ==
    /\ IsFiniteSet(Threads) /\ max_depth \in Nat \ {0}
    /\ \A s \in Sides : OneGetter(s) \/ OnePutter(s)

-----------------------------------------------------------------------------
(* Who is where *)

Loading(s) == {t \in Threads : From(t) = s /\ pc[t] \in {"load", "load2"}}
Clearing(s) == {t \in Threads : From(t) = s /\ pc[t] \in {"clear", "clear2"}}
Storing(s) == {t \in Threads : To(t) = s /\ pc[t] = "store"}
Filling(s) == {t \in Threads : To(t) = s /\ pc[t] = "fill"}
Drawers(s) == Loading(s) \cup Clearing(s)
Fillers(s) == Storing(s) \cup Filling(s)

\* The pool starts with max_depth messages put: its positions to put at run ahead by that.
Base(s) == IF s = "pool" THEN max_depth ELSE 0
Put(s) == putpos[s] + Base(s)
At(s, t) == pos[t] + Base(s)

Places == {"try", "try2", "try3", "restore", "restore2", "restore3", "get", "get2", "load",
           "load2", "clear", "clear2", "unregister", "register", "sleep", "put", "store",
           "fill", "inc", "look", "unblock", "post"}
Carrying == {"clear", "clear2", "unregister", "put", "store", "fill"}

Types ==
    /\ slots \in [Sides -> [0..(max_depth - 1) -> Messages \cup {NULL}]]
    /\ count \in [Sides -> Int] /\ getpos \in [Sides -> Nat] /\ putpos \in [Sides -> Nat]
    /\ pc \in [Threads -> Places] /\ pos \in [Threads -> Nat]
    /\ rv \in [Threads -> Messages \cup {NULL}]
    /\ \A t \in Threads : (rv[t] = NULL) <=> (pc[t] \notin Carrying)

-----------------------------------------------------------------------------
(* The counts *)

Restoring(s) == {t \in Threads : From(t) = s /\ pc[t] \in {"restore", "restore2", "restore3"}}
\* Threads whose step on the count is ahead of, or behind, their step on a position.
Owed(s) ==
    Restoring(s)
    \cup {t \in Threads : From(t) = s /\ pc[t] \in {"get", "get2"}}
    \cup {t \in Threads : To(t) = s /\ pc[t] \in {"store", "fill", "inc"}}
\* Threads with a message, or with a position to get one from, and none to put it at yet.
InTransit ==
    {t \in Threads :
        pc[t] \in {"load", "load2", "clear", "clear2", "unregister", "put"}}

Balance(s) == count[s] + Cardinality(Owed(s)) = Put(s) - getpos[s]
NotNegative(s) == count[s] + Cardinality(Restoring(s)) >= 0
Total ==
    (Put("pool") - getpos["pool"]) + (Put("queue") - getpos["queue"])
      + Cardinality(InTransit) = max_depth
Counts == Total /\ \A s \in Sides : Balance(s) /\ NotNegative(s)

\* What the counts say of one side's positions.
Bounds(s) ==
    /\ getpos[s] <= Put(s) /\ Put(s) <= getpos[s] + max_depth
    /\ Drawers(s) # {} => Put(s) < getpos[s] + max_depth
    /\ Fillers(s) # {} => getpos[s] < Put(s)

-----------------------------------------------------------------------------
(* One side's ring *)

\* Every thread works at a position of its own, the only one at the last.
Positions(s) ==
    /\ \A t \in Fillers(s) : At(s, t) < Put(s) /\ (OnePutter(s) => At(s, t) = Put(s) - 1)
    /\ \A t, u \in Fillers(s) : pos[t] = pos[u] => t = u
    /\ \A t \in Drawers(s) : pos[t] < getpos[s] /\ (OneGetter(s) => pos[t] = getpos[s] - 1)
    /\ \A t, u \in Drawers(s) : pos[t] = pos[u] => t = u

\* Nobody gets ahead of an unfilled position but the thread that waits for it; nobody puts a
\* round ahead of a position that is not cleared but the thread that waits for that.
GetsBehind(s) ==
    \A t \in Fillers(s) :
        \/ getpos[s] <= At(s, t)
        \/ getpos[s] = At(s, t) + 1 /\ (\E u \in Loading(s) : pos[u] = At(s, t))
PutsBehind(s) ==
    \A t \in Drawers(s) :
        \/ Put(s) <= pos[t] + max_depth
        \/ /\ Put(s) = pos[t] + max_depth + 1
           /\ \E u \in Storing(s) : At(s, u) = pos[t] + max_depth

\* The positions that are filled and not cleared.
Live(s) ==
    {q \in 0..(Put(s) - 1) :
        /\ \A t \in Fillers(s) : At(s, t) # q
        /\ q >= getpos[s] \/ (\E t \in Drawers(s) : pos[t] = q)}

\* The slots with messages are those of live positions.
Content(s) ==
    \A k \in 0..(max_depth - 1) :
        (slots[s][k] # NULL) <=> (\E q \in Live(s) : Slot(q) = k)

\* What a thread has read of its slot still holds when it writes it.
StillTrue(s) ==
    /\ \A t \in Clearing(s) : pos[t] \in Live(s) /\ slots[s][Slot(pos[t])] = rv[t]
    /\ \A t \in Filling(s) : slots[s][Slot(pos[t])] = NULL

Ring(s) ==
    Positions(s) /\ GetsBehind(s) /\ PutsBehind(s) /\ Content(s) /\ StillTrue(s)

IInv == Types /\ Counts /\ (\A s \in Sides : Ring(s)) /\ OwnedOnce

-----------------------------------------------------------------------------
(* Slots *)

LEMMA EqualRemainders ==
    ASSUME NEW M \in Nat, M > 0, NEW x \in Int, NEW y \in Int, x % M = y % M
    PROVE  x - y = M * ((x \div M) - (y \div M))
  <1>1. x = M * (x \div M) + (x % M) /\ y = M * (y \div M) + (y % M)
    BY SMTT(30)
  <1>2. (x \div M) \in Int /\ (y \div M) \in Int /\ (x % M) \in Int
    BY SMTT(30)
  <1>3. ASSUME NEW A \in Int, NEW B \in Int
        PROVE  M * (A - B) = M * A - M * B
    BY SMTT(30)
  <1>4. M * ((x \div M) - (y \div M)) = M * (x \div M) - M * (y \div M)
    BY <1>2, <1>3
  <1>5. M * (x \div M) \in Int /\ M * (y \div M) \in Int
    BY <1>2, SMTT(30)
  <1> QED
    BY <1>1, <1>4, <1>5

LEMMA SlotRange ==
    ASSUME OneSided, NEW q \in Nat
    PROVE  Slot(q) \in 0..(max_depth - 1)
  BY SMTT(30) DEF Slot, OneSided

\* Two positions of one slot are a whole round apart.
LEMMA SlotApart ==
    ASSUME OneSided, NEW p \in Nat, NEW q \in Nat, Slot(p) = Slot(q), p < q
    PROVE  q >= p + max_depth
  <1> DEFINE n == (q \div max_depth) - (p \div max_depth)
  <1>1. max_depth \in Nat /\ max_depth > 0
    BY DEF OneSided
  <1>2. q - p = max_depth * n
    BY <1>1, EqualRemainders DEF Slot
  <1>3. n \in Int
    BY <1>1, SMTT(30)
  <1> HIDE DEF n
  <1>4. n > 0
    BY <1>1, <1>2, <1>3, SMTT(30)
  <1>5. max_depth * n >= max_depth
    BY <1>1, <1>3, <1>4, SMTT(30)
  <1> QED
    BY <1>1, <1>2, <1>5

\* The slot of a position is the one of the message that is put at it.
LEMMA SlotRound ==
    ASSUME OneSided, NEW q \in Nat, NEW s \in Sides
    PROVE  Slot(q + Base(s)) = Slot(q)
  <1>1. max_depth \in Nat /\ max_depth > 0
    BY DEF OneSided
  <1>2. (q + max_depth) % max_depth = q % max_depth
    <2> DEFINE d == q \div max_depth
               r == q % max_depth
    <2>1. d \in Int /\ r \in 0..(max_depth - 1) /\ q = max_depth * d + r
      BY <1>1, SMTT(30)
    <2>2. ASSUME NEW M \in Nat, M > 0, NEW c \in Int, NEW e \in 0..(M - 1)
          PROVE  (M * c + e) % M = e
      BY SMTT(30)
    <2>3. ASSUME NEW M \in Nat, NEW c \in Int
          PROVE  M * (c + 1) = M * c + M
      BY SMTT(30)
    <2> HIDE DEF d, r
    <2>4. q + max_depth = max_depth * (d + 1) + r
      <3>1. max_depth * (d + 1) = max_depth * d + max_depth /\ max_depth * d \in Int
        BY <1>1, <2>1, <2>3
      <3> QED
        BY <1>1, <2>1, <3>1
    <2>5. (max_depth * (d + 1) + r) % max_depth = r
      BY <1>1, <2>1, <2>2
    <2> QED
      BY <2>4, <2>5 DEF r
  <1>3. q + 0 = q
    OBVIOUS
  <1> QED
    BY <1>2, <1>3 DEF Slot, Base

-----------------------------------------------------------------------------
(* Types *)

LEMMA FromTo == \A t \in Threads : From(t) \in Sides /\ To(t) \in Sides
  BY DEF From, To, Sides

LEMMA TypesStay ==
    ASSUME OneSided, Types, NEW t \in Threads, Step(t)
    PROVE  Types'
  <1> USE FromTo DEF Types, Go, Places, Carrying
  <1>1. Slot(pos[t]) \in 0..(max_depth - 1)
    BY SlotRange
  <1>2. CASE Dec(t)
    <2>1. PICK there \in Places \ Carrying :
              pc[t] \notin Carrying /\ pc' = [pc EXCEPT ![t] = there]
      <3>1. PICK here \in Tries :
                Go(t, here, IF count[From(t)] > 0 THEN Gets[here] ELSE Fails[here])
        BY <1>2 DEF Dec
      <3>2. here \notin Carrying /\ Gets[here] \in Places \ Carrying
            /\ Fails[here] \in Places \ Carrying
        BY DEF Tries, Fails, Gets
      <3> QED BY <3>1, <3>2
    <2>2. /\ count' \in [Sides -> Int]
          /\ UNCHANGED <<slots, getpos, putpos, blocked_readers, sem, lvars>>
      BY <1>2 DEF Dec
    <2> QED
      BY <2>1, <2>2 DEF lvars
  <1>3. CASE Restore(t)
    <2>1. PICK there \in Places \ Carrying :
              pc[t] \notin Carrying /\ pc' = [pc EXCEPT ![t] = there]
      BY <1>3 DEF Restore
    <2> QED
      BY <1>3, <2>1 DEF Restore, lvars
  <1>4. CASE GetPos(t)
    <2>1. PICK there \in Places \ Carrying :
              pc[t] \notin Carrying /\ pc' = [pc EXCEPT ![t] = there]
      BY <1>4 DEF GetPos
    <2>2. pos' \in [Threads -> Nat] /\ getpos' \in [Sides -> Nat]
      BY <1>4 DEF GetPos
    <2> QED
      BY <1>4, <2>1, <2>2 DEF GetPos
  <1>5. CASE Load(t)
    <2>1. PICK there \in Carrying : pc' = [pc EXCEPT ![t] = there]
      BY <1>5 DEF Load
    <2>2. rv' \in [Threads -> Messages \cup {NULL}] /\ rv'[t] # NULL
      <3> DEFINE m == slots[From(t)][Slot(pos[t])]
      <3>1. m \in Messages \cup {NULL} /\ m # NULL
        BY <1>1, <1>5 DEF Load
      <3>2. rv' = [rv EXCEPT ![t] = m]
        BY <1>5 DEF Load
      <3> HIDE DEF m
      <3> QED
        BY <3>1, <3>2
    <2>3. \A u \in Threads : u # t => rv'[u] = rv[u] /\ pc'[u] = pc[u]
      BY <1>5, <2>1 DEF Load
    <2>4. pc' \in [Threads -> Places] /\ pc'[t] \in Carrying
      BY <2>1
    <2> QED
      BY <1>5, <2>2, <2>3, <2>4 DEF Load
  <1>6. CASE Clear(t)
    BY <1>1, <1>6 DEF Clear
  <1>7. CASE Register(t) \/ Unregister(t) \/ Sleep(t)
    BY <1>7 DEF Register, Unregister, Sleep, lvars
  <1>8. CASE PutPos(t)
    BY <1>8 DEF PutPos
  <1>9. CASE Await(t)
    BY <1>9 DEF Await, lvars
  <1>10. CASE Fill(t)
    BY <1>1, <1>10 DEF Fill
  <1>11. CASE Inc(t)
    BY <1>11 DEF Inc, lvars
  <1>12. CASE Look(t) \/ Unblock(t) \/ Post(t)
    BY <1>12 DEF Look, Unblock, Post, lvars
  <1> QED
    BY <1>2, <1>3, <1>4, <1>5, <1>6, <1>7, <1>8, <1>9, <1>10, <1>11, <1>12 DEF Step

-----------------------------------------------------------------------------
(* Counting threads *)

LEMMA SomeThreads ==
    ASSUME OneSided, NEW S, S \subseteq Threads
    PROVE  IsFiniteSet(S) /\ Cardinality(S) \in Nat
  BY FS_Subset, FS_CardinalityType DEF OneSided

LEMMA OneMore ==
    ASSUME OneSided, NEW S, S \subseteq Threads, NEW t \in Threads \ S, NEW T, T = S \cup {t}
    PROVE  Cardinality(T) = Cardinality(S) + 1
  BY SomeThreads, FS_AddElement

LEMMA OneLess ==
    ASSUME OneSided, NEW S, S \subseteq Threads, NEW t \in S, NEW T, T = S \ {t}
    PROVE  Cardinality(T) = Cardinality(S) - 1
  BY SomeThreads, FS_RemoveElement

LEMMA AreThreads ==
    /\ InTransit \subseteq Threads
    /\ \A s \in Sides : Owed(s) \subseteq Threads /\ Restoring(s) \subseteq Owed(s)
  BY DEF InTransit, Owed, Restoring

\* The positions of a side follow from the counts.
LEMMA CountsBound ==
    ASSUME OneSided, Types, Counts, NEW s \in Sides
    PROVE  Bounds(s)
  <1>1. \A r \in Sides :
            /\ Cardinality(Owed(r)) \in Nat /\ Cardinality(Restoring(r)) \in Nat
            /\ Cardinality(Restoring(r)) <= Cardinality(Owed(r))
            /\ Cardinality(Restoring(r)) = Cardinality(Owed(r)) => Restoring(r) = Owed(r)
    <2> TAKE r \in Sides
    <2>1. Owed(r) \subseteq Threads /\ Restoring(r) \in SUBSET Owed(r)
      BY AreThreads
    <2>2. IsFiniteSet(Owed(r)) /\ Cardinality(Owed(r)) \in Nat
      BY <2>1, SomeThreads
    <2>3. Cardinality(Restoring(r)) \in Nat
      BY <2>1, SomeThreads
    <2> QED
      BY <2>1, <2>2, <2>3, FS_Subset
  <1>2. IsFiniteSet(InTransit) /\ Cardinality(InTransit) \in Nat
    BY AreThreads, SomeThreads
  <1>3. \A r \in Sides : Put(r) \in Int /\ getpos[r] \in Int /\ count[r] \in Int
    BY DEF Types, Put, Base, OneSided
  <1>4. \A r \in Sides : Put(r) - getpos[r] >= 0
    BY <1>1, <1>3 DEF Counts, Balance, NotNegative
  <1>5. "pool" \in Sides /\ "queue" \in Sides /\ (s = "pool" \/ s = "queue")
    BY DEF Sides
  <1>6. Put(s) - getpos[s] + Cardinality(InTransit) <= max_depth
    BY <1>2, <1>3, <1>4, <1>5 DEF Counts, Total, OneSided
  <1>7. Drawers(s) # {} => Cardinality(InTransit) > 0
    <2>1. Drawers(s) # {} => InTransit # {}
      BY DEF Drawers, Loading, Clearing, InTransit
    <2> QED
      BY <1>2, <2>1, FS_EmptySet
  <1>8. Fillers(s) # {} => Restoring(s) # Owed(s)
    BY DEF Fillers, Storing, Filling, Restoring, Owed
  <1>9. Fillers(s) # {} => Put(s) - getpos[s] > 0
    BY <1>1, <1>3, <1>8 DEF Counts, Balance, NotNegative
  <1> QED
    BY <1>2, <1>3, <1>4, <1>6, <1>7, <1>9 DEF Bounds, OneSided

-----------------------------------------------------------------------------
(* The counts stay true *)

\* What the sums range over.
LEMMA SumTypes ==
    ASSUME OneSided, Types, NEW s \in Sides
    PROVE  /\ count[s] \in Int /\ getpos[s] \in Int /\ putpos[s] \in Int /\ Base(s) \in Int
           /\ Cardinality(Owed(s)) \in Int /\ Cardinality(Restoring(s)) \in Nat
           /\ Cardinality(InTransit) \in Int
  <1>1. Restoring(s) \subseteq Threads
    BY DEF Restoring
  <1> QED
    BY <1>1, AreThreads, SomeThreads DEF Types, Base, OneSided

\* A step that neither counts nor moves a position.
LEMMA QuietCounts ==
    ASSUME OneSided, Types, Counts, NEW t \in Threads,
           Load(t) \/ Clear(t) \/ Register(t) \/ Unregister(t) \/ Sleep(t)
             \/ Await(t) \/ Fill(t) \/ Look(t) \/ Unblock(t) \/ Post(t)
    PROVE  Counts'
  <1>1. UNCHANGED <<count, getpos, putpos>>
    BY DEF Load, Clear, Register, Unregister, Sleep, Await, Fill, Look, Unblock, Post
  <1>2. \A u \in Threads :
            /\ pc'[u] \in {"restore", "restore2", "restore3"}
                 <=> pc[u] \in {"restore", "restore2", "restore3"}
            /\ pc'[u] \in {"get", "get2"} <=> pc[u] \in {"get", "get2"}
            /\ pc'[u] \in {"store", "fill", "inc"} <=> pc[u] \in {"store", "fill", "inc"}
            /\ pc'[u] \in {"load", "load2", "clear", "clear2", "unregister", "put"}
                 <=> pc[u] \in {"load", "load2", "clear", "clear2", "unregister", "put"}
    BY DEF Load, Clear, Register, Unregister, Sleep, Await, Fill, Look, Unblock, Post,
           Go, Types
  <1>3. InTransit' = InTransit
    BY <1>2 DEF InTransit
  <1>4. \A s \in Sides : Restoring(s)' = Restoring(s)
    BY <1>2 DEF Restoring
  <1>5. \A s \in Sides : Owed(s)' = Owed(s)
    BY <1>2, <1>4 DEF Owed
  <1> QED
    BY <1>1, <1>3, <1>4, <1>5 DEF Counts, Total, Balance, NotNegative, Put

LEMMA DecCounts ==
    ASSUME OneSided, Types, Counts, NEW t \in Threads, Dec(t)
    PROVE  Counts'
  <1> DEFINE r == From(t)
  <1>1. r \in Sides /\ UNCHANGED <<getpos, putpos>> /\ count'[r] = count[r] - 1
        /\ \A s \in Sides : s # r => count'[s] = count[s]
    BY FromTo DEF Dec, Types
  <1>2. InTransit' = InTransit
    BY DEF Dec, Go, Tries, Gets, Fails, InTransit, Types
  <1>3. t \notin Owed(r) /\ Owed(r)' = Owed(r) \cup {t}
    BY DEF Dec, Go, Tries, Gets, Fails, Owed, Restoring, Types
  <1>4. \A s \in Sides : s # r => Owed(s)' = Owed(s) /\ Restoring(s)' = Restoring(s)
    BY DEF Dec, Go, Tries, Gets, Fails, Owed, Restoring, Types
  <1>5. Cardinality(Owed(r)') = Cardinality(Owed(r)) + 1
    BY <1>1, <1>3, AreThreads, OneMore
  <1>6. NotNegative(r)'
    <2>1. CASE count[r] > 0
      <3>1. Restoring(r)' = Restoring(r)
        BY <2>1 DEF Dec, Go, Tries, Gets, Fails, Restoring, Types
      <3> QED
        BY <1>1, <2>1, <3>1, SumTypes DEF NotNegative
    <2>2. CASE ~(count[r] > 0)
      <3>1. t \notin Restoring(r) /\ Restoring(r)' = Restoring(r) \cup {t}
        BY <2>2 DEF Dec, Go, Tries, Gets, Fails, Restoring, Types
      <3>2. Restoring(r) \subseteq Threads
        BY DEF Restoring
      <3>3. Cardinality(Restoring(r)') = Cardinality(Restoring(r)) + 1
        BY <3>1, <3>2, OneMore
      <3> QED
        BY <1>1, <3>3, SumTypes DEF NotNegative, Counts
    <2> QED
      BY <2>1, <2>2
  <1> HIDE DEF r
  <1>7. Total'
    BY <1>1, <1>2 DEF Counts, Total, Put
  <1>8. \A s \in Sides : Balance(s)' /\ NotNegative(s)'
    <2>1. Balance(r)'
      BY <1>1, <1>5, SumTypes DEF Counts, Balance, Put
    <2> QED
      BY <1>1, <1>4, <1>6, <2>1 DEF Counts, Balance, NotNegative, Put
  <1> QED
    BY <1>7, <1>8 DEF Counts

LEMMA RestoreCounts ==
    ASSUME OneSided, Types, Counts, NEW t \in Threads, Restore(t)
    PROVE  Counts'
  <1> DEFINE r == From(t)
  <1>1. r \in Sides /\ UNCHANGED <<getpos, putpos>> /\ count'[r] = count[r] + 1
        /\ \A s \in Sides : s # r => count'[s] = count[s]
    BY FromTo DEF Restore, Types
  <1>2. InTransit' = InTransit
    BY DEF Restore, Go, InTransit, Types
  <1>3. t \in Restoring(r) /\ Restoring(r)' = Restoring(r) \ {t}
    BY DEF Restore, Go, Restoring, Types
  <1>4. t \in Owed(r) /\ Owed(r)' = Owed(r) \ {t}
    BY DEF Restore, Go, Owed, Restoring, Types
  <1>5. \A s \in Sides : s # r => Owed(s)' = Owed(s) /\ Restoring(s)' = Restoring(s)
    BY DEF Restore, Go, Owed, Restoring, Types
  <1>6. /\ Cardinality(Owed(r)') = Cardinality(Owed(r)) - 1
        /\ Cardinality(Restoring(r)') = Cardinality(Restoring(r)) - 1
    <2>1. Restoring(r) \subseteq Threads /\ Owed(r) \subseteq Threads
      BY <1>1, AreThreads
    <2> QED
      BY <1>3, <1>4, <2>1, OneLess
  <1> HIDE DEF r
  <1>7. Total'
    BY <1>1, <1>2 DEF Counts, Total, Put
  <1>8. \A s \in Sides : Balance(s)' /\ NotNegative(s)'
    <2>1. Balance(r)' /\ NotNegative(r)'
      BY <1>1, <1>6, SumTypes DEF Counts, Balance, NotNegative, Put
    <2> QED
      BY <1>1, <1>5, <2>1 DEF Counts, Balance, NotNegative, Put
  <1> QED
    BY <1>7, <1>8 DEF Counts

LEMMA GetPosCounts ==
    ASSUME OneSided, Types, Counts, NEW t \in Threads, GetPos(t)
    PROVE  Counts'
  <1> DEFINE r == From(t)
  <1>1. r \in Sides /\ UNCHANGED <<count, putpos>> /\ getpos'[r] = getpos[r] + 1
        /\ \A s \in Sides : s # r => getpos'[s] = getpos[s]
    BY FromTo DEF GetPos, Types
  <1>2. t \notin InTransit /\ InTransit' = InTransit \cup {t}
    BY DEF GetPos, Go, InTransit, Types
  <1>3. t \in Owed(r) /\ Owed(r)' = Owed(r) \ {t}
    BY DEF GetPos, Go, Owed, Restoring, Types
  <1>4. \A s \in Sides : Restoring(s)' = Restoring(s) /\ (s # r => Owed(s)' = Owed(s))
    BY DEF GetPos, Go, Owed, Restoring, Types
  <1>5. Cardinality(Owed(r)') = Cardinality(Owed(r)) - 1
    BY <1>1, <1>3, AreThreads, OneLess
  <1>6. Cardinality(InTransit') = Cardinality(InTransit) + 1
    BY <1>2, AreThreads, OneMore
  <1> HIDE DEF r
  <1>7. Total'
    <2>1. "pool" \in Sides /\ "queue" \in Sides /\ (r = "pool" \/ r = "queue")
      BY <1>1 DEF Sides
    <2> QED
      BY <1>1, <1>6, <2>1, SumTypes DEF Counts, Total, Put
  <1>8. \A s \in Sides : Balance(s)' /\ NotNegative(s)'
    <2>1. Balance(r)'
      BY <1>1, <1>5, SumTypes DEF Counts, Balance, Put
    <2> QED
      BY <1>1, <1>4, <2>1 DEF Counts, Balance, NotNegative, Put
  <1> QED
    BY <1>7, <1>8 DEF Counts

LEMMA PutPosCounts ==
    ASSUME OneSided, Types, Counts, NEW t \in Threads, PutPos(t)
    PROVE  Counts'
  <1> DEFINE r == To(t)
  <1>1. r \in Sides /\ UNCHANGED <<count, getpos>> /\ putpos'[r] = putpos[r] + 1
        /\ \A s \in Sides : s # r => putpos'[s] = putpos[s]
    BY FromTo DEF PutPos, Types
  <1>2. t \in InTransit /\ InTransit' = InTransit \ {t}
    BY DEF PutPos, Go, InTransit, Types
  <1>3. t \notin Owed(r) /\ Owed(r)' = Owed(r) \cup {t}
    BY DEF PutPos, Go, Owed, Restoring, Types
  <1>4. \A s \in Sides : Restoring(s)' = Restoring(s) /\ (s # r => Owed(s)' = Owed(s))
    BY DEF PutPos, Go, Owed, Restoring, Types
  <1>5. Cardinality(Owed(r)') = Cardinality(Owed(r)) + 1
    BY <1>1, <1>3, AreThreads, OneMore
  <1>6. Cardinality(InTransit') = Cardinality(InTransit) - 1
    BY <1>2, AreThreads, OneLess
  <1> HIDE DEF r
  <1>7. Total'
    <2>1. "pool" \in Sides /\ "queue" \in Sides /\ (r = "pool" \/ r = "queue")
      BY <1>1 DEF Sides
    <2> QED
      BY <1>1, <1>6, <2>1, SumTypes DEF Counts, Total, Put
  <1>8. \A s \in Sides : Balance(s)' /\ NotNegative(s)'
    <2>1. Balance(r)'
      BY <1>1, <1>5, SumTypes DEF Counts, Balance, Put
    <2> QED
      BY <1>1, <1>4, <2>1 DEF Counts, Balance, NotNegative, Put
  <1> QED
    BY <1>7, <1>8 DEF Counts

LEMMA IncCounts ==
    ASSUME OneSided, Types, Counts, NEW t \in Threads, Inc(t)
    PROVE  Counts'
  <1> DEFINE r == To(t)
  <1>1. r \in Sides /\ UNCHANGED <<getpos, putpos>> /\ count'[r] = count[r] + 1
        /\ \A s \in Sides : s # r => count'[s] = count[s]
    BY FromTo DEF Inc, lvars, Types
  <1>2. InTransit' = InTransit
    BY DEF Inc, Go, InTransit, Types
  <1>3. t \in Owed(r) /\ Owed(r)' = Owed(r) \ {t}
    BY DEF Inc, Go, Owed, Restoring, Types
  <1>4. \A s \in Sides : Restoring(s)' = Restoring(s) /\ (s # r => Owed(s)' = Owed(s))
    BY DEF Inc, Go, Owed, Restoring, Types
  <1>5. Cardinality(Owed(r)') = Cardinality(Owed(r)) - 1
    BY <1>1, <1>3, AreThreads, OneLess
  <1> HIDE DEF r
  <1>6. Total'
    BY <1>1, <1>2 DEF Counts, Total, Put
  <1>7. \A s \in Sides : Balance(s)' /\ NotNegative(s)'
    <2>1. Balance(r)'
      BY <1>1, <1>5, SumTypes DEF Counts, Balance, Put
    <2>2. NotNegative(r)'
      <3>1. Cardinality(Restoring(r)') = Cardinality(Restoring(r))
        BY <1>1, <1>4
      <3> QED
        BY <1>1, <3>1, SumTypes DEF Counts, NotNegative
    <2> QED
      BY <1>1, <1>4, <2>1, <2>2 DEF Counts, Balance, NotNegative, Put
  <1> QED
    BY <1>6, <1>7 DEF Counts

LEMMA CountsStay ==
    ASSUME OneSided, Types, Counts, NEW t \in Threads, Step(t)
    PROVE  Counts'
  BY QuietCounts, DecCounts, RestoreCounts, GetPosCounts, PutPosCounts, IncCounts DEF Step

-----------------------------------------------------------------------------
(* What one side's ring says *)

LEMMA RingTypes ==
    ASSUME OneSided, Types, NEW s \in Sides
    PROVE  /\ max_depth \in Nat /\ max_depth > 0
           /\ Put(s) \in Nat /\ getpos[s] \in Nat /\ Base(s) \in Nat
           /\ \A t \in Threads :
                  /\ pos[t] \in Nat /\ At(s, t) \in Nat /\ At(s, t) = pos[t] + Base(s)
                  /\ Slot(At(s, t)) = Slot(pos[t])
  <1>1. max_depth \in Nat /\ max_depth > 0 /\ Base(s) \in Nat
    BY DEF OneSided, Base
  <1>2. Put(s) \in Nat /\ getpos[s] \in Nat
    BY <1>1 DEF Types, Put
  <1>3. ASSUME NEW t \in Threads
        PROVE  /\ pos[t] \in Nat /\ At(s, t) \in Nat /\ At(s, t) = pos[t] + Base(s)
               /\ Slot(At(s, t)) = Slot(pos[t])
    BY <1>1, SlotRound DEF Types, At
  <1> QED
    BY <1>1, <1>2, <1>3

LEMMA OnSide ==
    ASSUME NEW s \in Sides
    PROVE  /\ Drawers(s) \subseteq Threads /\ Fillers(s) \subseteq Threads
           /\ Loading(s) \subseteq Drawers(s) /\ Clearing(s) \subseteq Drawers(s)
           /\ Storing(s) \subseteq Fillers(s) /\ Filling(s) \subseteq Fillers(s)
           /\ \A t \in Drawers(s) : From(t) = s
           /\ \A t \in Fillers(s) : To(t) = s
  BY DEF Drawers, Fillers, Loading, Clearing, Storing, Filling

\* A live position is a natural number below the next one to put at.
LEMMA LivePositions ==
    ASSUME OneSided, Types, NEW s \in Sides, NEW q \in Live(s)
    PROVE  /\ q \in Nat /\ q < Put(s)
           /\ \A t \in Fillers(s) : At(s, t) # q
           /\ q >= getpos[s] \/ \E t \in Drawers(s) : pos[t] = q
  BY RingTypes DEF Live

LEMMA IsLive ==
    ASSUME OneSided, Types, NEW s \in Sides, NEW q \in Nat, q < Put(s),
           \A t \in Fillers(s) : At(s, t) # q,
           q >= getpos[s] \/ \E t \in Drawers(s) : pos[t] = q
    PROVE  q \in Live(s)
  BY RingTypes DEF Live

\* Two live positions have two slots.
LEMMA LiveApart ==
    ASSUME OneSided, Types, NEW s \in Sides, Bounds(s), Ring(s),
           NEW p \in Live(s), NEW q \in Live(s), Slot(p) = Slot(q)
    PROVE  p = q
  <1>1. ASSUME NEW a \in Live(s), NEW b \in Live(s), Slot(a) = Slot(b), a < b
        PROVE  FALSE
    <2>1. a \in Nat /\ b \in Nat /\ b < Put(s)
      BY LivePositions
    <2>2. b >= a + max_depth
      BY <1>1, <2>1, SlotApart
    <2>3. a < getpos[s]
      BY <2>1, <2>2, RingTypes DEF Bounds
    <2>4. PICK d \in Drawers(s) : pos[d] = a
      BY <2>1, <2>3, LivePositions, RingTypes
    <2>5. PICK u \in Storing(s) :
              Put(s) = a + max_depth + 1 /\ At(s, u) = a + max_depth
      BY <2>1, <2>2, <2>4, RingTypes DEF Ring, PutsBehind
    <2>6. At(s, u) = b
      BY <2>1, <2>2, <2>5, RingTypes
    <2> QED
      BY <2>5, <2>6, OnSide, LivePositions
  <1>2. p \in Nat /\ q \in Nat
    BY LivePositions
  <1> QED
    BY <1>1, <1>2

\* Two threads that put work at two slots.
LEMMA FillersApart ==
    ASSUME OneSided, Types, NEW s \in Sides, Bounds(s), Ring(s),
           NEW t \in Fillers(s), NEW u \in Fillers(s), Slot(pos[t]) = Slot(pos[u])
    PROVE  t = u
  <1>1. ASSUME NEW f \in Fillers(s), NEW g \in Fillers(s), Slot(pos[f]) = Slot(pos[g]),
               At(s, f) < At(s, g)
        PROVE  FALSE
    <2>1. f \in Threads /\ g \in Threads
      BY OnSide
    <2>2. At(s, g) >= At(s, f) + max_depth
      BY <1>1, <2>1, SlotApart, RingTypes
    <2>3. At(s, g) < Put(s)
      BY DEF Ring, Positions
    <2>4. getpos[s] > At(s, f)
      BY <2>1, <2>2, <2>3, RingTypes DEF Bounds
    <2>5. PICK v \in Loading(s) : getpos[s] = At(s, f) + 1 /\ pos[v] = At(s, f)
      BY <2>1, <2>4, RingTypes DEF Ring, GetsBehind
    <2>6. Put(s) < getpos[s] + max_depth
      BY <2>5, OnSide DEF Bounds
    <2> QED
      BY <2>1, <2>2, <2>3, <2>5, <2>6, RingTypes
  <1>2. t \in Threads /\ u \in Threads
    BY OnSide
  <1>3. At(s, t) = At(s, u)
    BY <1>1, <1>2, RingTypes
  <1>4. pos[t] = pos[u]
    BY <1>2, <1>3, RingTypes
  <1> QED
    BY <1>4 DEF Ring, Positions

\* A thread that finds a message in its slot finds the one of its own position.
LEMMA LoadedIsLive ==
    ASSUME OneSided, Types, NEW s \in Sides, Bounds(s), Ring(s),
           NEW t \in Loading(s), slots[s][Slot(pos[t])] # NULL
    PROVE  pos[t] \in Live(s)
  <1> DEFINE p == pos[t]
  <1>1. t \in Threads /\ t \in Drawers(s) /\ p \in Nat /\ p < getpos[s] /\ p < Put(s)
    BY OnSide, RingTypes DEF Ring, Positions, Bounds
  <1>2. ASSUME NEW f \in Fillers(s), At(s, f) = p
        PROVE  FALSE
    <2>1. getpos[s] = p + 1
      BY <1>1, <1>2, RingTypes DEF Ring, GetsBehind
    <2>2. ~OnePutter(s)
      <3>1. Put(s) > p + 1
        BY <1>1, <1>2, <2>1, RingTypes DEF Bounds
      <3> QED
        BY <1>1, <1>2, <3>1, RingTypes DEF Ring, Positions
    <2>3. OneGetter(s)
      BY <2>2 DEF OneSided
    <2>4. PICK q \in Live(s) : Slot(q) = Slot(p)
      BY <1>1, SlotRange DEF Ring, Content
    <2>5. q \in Nat /\ q < Put(s) /\ q # p
      BY <1>2, <2>4, LivePositions
    <2>6. CASE q > p
      <3>1. q >= p + max_depth
        BY <1>1, <2>4, <2>5, <2>6, SlotApart
      <3>2. Put(s) < getpos[s] + max_depth
        BY <1>1 DEF Bounds
      <3> QED
        BY <1>1, <2>1, <2>5, <3>1, <3>2, RingTypes
    <2>7. CASE q < p
      <3>1. PICK d \in Drawers(s) : pos[d] = q
        BY <1>1, <2>1, <2>5, <2>7, LivePositions, RingTypes
      <3>2. d = t
        BY <1>1, <2>3, <3>1, OnSide DEF OneGetter
      <3> QED
        BY <2>5, <3>1, <3>2
    <2> QED
      BY <1>1, <2>5, <2>6, <2>7
  <1> QED
    BY <1>1, <1>2, IsLive

-----------------------------------------------------------------------------
(* The ring stays true *)

\* What a side's ring is made of, unchanged.
SameRing(s) ==
    /\ UNCHANGED <<slots[s], getpos[s], putpos[s]>>
    /\ UNCHANGED <<Loading(s), Clearing(s), Storing(s), Filling(s)>>
    /\ \A t \in Drawers(s) \cup Fillers(s) : UNCHANGED <<pos[t], rv[t]>>

LEMMA RingFrame ==
    ASSUME NEW s \in Sides, Ring(s), SameRing(s)
    PROVE  Ring(s)'
  <1>1. /\ slots'[s] = slots[s] /\ getpos'[s] = getpos[s] /\ putpos'[s] = putpos[s]
        /\ Loading(s)' = Loading(s) /\ Clearing(s)' = Clearing(s)
        /\ Storing(s)' = Storing(s) /\ Filling(s)' = Filling(s)
        /\ \A t \in Drawers(s) \cup Fillers(s) : pos'[t] = pos[t] /\ rv'[t] = rv[t]
    BY DEF SameRing
  <1>2. /\ Drawers(s)' = Drawers(s) /\ Fillers(s)' = Fillers(s) /\ Put(s)' = Put(s)
        /\ \A t \in Fillers(s) : At(s, t)' = At(s, t)
    BY <1>1 DEF Drawers, Fillers, Put, At
  <1>3. Live(s)' = Live(s)
    BY <1>1, <1>2 DEF Live
  <1>4. Positions(s)'
    BY <1>1, <1>2 DEF Ring, Positions
  <1>5. GetsBehind(s)' /\ PutsBehind(s)'
    BY <1>1, <1>2, OnSide DEF Ring, GetsBehind, PutsBehind
  <1>6. Content(s)'
    BY <1>1, <1>3 DEF Ring, Content
  <1>7. StillTrue(s)'
    BY <1>1, <1>2, <1>3, OnSide DEF Ring, StillTrue
  <1> QED
    BY <1>4, <1>5, <1>6, <1>7 DEF Ring

\* A step outside the reading and the writing of slots.
LEMMA QuietRing ==
    ASSUME Types, NEW t \in Threads, NEW s \in Sides, Ring(s),
           Dec(t) \/ Restore(t) \/ Register(t) \/ Unregister(t) \/ Sleep(t) \/ Inc(t)
             \/ Look(t) \/ Unblock(t) \/ Post(t)
    PROVE  Ring(s)'
  <1>1. UNCHANGED <<slots, getpos, putpos, pos, rv>>
    BY DEF Dec, Restore, Register, Unregister, Sleep, Inc, Look, Unblock, Post, lvars
  <1>2. \A u \in Threads :
            /\ pc'[u] \in {"load", "load2"} <=> pc[u] \in {"load", "load2"}
            /\ pc'[u] \in {"clear", "clear2"} <=> pc[u] \in {"clear", "clear2"}
            /\ pc'[u] = "store" <=> pc[u] = "store"
            /\ pc'[u] = "fill" <=> pc[u] = "fill"
    BY DEF Dec, Restore, Register, Unregister, Sleep, Inc, Look, Unblock, Post, Go, Types,
           Tries, Gets, Fails
  <1>3. SameRing(s)
    BY <1>1, <1>2 DEF SameRing, Loading, Clearing, Storing, Filling
  <1> QED
    BY <1>3, RingFrame

LEMMA GetPosRing ==
    ASSUME OneSided, Types, NEW t \in Threads, GetPos(t), NEW s \in Sides, Ring(s), Bounds(s)
    PROVE  Ring(s)'
  <1>1. \A u \in Threads : u # t => pos'[u] = pos[u] /\ pc'[u] = pc[u]
    BY DEF GetPos, Go, Types
  <1>2. UNCHANGED <<slots, putpos, rv>> /\ pc[t] \in {"get", "get2"} /\ pc'[t] \in {"load", "load2"}
    BY DEF GetPos, Go, Types
  <1>3. /\ Clearing(s)' = Clearing(s) /\ Storing(s)' = Storing(s) /\ Filling(s)' = Filling(s)
        /\ t \notin Drawers(s) /\ t \notin Fillers(s) /\ Put(s)' = Put(s)
    BY <1>1, <1>2 DEF Clearing, Storing, Filling, Loading, Drawers, Fillers, Put
  <1>4. CASE From(t) # s
    <2>1. Loading(s)' = Loading(s) /\ getpos'[s] = getpos[s]
      BY <1>1, <1>2, <1>4, FromTo DEF Loading, GetPos, Types
    <2> QED
      BY <1>1, <1>2, <1>3, <2>1, OnSide, RingFrame DEF SameRing
  <1>5. CASE From(t) = s
    <2>1. /\ Loading(s)' = Loading(s) \cup {t} /\ Drawers(s)' = Drawers(s) \cup {t}
          /\ Fillers(s)' = Fillers(s)
      BY <1>1, <1>2, <1>3, <1>5 DEF Loading, Drawers, Fillers
    <2>2. getpos'[s] = getpos[s] + 1 /\ pos'[t] = getpos[s]
      BY <1>5 DEF GetPos, Types
    <2>3. /\ \A u \in Drawers(s) : pos'[u] = pos[u] /\ u \in Threads /\ u # t
          /\ \A u \in Fillers(s) :
                 pos'[u] = pos[u] /\ At(s, u)' = At(s, u) /\ u \in Threads
      BY <1>1, <1>3, OnSide DEF At
    <2>4. Positions(s)'
      <3>1. OneGetter(s) => Drawers(s) = {}
        BY <1>3, <1>5, OnSide DEF OneGetter
      <3> QED
        BY <1>3, <2>1, <2>2, <2>3, <3>1, RingTypes DEF Ring, Positions
    <2>5. GetsBehind(s)'
      <3> SUFFICES ASSUME NEW f \in Fillers(s)
                   PROVE  \/ getpos[s] + 1 <= At(s, f)
                          \/ /\ getpos[s] + 1 = At(s, f) + 1
                             /\ \E u \in Loading(s) \cup {t} : pos'[u] = At(s, f)
        BY <2>1, <2>2, <2>3 DEF GetsBehind
      <3>1. CASE getpos[s] <= At(s, f)
        BY <2>2, <2>3, <3>1, RingTypes
      <3>2. CASE ~(getpos[s] <= At(s, f))
        <4>1. PICK u \in Loading(s) : getpos[s] = At(s, f) + 1
          BY <3>2 DEF Ring, GetsBehind
        <4>2. ~OneGetter(s)
          BY <1>3, <1>5, OnSide DEF OneGetter
        <4>3. At(s, f) = Put(s) - 1
          BY <4>2 DEF OneSided, Ring, Positions
        <4>4. getpos[s] < Put(s)
          BY DEF Bounds
        <4> QED
          BY <2>3, <4>1, <4>3, <4>4, RingTypes
      <3> QED
        BY <3>1, <3>2
    <2>6. PutsBehind(s)'
      <3>1. Put(s) <= getpos[s] + max_depth
        BY DEF Bounds
      <3>2. \A u \in Storing(s) : u \in Fillers(s)
        BY OnSide
      <3> QED
        BY <1>3, <2>1, <2>2, <2>3, <3>1, <3>2 DEF Ring, PutsBehind
    <2>7. Live(s)' = Live(s)
      <3>1. \A q \in Nat : (q >= getpos[s] + 1 \/ \E d \in Drawers(s) \cup {t} : pos'[d] = q)
                <=> (q >= getpos[s] \/ \E d \in Drawers(s) : pos[d] = q)
        BY <2>2, <2>3, RingTypes
      <3>2. \A q \in 0..(Put(s) - 1) : q \in Nat
        BY RingTypes
      <3> QED
        BY <1>3, <2>1, <2>2, <2>3, <3>1, <3>2 DEF Live
    <2>8. Content(s)'
      BY <1>2, <2>7 DEF Ring, Content
    <2>9. StillTrue(s)'
      BY <1>2, <1>3, <2>3, <2>7, OnSide DEF Ring, StillTrue
    <2> QED
      BY <2>4, <2>5, <2>6, <2>8, <2>9 DEF Ring
  <1> QED
    BY <1>4, <1>5

LEMMA LoadRing ==
    ASSUME OneSided, Types, NEW t \in Threads, Load(t), NEW s \in Sides, Ring(s), Bounds(s)
    PROVE  Ring(s)'
  <1>1. \A u \in Threads : u # t => rv'[u] = rv[u] /\ pc'[u] = pc[u]
    BY DEF Load, Go, Types
  <1>2. /\ UNCHANGED <<slots, getpos, putpos, pos>>
        /\ pc[t] \in {"load", "load2"} /\ pc'[t] \in {"clear", "clear2"}
    BY DEF Load, Go, Types
  <1>3. Storing(s)' = Storing(s) /\ Filling(s)' = Filling(s) /\ t \notin Fillers(s)
    BY <1>1, <1>2 DEF Storing, Filling, Fillers
  <1>4. CASE From(t) # s
    <2>1. Loading(s)' = Loading(s) /\ Clearing(s)' = Clearing(s) /\ t \notin Drawers(s)
      BY <1>1, <1>2, <1>4 DEF Loading, Clearing, Drawers
    <2> QED
      BY <1>1, <1>2, <1>3, <2>1, OnSide, RingFrame DEF SameRing
  <1>5. CASE From(t) = s
    <2>1. /\ t \in Loading(s) /\ Loading(s)' = Loading(s) \ {t}
          /\ Clearing(s)' = Clearing(s) \cup {t} /\ Drawers(s)' = Drawers(s)
          /\ t \notin Clearing(s)
      BY <1>1, <1>2, <1>5 DEF Loading, Clearing, Drawers
    <2>2. slots[s][Slot(pos[t])] # NULL /\ rv'[t] = slots[s][Slot(pos[t])]
      BY <1>5 DEF Load, Types
    <2>3. pos[t] \in Live(s)
      BY <2>1, <2>2, LoadedIsLive
    <2>4. /\ Fillers(s)' = Fillers(s) /\ Put(s)' = Put(s)
          /\ \A u : At(s, u)' = At(s, u)
      BY <1>2, <1>3 DEF Fillers, Put, At
    <2>5. Live(s)' = Live(s)
      BY <1>2, <2>1, <2>4 DEF Live
    <2>6. Positions(s)' /\ PutsBehind(s)'
      BY <1>2, <1>3, <2>1, <2>4 DEF Ring, Positions, PutsBehind
    <2>7. GetsBehind(s)'
      BY <1>2, <2>1, <2>3, <2>4, LivePositions DEF Ring, GetsBehind
    <2>8. Content(s)'
      BY <1>2, <2>5 DEF Ring, Content
    <2>9. StillTrue(s)'
      BY <1>1, <1>2, <1>3, <2>1, <2>2, <2>3, <2>5, OnSide DEF Ring, StillTrue
    <2> QED
      BY <2>6, <2>7, <2>8, <2>9 DEF Ring
  <1> QED
    BY <1>4, <1>5

LEMMA ClearRing ==
    ASSUME OneSided, Types, NEW t \in Threads, Clear(t), NEW s \in Sides, Ring(s), Bounds(s)
    PROVE  Ring(s)'
  <1>1. \A u \in Threads : u # t => pc'[u] = pc[u]
    BY DEF Clear, Go, Types
  <1>2. /\ UNCHANGED <<getpos, putpos, pos, rv>>
        /\ pc[t] \in {"clear", "clear2"} /\ pc'[t] \in {"put", "unregister"}
    BY DEF Clear, Go, Types
  <1>3. /\ Loading(s)' = Loading(s) /\ Storing(s)' = Storing(s) /\ Filling(s)' = Filling(s)
        /\ Fillers(s)' = Fillers(s) /\ t \notin Fillers(s)
    BY <1>1, <1>2 DEF Loading, Storing, Filling, Fillers
  <1>4. CASE From(t) # s
    <2>1. Clearing(s)' = Clearing(s) /\ slots'[s] = slots[s]
      BY <1>1, <1>2, <1>4 DEF Clearing, Clear, Types
    <2> QED
      BY <1>2, <1>3, <2>1, RingFrame DEF SameRing
  <1>5. CASE From(t) = s
    <2> DEFINE p == pos[t]
    <2>1. /\ t \in Clearing(s) /\ Clearing(s)' = Clearing(s) \ {t}
          /\ t \in Drawers(s) /\ Drawers(s)' = Drawers(s) \ {t}
      BY <1>1, <1>2, <1>3, <1>5 DEF Loading, Clearing, Drawers
    <2>2. /\ Slot(p) \in 0..(max_depth - 1) /\ slots'[s][Slot(p)] = NULL
          /\ \A k \in 0..(max_depth - 1) : k # Slot(p) => slots'[s][k] = slots[s][k]
      BY <1>5, SlotRange DEF Clear, Types
    <2>3. Put(s)' = Put(s) /\ \A u : At(s, u)' = At(s, u)
      BY <1>2 DEF Put, At
    <2>4. p \in Live(s) /\ p < getpos[s] /\ p \in Nat
      BY <2>1, RingTypes DEF Ring, StillTrue, Positions
    <2>5. \A u \in Drawers(s) : u # t => pos[u] # p
      BY <2>1 DEF Ring, Positions
    <2>6. Live(s)' = Live(s) \ {p}
      <3>1. \A q \in Nat :
                (q >= getpos[s] \/ \E d \in Drawers(s) \ {t} : pos[d] = q)
                <=> q # p /\ (q >= getpos[s] \/ \E d \in Drawers(s) : pos[d] = q)
        BY <2>1, <2>4, <2>5, RingTypes
      <3>2. \A q \in 0..(Put(s) - 1) : q \in Nat
        BY RingTypes
      <3> QED
        BY <1>2, <1>3, <2>1, <2>3, <3>1, <3>2 DEF Live
    <2>7. Positions(s)' /\ PutsBehind(s)' /\ GetsBehind(s)'
      BY <1>2, <1>3, <2>1, <2>3 DEF Ring, Positions, PutsBehind, GetsBehind
    <2>8. \A q \in Live(s) : q # p => Slot(q) # Slot(p)
      BY <2>4, LiveApart
    <2>9. Content(s)'
      BY <2>2, <2>6, <2>8 DEF Ring, Content
    <2>10. StillTrue(s)'
      <3>1. ASSUME NEW u \in Clearing(s), u # t
            PROVE  pos[u] \in Live(s) \ {p} /\ slots'[s][Slot(pos[u])] = rv[u]
        <4>1. pos[u] \in Live(s) /\ pos[u] # p /\ u \in Threads
          BY <2>5, <3>1, OnSide DEF Ring, StillTrue
        <4>2. Slot(pos[u]) \in 0..(max_depth - 1)
          BY <4>1, SlotRange, RingTypes
        <4> QED
          BY <2>2, <2>8, <4>1, <4>2 DEF Ring, StillTrue
      <3>2. ASSUME NEW u \in Filling(s)
            PROVE  slots'[s][Slot(pos[u])] = NULL
        <4>1. Slot(pos[u]) \in 0..(max_depth - 1)
          BY OnSide, SlotRange, RingTypes
        <4> QED
          BY <2>2, <4>1 DEF Ring, StillTrue
      <3> QED
        BY <1>2, <1>3, <2>1, <2>6, <3>1, <3>2 DEF StillTrue
    <2> QED
      BY <2>7, <2>9, <2>10 DEF Ring
  <1> QED
    BY <1>4, <1>5

LEMMA PutPosRing ==
    ASSUME OneSided, Types, NEW t \in Threads, PutPos(t), NEW s \in Sides, Ring(s), Bounds(s)
    PROVE  Ring(s)'
  <1>1. \A u \in Threads : u # t => pos'[u] = pos[u] /\ pc'[u] = pc[u]
    BY DEF PutPos, Go, Types
  <1>2. UNCHANGED <<slots, getpos, rv>> /\ pc[t] = "put" /\ pc'[t] = "store"
    BY DEF PutPos, Go, Types
  <1>3. /\ Loading(s)' = Loading(s) /\ Clearing(s)' = Clearing(s)
        /\ Drawers(s)' = Drawers(s) /\ Filling(s)' = Filling(s)
        /\ t \notin Drawers(s) /\ t \notin Fillers(s)
    BY <1>1, <1>2 DEF Clearing, Storing, Filling, Loading, Drawers, Fillers
  <1>4. CASE To(t) # s
    <2>1. Storing(s)' = Storing(s) /\ putpos'[s] = putpos[s]
      BY <1>1, <1>2, <1>4, FromTo DEF Storing, PutPos, Types
    <2> QED
      BY <1>1, <1>2, <1>3, <2>1, OnSide, RingFrame DEF SameRing
  <1>5. CASE To(t) = s
    <2>1. Storing(s)' = Storing(s) \cup {t} /\ Fillers(s)' = Fillers(s) \cup {t}
      BY <1>1, <1>2, <1>3, <1>5 DEF Storing, Fillers
    <2>2. Put(s)' = Put(s) + 1 /\ At(s, t)' = Put(s)
      <3>1. putpos'[s] = putpos[s] + 1 /\ pos'[t] = putpos[s] /\ putpos[s] \in Nat
        BY <1>5 DEF PutPos, Types
      <3> QED
        BY <3>1, RingTypes DEF Put, At
    <2>3. \A u \in Drawers(s) \cup Fillers(s) :
              pos'[u] = pos[u] /\ At(s, u)' = At(s, u) /\ u \in Threads /\ u # t
      BY <1>1, <1>3, OnSide DEF At
    <2>4. Positions(s)'
      <3>1. OnePutter(s) => Fillers(s) = {}
        BY <1>3, <1>5, OnSide DEF OnePutter
      <3>2. ASSUME NEW u \in Fillers(s)
            PROVE  At(s, u) < Put(s) + 1 /\ pos'[u] # pos'[t]
        <4>1. At(s, u) < Put(s) /\ At(s, t)' # At(s, u)'
          BY <2>2, <2>3, RingTypes DEF Ring, Positions
        <4> QED
          BY <2>3, <4>1, RingTypes DEF At
      <3> QED
        BY <1>2, <1>3, <2>1, <2>2, <2>3, <3>1, <3>2, RingTypes DEF Ring, Positions
    <2>5. GetsBehind(s)'
      <3>1. getpos[s] <= Put(s)
        BY DEF Bounds
      <3> QED
        BY <1>2, <1>3, <2>1, <2>2, <2>3, <3>1, OnSide DEF Ring, GetsBehind
    <2>6. PutsBehind(s)'
      <3> SUFFICES ASSUME NEW d \in Drawers(s)
                   PROVE  \/ Put(s) + 1 <= pos[d] + max_depth
                          \/ /\ Put(s) + 1 = pos[d] + max_depth + 1
                             /\ At(s, t)' = pos[d] + max_depth
        BY <1>3, <2>1, <2>2, <2>3 DEF PutsBehind
      <3>1. CASE Put(s) <= pos[d] + max_depth
        BY <2>2, <2>3, <3>1, RingTypes
      <3>2. CASE ~(Put(s) <= pos[d] + max_depth)
        <4>1. Put(s) = pos[d] + max_depth + 1 /\ \E u \in Storing(s) : TRUE
          BY <3>2 DEF Ring, PutsBehind
        <4>2. ~OnePutter(s)
          BY <1>3, <1>5, <4>1, OnSide DEF OnePutter
        <4>3. pos[d] = getpos[s] - 1
          BY <4>2 DEF OneSided, Ring, Positions
        <4>4. Put(s) < getpos[s] + max_depth
          BY DEF Bounds
        <4> QED
          BY <2>3, <4>1, <4>3, <4>4, RingTypes
      <3> QED
        BY <3>1, <3>2
    <2>7. Live(s)' = Live(s)
      <3>1. 0..(Put(s)' - 1) = (0..(Put(s) - 1)) \cup {Put(s)} /\ Put(s) \notin 0..(Put(s) - 1)
        BY <2>2, RingTypes
      <3>2. \A q : (\A f \in Fillers(s)' : At(s, f)' # q)
                       <=> q # Put(s) /\ (\A f \in Fillers(s) : At(s, f) # q)
        BY <2>1, <2>2, <2>3
      <3>3. \A q : (\E d \in Drawers(s)' : pos'[d] = q) <=> (\E d \in Drawers(s) : pos[d] = q)
        BY <1>3, <2>3
      <3>4. getpos'[s] = getpos[s]
        BY <1>2
      <3> QED
        BY <3>1, <3>2, <3>3, <3>4 DEF Live
    <2>8. Content(s)'
      BY <1>2, <2>7 DEF Ring, Content
    <2>9. StillTrue(s)'
      BY <1>2, <1>3, <2>3, <2>7, OnSide DEF Ring, StillTrue
    <2> QED
      BY <2>4, <2>5, <2>6, <2>8, <2>9 DEF Ring
  <1> QED
    BY <1>4, <1>5

LEMMA AwaitRing ==
    ASSUME OneSided, Types, NEW t \in Threads, Await(t), NEW s \in Sides, Ring(s), Bounds(s)
    PROVE  Ring(s)'
  <1>1. \A u \in Threads : u # t => pc'[u] = pc[u]
    BY DEF Await, Go, Types
  <1>2. /\ UNCHANGED <<slots, getpos, putpos, pos, rv>>
        /\ pc[t] = "store" /\ pc'[t] = "fill"
    BY DEF Await, Go, Types, lvars
  <1>3. Loading(s)' = Loading(s) /\ Clearing(s)' = Clearing(s) /\ Drawers(s)' = Drawers(s)
    BY <1>1, <1>2 DEF Loading, Clearing, Drawers
  <1>4. CASE To(t) # s
    <2>1. Storing(s)' = Storing(s) /\ Filling(s)' = Filling(s)
      BY <1>1, <1>2, <1>4 DEF Storing, Filling
    <2> QED
      BY <1>2, <1>3, <2>1, RingFrame DEF SameRing
  <1>5. CASE To(t) = s
    <2>1. /\ t \in Storing(s) /\ Storing(s)' = Storing(s) \ {t}
          /\ Filling(s)' = Filling(s) \cup {t} /\ Fillers(s)' = Fillers(s)
      BY <1>1, <1>2, <1>5 DEF Storing, Filling, Fillers
    <2>2. slots[s][Slot(pos[t])] = NULL
      BY <1>5 DEF Await
    <2>3. Put(s)' = Put(s) /\ \A u : At(s, u)' = At(s, u)
      BY <1>2 DEF Put, At
    <2>4. Live(s)' = Live(s)
      BY <1>2, <1>3, <2>1, <2>3 DEF Live
    <2>5. Positions(s)' /\ GetsBehind(s)'
      BY <1>2, <1>3, <2>1, <2>3 DEF Ring, Positions, GetsBehind
    <2>6. ASSUME NEW d \in Drawers(s), Put(s) = pos[d] + max_depth + 1,
                 At(s, t) = pos[d] + max_depth
          PROVE  FALSE
      <3>1. d \in Threads /\ pos[d] \in Nat /\ pos[d] < getpos[s] /\ pos[d] < Put(s)
        BY OnSide, RingTypes DEF Ring, Positions, Bounds
      <3>2. Put(s) < getpos[s] + max_depth
        BY DEF Bounds
      <3>3. \A f \in Fillers(s) : At(s, f) # pos[d]
        BY <2>6, <3>1, <3>2, OnSide, RingTypes DEF Ring, GetsBehind
      <3>4. pos[d] \in Live(s)
        BY <3>1, <3>3, IsLive
      <3>5. Slot(pos[d]) = Slot(pos[t])
        <4>1. ASSUME NEW q \in Nat
              PROVE  Slot(q + max_depth) = Slot(q)
          BY SlotRound DEF Sides, Base
        <4> QED
          BY <2>6, <3>1, <4>1, RingTypes
      <3> QED
        BY <2>2, <3>4, <3>5, SlotRange, RingTypes DEF Ring, Content
    <2>7. PutsBehind(s)'
      BY <1>2, <1>3, <2>1, <2>3, <2>6 DEF Ring, PutsBehind
    <2>8. Content(s)'
      BY <1>2, <2>4 DEF Ring, Content
    <2>9. StillTrue(s)'
      BY <1>2, <1>3, <2>1, <2>2, <2>4 DEF Ring, StillTrue
    <2> QED
      BY <2>5, <2>7, <2>8, <2>9 DEF Ring
  <1> QED
    BY <1>4, <1>5

LEMMA FillRing ==
    ASSUME OneSided, Types, NEW t \in Threads, Fill(t), NEW s \in Sides, Ring(s), Bounds(s)
    PROVE  Ring(s)'
  <1>1. \A u \in Threads : u # t => pc'[u] = pc[u] /\ rv'[u] = rv[u]
    BY DEF Fill, Go, Types
  <1>2. /\ UNCHANGED <<getpos, putpos, pos>> /\ pc[t] = "fill" /\ pc'[t] = "inc"
        /\ rv[t] # NULL
    BY DEF Fill, Go, Types, Carrying
  <1>3. /\ Loading(s)' = Loading(s) /\ Clearing(s)' = Clearing(s) /\ Drawers(s)' = Drawers(s)
        /\ Storing(s)' = Storing(s) /\ t \notin Drawers(s) /\ t \notin Storing(s)
    BY <1>1, <1>2 DEF Loading, Clearing, Drawers, Storing
  <1>4. CASE To(t) # s
    <2>1. Filling(s)' = Filling(s) /\ slots'[s] = slots[s] /\ t \notin Fillers(s)
      BY <1>1, <1>2, <1>4, FromTo DEF Filling, Fillers, Storing, Fill, Types
    <2> QED
      BY <1>1, <1>2, <1>3, <2>1, OnSide, RingFrame DEF SameRing
  <1>5. CASE To(t) = s
    <2> DEFINE p == At(s, t)
    <2>1. /\ t \in Filling(s) /\ Filling(s)' = Filling(s) \ {t}
          /\ t \in Fillers(s) /\ Fillers(s)' = Fillers(s) \ {t}
      BY <1>1, <1>2, <1>3, <1>5 DEF Storing, Filling, Fillers
    <2>2. Put(s)' = Put(s) /\ \A u : At(s, u)' = At(s, u)
      BY <1>2 DEF Put, At
    <2>3. p \in Nat /\ p < Put(s) /\ Slot(p) = Slot(pos[t])
      BY <2>1, RingTypes DEF Ring, Positions
    <2>4. /\ Slot(p) \in 0..(max_depth - 1) /\ slots'[s][Slot(p)] = rv[t]
          /\ \A k \in 0..(max_depth - 1) : k # Slot(p) => slots'[s][k] = slots[s][k]
      BY <1>5, <2>3, SlotRange DEF Fill, Types
    <2>5. \A u \in Fillers(s) : u # t => At(s, u) # p
      BY <2>1, OnSide, RingTypes DEF Ring, Positions
    <2>6. p >= getpos[s] \/ \E d \in Drawers(s) : pos[d] = p
      BY <2>1, OnSide DEF Ring, GetsBehind
    <2>7. Live(s)' = Live(s) \cup {p}
      <3>1. p \in 0..(Put(s) - 1)
        BY <2>3, RingTypes
      <3> QED
        BY <1>2, <1>3, <2>1, <2>2, <2>5, <2>6, <3>1 DEF Live
    <2>8. Positions(s)' /\ PutsBehind(s)' /\ GetsBehind(s)'
      BY <1>2, <1>3, <2>1, <2>2 DEF Ring, Positions, PutsBehind, GetsBehind
    <2>9. Content(s)'
      BY <1>2, <2>4, <2>7 DEF Ring, Content
    <2>10. StillTrue(s)'
      <3>1. ASSUME NEW u \in Clearing(s)
            PROVE  pos[u] \in Live(s) /\ slots'[s][Slot(pos[u])] = rv'[u]
        <4>1. pos[u] \in Live(s) /\ u \in Threads /\ u # t
              /\ slots[s][Slot(pos[u])] = rv[u]
          BY <1>3, OnSide DEF Ring, StillTrue
        <4>2. Slot(pos[u]) \in 0..(max_depth - 1)
          BY <4>1, SlotRange, RingTypes
        <4>3. slots[s][Slot(pos[u])] # NULL
          BY <4>1, <4>2 DEF Ring, Content
        <4>4. Slot(pos[u]) # Slot(p)
          BY <2>1, <2>3, <4>3 DEF Ring, StillTrue
        <4> QED
          BY <1>1, <2>4, <4>1, <4>2, <4>4
      <3>2. ASSUME NEW u \in Filling(s), u # t
            PROVE  slots'[s][Slot(pos[u])] = NULL
        <4>1. Slot(pos[u]) \in 0..(max_depth - 1)
          BY OnSide, SlotRange, RingTypes
        <4>2. Slot(pos[u]) # Slot(p)
          BY <2>1, <2>3, <3>2, OnSide, FillersApart
        <4> QED
          BY <2>4, <4>1, <4>2 DEF Ring, StillTrue
      <3> QED
        BY <1>2, <1>3, <2>1, <2>7, <3>1, <3>2 DEF StillTrue
    <2> QED
      BY <2>8, <2>9, <2>10 DEF Ring
  <1> QED
    BY <1>4, <1>5

LEMMA RingStays ==
    ASSUME OneSided, Types, NEW t \in Threads, Step(t), NEW s \in Sides, Ring(s), Bounds(s)
    PROVE  Ring(s)'
  BY QuietRing, GetPosRing, LoadRing, ClearRing, PutPosRing, AwaitRing, FillRing DEF Step

-----------------------------------------------------------------------------
(* Every message stays owned once *)

Cells == Sides \X (0..(max_depth - 1))

LEMMA SomeCells ==
    ASSUME OneSided, NEW S, S \subseteq Cells
    PROVE  IsFiniteSet(S) /\ Cardinality(S) \in Nat
  <1>1. IsFiniteSet(Sides)
    <2>1. Sides = {"pool"} \cup {"queue"}
      BY DEF Sides
    <2> QED
      BY <2>1, FS_Singleton, FS_AddElement
  <1>2. IsFiniteSet(0..(max_depth - 1))
    BY FS_Interval DEF OneSided
  <1> QED
    BY <1>1, <1>2, FS_Product, FS_Subset, FS_CardinalityType DEF Cells

\* One cell written.
LEMMA OneCell ==
    ASSUME Types, NEW s \in Sides, NEW k \in 0..(max_depth - 1), NEW v,
           slots' = [slots EXCEPT ![s][k] = v]
    PROVE  /\ <<s, k>> \in Cells /\ slots'[s][k] = v
           /\ \A c \in Cells : c # <<s, k>> => slots'[c[1]][c[2]] = slots[c[1]][c[2]]
  <1>1. \A r \in Sides : \A j \in 0..(max_depth - 1) :
            slots'[r][j] = IF r = s /\ j = k THEN v ELSE slots[r][j]
    BY DEF Types
  <1>2. ASSUME NEW c \in Cells, c # <<s, k>>
        PROVE  c[1] \in Sides /\ c[2] \in 0..(max_depth - 1) /\ ~(c[1] = s /\ c[2] = k)
    BY <1>2 DEF Cells
  <1> QED
    BY <1>1, <1>2 DEF Cells

\* A step by which no message changes hands.
LEMMA SameOwners ==
    ASSUME Types, OwnedOnce, NEW t \in Threads,
           Dec(t) \/ Restore(t) \/ GetPos(t) \/ Load(t) \/ Register(t) \/ Unregister(t)
             \/ Sleep(t) \/ PutPos(t) \/ Await(t) \/ Inc(t) \/ Look(t) \/ Unblock(t) \/ Post(t)
    PROVE  OwnedOnce'
  <1>1. slots' = slots
    BY DEF Dec, Restore, GetPos, Load, Register, Unregister, Sleep, PutPos, Await, Inc, Look,
           Unblock, Post, lvars
  <1>2. ASSUME NEW m \in Messages, NEW u \in Threads
        PROVE  Holds(u, m)' <=> Holds(u, m)
    <2>1. m # NULL
      BY DEF Messages, NULL
    <2>2. CASE Load(t)
      BY <2>1, <2>2 DEF Load, Holds, Go, Types, Carrying
    <2>3. CASE ~Load(t)
      <3>1. rv' = rv
        BY <2>3 DEF Dec, Restore, GetPos, Register, Unregister, Sleep, PutPos, Await, Inc,
                    Look, Unblock, Post, lvars
      <3>2. pc'[u] \in {"clear", "clear2"} <=> pc[u] \in {"clear", "clear2"}
        BY <2>3 DEF Dec, Restore, GetPos, Register, Unregister, Sleep, PutPos, Await, Inc,
                    Look, Unblock, Post, Go, Types, Tries, Gets, Fails
      <3> QED
        BY <3>1, <3>2 DEF Holds
    <2> QED
      BY <2>2, <2>3
  <1>3. \A m \in Messages : Holders(m)' = Holders(m) /\ SlotsWith(m)' = SlotsWith(m)
    BY <1>1, <1>2 DEF Holders, SlotsWith
  <1> QED
    BY <1>3 DEF OwnedOnce

LEMMA ClearOwns ==
    ASSUME OneSided, Types, OwnedOnce, NEW t \in Threads, Clear(t),
           \A s \in Sides : StillTrue(s)
    PROVE  OwnedOnce'
  <1> DEFINE s == From(t)
             k == Slot(pos[t])
  <1>1. s \in Sides /\ k \in 0..(max_depth - 1)
    BY FromTo, SlotRange DEF Types
  <1>2. slots[s][k] = rv[t]
    BY <1>1 DEF StillTrue, Clearing, Clear, Go
  <1>3. slots' = [slots EXCEPT ![s][k] = NULL]
    BY DEF Clear
  <1>4. /\ <<s, k>> \in Cells /\ slots'[s][k] = NULL
        /\ \A c \in Cells : c # <<s, k>> => slots'[c[1]][c[2]] = slots[c[1]][c[2]]
    BY <1>1, <1>3, OneCell
  <1> HIDE DEF k
  <1>5. ASSUME NEW m \in Messages
        PROVE  Cardinality(Holders(m)') + Cardinality(SlotsWith(m)')
                 = Cardinality(Holders(m)) + Cardinality(SlotsWith(m))
    <2>1. m # NULL /\ Holders(m) \subseteq Threads /\ SlotsWith(m) \subseteq Cells
      BY DEF Messages, NULL, Holders, SlotsWith, Cells
    <2>2. CASE rv[t] = m
      <3>1. t \notin Holders(m) /\ Holders(m)' = Holders(m) \cup {t}
        BY <2>2 DEF Holders, Holds, Clear, Go, Types
      <3>2. <<s, k>> \in SlotsWith(m) /\ SlotsWith(m)' = SlotsWith(m) \ {<<s, k>>}
        BY <1>2, <1>4, <2>1, <2>2 DEF SlotsWith, Cells
      <3>3. Cardinality(Holders(m)') = Cardinality(Holders(m)) + 1
        BY <2>1, <3>1, OneMore
      <3>4. Cardinality(SlotsWith(m)') = Cardinality(SlotsWith(m)) - 1
        BY <2>1, <3>2, SomeCells, FS_RemoveElement
      <3> QED
        BY <2>1, <3>3, <3>4, SomeThreads, SomeCells
    <2>3. CASE rv[t] # m
      <3>1. Holders(m)' = Holders(m)
        BY <2>3 DEF Holders, Holds, Clear, Go, Types
      <3>2. SlotsWith(m)' = SlotsWith(m)
        BY <1>2, <1>4, <2>1, <2>3 DEF SlotsWith, Cells
      <3> QED
        BY <3>1, <3>2
    <2> QED
      BY <2>2, <2>3
  <1> QED
    BY <1>5 DEF OwnedOnce

LEMMA FillOwns ==
    ASSUME OneSided, Types, OwnedOnce, NEW t \in Threads, Fill(t),
           \A s \in Sides : StillTrue(s)
    PROVE  OwnedOnce'
  <1> DEFINE s == To(t)
             k == Slot(pos[t])
  <1>1. s \in Sides /\ k \in 0..(max_depth - 1)
    BY FromTo, SlotRange DEF Types
  <1>2. slots[s][k] = NULL
    BY <1>1 DEF StillTrue, Filling, Fill, Go
  <1>3. slots' = [slots EXCEPT ![s][k] = rv[t]]
    BY DEF Fill
  <1>4. /\ <<s, k>> \in Cells /\ slots'[s][k] = rv[t]
        /\ \A c \in Cells : c # <<s, k>> => slots'[c[1]][c[2]] = slots[c[1]][c[2]]
    BY <1>1, <1>3, OneCell
  <1> HIDE DEF k
  <1>5. ASSUME NEW m \in Messages
        PROVE  Cardinality(Holders(m)') + Cardinality(SlotsWith(m)')
                 = Cardinality(Holders(m)) + Cardinality(SlotsWith(m))
    <2>1. m # NULL /\ Holders(m) \subseteq Threads /\ SlotsWith(m) \subseteq Cells
      BY DEF Messages, NULL, Holders, SlotsWith, Cells
    <2>2. CASE rv[t] = m
      <3>1. t \in Holders(m) /\ Holders(m)' = Holders(m) \ {t}
        BY <2>1, <2>2 DEF Holders, Holds, Fill, Go, Types
      <3>2. <<s, k>> \notin SlotsWith(m) /\ SlotsWith(m)' = SlotsWith(m) \cup {<<s, k>>}
        BY <1>2, <1>4, <2>1, <2>2 DEF SlotsWith, Cells
      <3>3. Cardinality(Holders(m)') = Cardinality(Holders(m)) - 1
        BY <2>1, <3>1, OneLess
      <3>4. Cardinality(SlotsWith(m)') = Cardinality(SlotsWith(m)) + 1
        BY <2>1, <3>2, SomeCells, FS_AddElement
      <3> QED
        BY <2>1, <3>3, <3>4, SomeThreads, SomeCells
    <2>3. CASE rv[t] # m
      <3>1. Holders(m)' = Holders(m)
        BY <2>1, <2>3 DEF Holders, Holds, Fill, Go, Types
      <3>2. SlotsWith(m)' = SlotsWith(m)
        BY <1>2, <1>4, <2>1, <2>3 DEF SlotsWith, Cells
      <3> QED
        BY <3>1, <3>2
    <2> QED
      BY <2>2, <2>3
  <1> QED
    BY <1>5 DEF OwnedOnce

-----------------------------------------------------------------------------
(* The invariant *)

LEMMA InitCounts ==
    ASSUME OneSided, QueueInit
    PROVE  Counts
  <1>1. InTransit = {} /\ \A s \in Sides : Owed(s) = {} /\ Restoring(s) = {}
    BY DEF QueueInit, InTransit, Owed, Restoring
  <1>2. Cardinality({}) = 0
    BY FS_EmptySet
  <1>3. \A s \in Sides : Put(s) - getpos[s] = IF s = "pool" THEN max_depth ELSE 0
    BY DEF QueueInit, Put, Base, OneSided
  <1>4. Total
    BY <1>1, <1>2, <1>3 DEF Total, Sides, OneSided
  <1>5. \A s \in Sides : Balance(s) /\ NotNegative(s)
    <2> TAKE s \in Sides
    <2>1. count[s] = IF s = "pool" THEN max_depth ELSE 0
      BY DEF QueueInit
    <2>2. Cardinality(Owed(s)) = 0 /\ Cardinality(Restoring(s)) = 0
      BY <1>1, <1>2
    <2> QED
      BY <1>3, <2>1, <2>2 DEF Balance, NotNegative, OneSided
  <1> QED
    BY <1>4, <1>5 DEF Counts

LEMMA InitRing ==
    ASSUME OneSided, QueueInit, NEW s \in Sides
    PROVE  Ring(s)
  <1>1. /\ Drawers(s) = {} /\ Fillers(s) = {} /\ Clearing(s) = {} /\ Filling(s) = {}
    BY DEF QueueInit, Drawers, Fillers, Loading, Clearing, Storing, Filling
  <1>2. Positions(s) /\ GetsBehind(s) /\ PutsBehind(s) /\ StillTrue(s)
    BY <1>1 DEF Positions, GetsBehind, PutsBehind, StillTrue
  <1>3. Live(s) = 0..(Put(s) - 1)
    BY <1>1 DEF Live, QueueInit
  <1>4. Content(s)
    <2>1. CASE s = "pool"
      <3>1. Put(s) = max_depth
        BY <2>1 DEF QueueInit, Put, Base, Sides, OneSided
      <3>2. ASSUME NEW k \in 0..(max_depth - 1)
            PROVE  slots[s][k] # NULL /\ \E q \in Live(s) : Slot(q) = k
        <4>1. slots[s][k] = k + 1
          BY <2>1 DEF QueueInit, Sides
        <4>2. Slot(k) = k
          BY SMTT(30) DEF Slot, OneSided
        <4> QED
          BY <1>3, <3>1, <4>1, <4>2 DEF NULL
      <3> QED
        BY <3>2 DEF Content
    <2>2. CASE s = "queue"
      <3>1. Live(s) = {}
        BY <1>3, <2>2 DEF QueueInit, Put, Base, Sides
      <3> QED
        BY <2>2, <3>1 DEF Content, QueueInit, Sides
    <2> QED
      BY <2>1, <2>2 DEF Sides
  <1> QED
    BY <1>2, <1>4 DEF Ring

LEMMA InitOwned ==
    ASSUME OneSided, QueueInit
    PROVE  OwnedOnce
  <1> SUFFICES ASSUME NEW m \in Messages
               PROVE  Cardinality(Holders(m)) + Cardinality(SlotsWith(m)) = 1
    BY DEF OwnedOnce
  <1>1. Holders(m) = {}
    BY DEF QueueInit, Holders, Holds, Messages, NULL
  <1>2. SlotsWith(m) = {<<"pool", m - 1>>}
    <2>1. \A p \in Cells : slots[p[1]][p[2]] = m <=> p[1] = "pool" /\ p[2] = m - 1
      BY DEF QueueInit, Cells, Sides, Messages, NULL, OneSided
    <2>2. <<"pool", m - 1>> \in Cells
      BY DEF Cells, Sides, Messages, OneSided
    <2>3. \A p \in Cells : p = <<p[1], p[2]>>
      BY DEF Cells
    <2> QED
      BY <2>1, <2>2, <2>3 DEF SlotsWith, Cells
  <1>3. Cardinality(Holders(m)) = 0 /\ Cardinality(SlotsWith(m)) = 1
    BY <1>1, <1>2, FS_EmptySet, FS_Singleton
  <1> QED
    BY <1>3

LEMMA IInvInit ==
    ASSUME OneSided, QueueInit
    PROVE  IInv
  <1>1. Types
    BY DEF Types, QueueInit, Sides, Messages, NULL, Places, Carrying, OneSided
  <1> QED
    BY <1>1, InitCounts, InitRing, InitOwned DEF IInv

LEMMA IInvStep ==
    ASSUME OneSided, IInv, [QueueNext]_mqvars
    PROVE  IInv'
  <1>1. CASE QueueNext
    <2>1. PICK t \in Threads : Step(t)
      BY <1>1 DEF QueueNext
    <2>2. Types' /\ Counts'
      BY <2>1, TypesStay, CountsStay DEF IInv
    <2>3. \A s \in Sides : Bounds(s)
      BY CountsBound DEF IInv
    <2>4. \A s \in Sides : Ring(s)'
      BY <2>1, <2>3, RingStays DEF IInv
    <2>5. OwnedOnce'
      BY <2>1, SameOwners, ClearOwns, FillOwns DEF IInv, Ring, Step
    <2> QED
      BY <2>2, <2>4, <2>5 DEF IInv
  <1>2. CASE UNCHANGED mqvars
    <2>1. Types' /\ Counts' /\ OwnedOnce'
      BY <1>2 DEF mqvars, lvars, IInv, Types, Counts, Total, Balance, NotNegative, Put, Owed,
                  Restoring, InTransit, OwnedOnce, Holders, Holds, SlotsWith
    <2>2. ASSUME NEW s \in Sides
          PROVE  Ring(s)'
      <3>1. SameRing(s)
        BY <1>2 DEF mqvars, lvars, SameRing, Loading, Clearing, Storing, Filling
      <3> QED
        BY <3>1, RingFrame DEF IInv
    <2> QED
      BY <2>1, <2>2 DEF IInv
  <1> QED
    BY <1>1, <1>2

LEMMA IInvAlways ==
    ASSUME OneSided
    PROVE  QueueSpec => []IInv
  <1>1. QueueInit => IInv
    BY IInvInit
  <1>2. IInv /\ [QueueNext]_mqvars => IInv'
    BY IInvStep
  <1> QED
    BY <1>1, <1>2, PTL DEF QueueSpec

-----------------------------------------------------------------------------
(* The theorems *)

\* No message is allocated twice or read twice and none is lost, although a thread reads its
\* slot (message_queue.c:150, :210) and clears it (:155, :215) in two steps, and looks whether
\* a slot is empty (:181, :197) and fills it (:184, :199) in two: with one thread that gets or
\* one that puts on each side, whatever the depth and however many the threads.
THEOREM MessagesOwnedOnce ==
    ASSUME OneSided
    PROVE  QueueSpec => []OwnedOnce
  <1>1. IInv => OwnedOnce
    BY DEF IInv
  <1> QED
    BY <1>1, IInvAlways, PTL

\* A thread overwrites only an empty slot and takes only what it has read: Clear
\* (message_queue.c:155, :215) finds the message it has loaded still there, Fill (:184, :199)
\* finds nothing.
NothingOverwritten ==
    \A s \in Sides :
        /\ \A t \in Clearing(s) : slots[s][Slot(pos[t])] = rv[t]
        /\ \A t \in Filling(s) : slots[s][Slot(pos[t])] = NULL

THEOREM SlotsAreNotOverwritten ==
    ASSUME OneSided
    PROVE  QueueSpec => []NothingOverwritten
  <1>1. IInv => NothingOverwritten
    BY DEF IInv, Ring, StillTrue, NothingOverwritten
  <1> QED
    BY <1>1, IInvAlways, PTL

-----------------------------------------------------------------------------
(* Sleepers, of any number of threads *)

WakeTypes ==
    /\ count \in [Sides -> Int] /\ blocked_readers \in [Sides -> Int]
    /\ sem \in [Sides -> Nat]
    /\ pc \in [Threads -> Places] /\ takes \in [Threads -> Int]

\* Every registration is in the count of blocked readers, on its way, or in the semaphore.
Accounted(s) ==
    blocked_readers[s] + sem[s] + Cardinality(Posting(s)) = Cardinality(Blocked(s))

WakeInv == WakeTypes /\ \A s \in Sides : Accounted(s)

\* A set changes by one member at most.
One(t, S) == IF t \in S THEN 1 ELSE 0

LEMMA Counted ==
    ASSUME IsFiniteSet(Threads), NEW S, S \subseteq Threads, NEW T, T \subseteq Threads,
           NEW t \in Threads, S \ {t} = T \ {t}
    PROVE  /\ Cardinality(S) \in Nat /\ Cardinality(T) \in Nat
           /\ Cardinality(T) + One(t, S) = Cardinality(S) + One(t, T)
  <1>1. /\ IsFiniteSet(S) /\ Cardinality(S) \in Nat
        /\ IsFiniteSet(T) /\ Cardinality(T) \in Nat
    BY FS_Subset, FS_CardinalityType
  <1>2. ASSUME NEW X, X \subseteq Threads, IsFiniteSet(X)
        PROVE  Cardinality(X) = Cardinality(X \ {t}) + One(t, X) /\ Cardinality(X \ {t}) \in Nat
    <2>1. IsFiniteSet(X \ {t}) /\ Cardinality(X) \in Nat /\ Cardinality(X \ {t}) \in Nat
      BY <1>2, FS_Subset, FS_CardinalityType
    <2>2. CASE t \in X
      <3>1. Cardinality(X \ {t}) = Cardinality(X) - 1
        BY <1>2, <2>2, FS_RemoveElement
      <3> QED
        BY <2>1, <2>2, <3>1 DEF One
    <2>3. CASE t \notin X
      <3>1. X \ {t} = X
        BY <2>3
      <3>2. Cardinality(X \ {t}) = Cardinality(X) /\ One(t, X) = 0
        BY <2>3, <3>1 DEF One
      <3> QED
        BY <2>1, <3>2
    <2> QED
      BY <2>2, <2>3
  <1>3. /\ Cardinality(S) = Cardinality(S \ {t}) + One(t, S)
        /\ Cardinality(T) = Cardinality(T \ {t}) + One(t, T)
        /\ Cardinality(S \ {t}) \in Nat
    BY <1>1, <1>2
  <1>4. One(t, S) \in Int /\ One(t, T) \in Int
    BY DEF One
  <1>5. Cardinality(S \ {t}) = Cardinality(T \ {t})
    OBVIOUS
  <1> QED
    BY <1>1, <1>3, <1>4, <1>5

\* A step is one thread's.
LEMMA OthersStay ==
    ASSUME WakeTypes, NEW t \in Threads, Step(t)
    PROVE  \A u \in Threads \ {t} : pc'[u] = pc[u]
  BY DEF WakeTypes, Step, Go, lvars, Dec, Restore, GetPos, Load, Clear, Register, Unregister,
         Sleep, PutPos, Await, Fill, Inc, Look, Unblock, Post

LEMMA WakeFrame ==
    ASSUME IsFiniteSet(Threads), WakeTypes, NEW t \in Threads, Step(t), NEW s \in Sides
    PROVE  /\ Cardinality(Blocked(s)) \in Nat /\ Cardinality(Blocked(s))' \in Nat
           /\ Cardinality(Posting(s)) \in Nat /\ Cardinality(Posting(s))' \in Nat
           /\ Cardinality(Blocked(s))' + One(t, Blocked(s))
                = Cardinality(Blocked(s)) + One(t, Blocked(s)')
           /\ Cardinality(Posting(s))' + One(t, Posting(s))
                = Cardinality(Posting(s)) + One(t, Posting(s)')
  <1>1. \A u \in Threads \ {t} : pc'[u] = pc[u]
    BY OthersStay
  <1>2. /\ Blocked(s) \subseteq Threads /\ Blocked(s)' \subseteq Threads
        /\ Blocked(s) \ {t} = Blocked(s)' \ {t}
    BY <1>1 DEF Blocked
  <1>3. /\ Posting(s) \subseteq Threads /\ Posting(s)' \subseteq Threads
        /\ Posting(s) \ {t} = Posting(s)' \ {t}
    BY <1>1 DEF Posting
  <1>4. /\ Cardinality(Blocked(s)) \in Nat /\ Cardinality(Blocked(s)') \in Nat
        /\ Cardinality(Blocked(s)') + One(t, Blocked(s))
             = Cardinality(Blocked(s)) + One(t, Blocked(s)')
    BY <1>2, Counted
  <1>5. /\ Cardinality(Posting(s)) \in Nat /\ Cardinality(Posting(s)') \in Nat
        /\ Cardinality(Posting(s)') + One(t, Posting(s))
             = Cardinality(Posting(s)) + One(t, Posting(s)')
    BY <1>3, Counted
  <1> QED
    BY <1>4, <1>5

\* Whether a thread is in one of the sets is where it is.
LEMMA WakeMembers ==
    ASSUME NEW t \in Threads, NEW s \in Sides
    PROVE  /\ One(t, Blocked(s)) =
                IF /\ From(t) = s
                   /\ pc[t] \in {"try2", "restore2", "get2", "load2", "clear2", "unregister",
                                 "sleep"}
                THEN 1 ELSE 0
           /\ One(t, Posting(s)) = IF To(t) = s /\ pc[t] = "post" THEN 1 ELSE 0
  BY DEF One, Blocked, Posting

LEMMA WakeMembers2 ==
    ASSUME NEW t \in Threads, NEW s \in Sides
    PROVE  /\ One(t, Blocked(s)') =
                IF /\ From(t) = s
                   /\ pc'[t] \in {"try2", "restore2", "get2", "load2", "clear2", "unregister",
                                  "sleep"}
                THEN 1 ELSE 0
           /\ One(t, Posting(s)') = IF To(t) = s /\ pc'[t] = "post" THEN 1 ELSE 0
  BY DEF One, Blocked, Posting

LEMMA WakeTypesStay ==
    ASSUME WakeTypes, NEW t \in Threads, Step(t)
    PROVE  WakeTypes'
  <1> USE FromTo DEF WakeTypes, Go, Places
  <1>1. CASE Dec(t)
    <2>1. PICK here \in Tries :
              pc' = [pc EXCEPT ![t] = IF count[From(t)] > 0 THEN Gets[here] ELSE Fails[here]]
      BY <1>1 DEF Dec
    <2>2. Gets[here] \in Places /\ Fails[here] \in Places
      BY DEF Tries, Fails, Gets
    <2> QED
      BY <1>1, <2>1, <2>2 DEF Dec, lvars
  <1>2. CASE Restore(t)
    BY <1>2 DEF Restore, lvars
  <1>3. CASE GetPos(t) \/ Load(t) \/ Clear(t)
    BY <1>3 DEF GetPos, Load, Clear
  <1>4. CASE Register(t) \/ Unregister(t) \/ Sleep(t)
    BY <1>4 DEF Register, Unregister, Sleep, lvars
  <1>5. CASE PutPos(t) \/ Await(t) \/ Fill(t)
    BY <1>5 DEF PutPos, Await, Fill, lvars
  <1>6. CASE Inc(t)
    BY <1>6 DEF Inc, lvars
  <1>7. CASE Look(t) \/ Unblock(t) \/ Post(t)
    BY <1>7 DEF Look, Unblock, Post, lvars
  <1> QED
    BY <1>1, <1>2, <1>3, <1>4, <1>5, <1>6, <1>7 DEF Step

-----------------------------------------------------------------------------
(* The registrations are accounted for. *)

LEMMA AccountsStay ==
    ASSUME IsFiniteSet(Threads), WakeInv, NEW t \in Threads, Step(t), NEW s \in Sides
    PROVE  Accounted(s)'
  <1> DEFINE R == Cardinality(Blocked(s))
             P == Cardinality(Posting(s))
  <1>1. /\ R \in Nat /\ P \in Nat /\ R' \in Nat /\ P' \in Nat
        /\ R' + One(t, Blocked(s)) = R + One(t, Blocked(s)')
        /\ P' + One(t, Posting(s)) = P + One(t, Posting(s)')
    BY WakeFrame DEF WakeInv
  <1>2. blocked_readers[s] + sem[s] + P = R
    BY DEF WakeInv, Accounted
  <1>3. SUFFICES blocked_readers'[s] + sem'[s] + P' = R'
    BY DEF Accounted
  <1> HIDE DEF R, P
  <1> USE FromTo, WakeMembers, WakeMembers2 DEF WakeInv, WakeTypes, Go
  <1>4. CASE Dec(t)
    <2>1. /\ blocked_readers' = blocked_readers /\ sem' = sem
          /\ \/ pc[t] \in {"try", "try3"} /\ pc'[t] \in {"get", "restore", "restore3"}
             \/ pc[t] = "try2" /\ pc'[t] \in {"get2", "restore2"}
      BY <1>4 DEF Dec, Tries, Gets, Fails
    <2> QED
      BY <1>1, <1>2, <2>1
  <1>5. CASE Restore(t)
    BY <1>1, <1>2, <1>5 DEF Restore
  <1>6. CASE GetPos(t) \/ Load(t) \/ Clear(t)
    <2>1. CASE GetPos(t)
      BY <1>1, <1>2, <2>1 DEF GetPos
    <2>2. CASE Load(t)
      BY <1>1, <1>2, <2>2 DEF Load
    <2>3. CASE Clear(t)
      BY <1>1, <1>2, <2>3 DEF Clear
    <2> QED
      BY <1>6, <2>1, <2>2, <2>3
  <1>7. CASE Register(t)
    BY <1>1, <1>2, <1>7 DEF Register
  <1>8. CASE Unregister(t)
    BY <1>1, <1>2, <1>8 DEF Unregister
  <1>9. CASE Sleep(t)
    BY <1>1, <1>2, <1>9 DEF Sleep
  <1>10. CASE PutPos(t) \/ Await(t) \/ Fill(t) \/ Inc(t)
    <2>1. CASE PutPos(t)
      BY <1>1, <1>2, <2>1 DEF PutPos
    <2>2. CASE Await(t)
      BY <1>1, <1>2, <2>2 DEF Await
    <2>3. CASE Fill(t)
      BY <1>1, <1>2, <2>3 DEF Fill
    <2>4. CASE Inc(t)
      BY <1>1, <1>2, <2>4 DEF Inc
    <2> QED
      BY <1>10, <2>1, <2>2, <2>3, <2>4
  <1>11. CASE Look(t)
    BY <1>1, <1>2, <1>11 DEF Look
  <1>12. CASE Unblock(t)
    BY <1>1, <1>2, <1>12 DEF Unblock
  <1>13. CASE Post(t)
    BY <1>1, <1>2, <1>13 DEF Post
  <1> QED
    BY <1>4, <1>5, <1>6, <1>7, <1>8, <1>9, <1>10, <1>11, <1>12, <1>13 DEF Step

-----------------------------------------------------------------------------
(* The theorem *)

LEMMA WakeInit ==
    ASSUME IsFiniteSet(Threads), QueueInit, max_depth \in Nat, MaxTakes \in Int
    PROVE  WakeInv
  <1>1. WakeTypes
    BY DEF WakeTypes, QueueInit, Places, Sides
  <1>2. ASSUME NEW s \in Sides
        PROVE  Accounted(s)
    <2>1. Blocked(s) = {} /\ Posting(s) = {}
      BY DEF Blocked, Posting, QueueInit
    <2> QED
      BY <2>1, FS_EmptySet DEF Accounted, QueueInit
  <1> QED
    BY <1>1, <1>2 DEF WakeInv

LEMMA WakeStep ==
    ASSUME IsFiniteSet(Threads), WakeInv, [QueueNext]_mqvars
    PROVE  WakeInv'
  <1>1. CASE QueueNext
    <2>1. PICK t \in Threads : Step(t)
      BY <1>1 DEF QueueNext
    <2>2. WakeTypes'
      BY <2>1, WakeTypesStay DEF WakeInv
    <2>3. \A s \in Sides : Accounted(s)'
      BY <2>1, AccountsStay
    <2> QED
      BY <2>2, <2>3 DEF WakeInv
  <1>2. CASE UNCHANGED mqvars
    BY <1>2 DEF mqvars, lvars, WakeInv, WakeTypes, Accounted, Blocked, Posting
  <1> QED
    BY <1>1, <1>2

\* Every thread that is registered or asleep is counted by blocked_readers, a post under way or
\* the semaphore, and nothing else is (message_queue.c:162-175, :186-190, :201-205, :222-236):
\* for any number of threads that block, on both sides, that put and that poll, and any depth.
THEOREM NoSleeperIsForgotten ==
    ASSUME IsFiniteSet(Threads), max_depth \in Nat, MaxTakes \in Int
    PROVE  QueueSpec => []SleepersAreAccounted
  <1>1. QueueInit => WakeInv
    BY WakeInit
  <1>2. WakeInv /\ [QueueNext]_mqvars => WakeInv'
    BY WakeStep
  <1>3. WakeInv => SleepersAreAccounted
    BY DEF WakeInv, Accounted, SleepersAreAccounted
  <1> QED
    BY <1>1, <1>2, <1>3, PTL DEF QueueSpec
=============================================================================
