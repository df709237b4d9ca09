----------------------------- MODULE PartsProof -----------------------------
(***************************************************************************)
(* Proofs about the parts of MC_Parts that share nothing but the process   *)
(* they run in.  The ring buffer is a FIFO queue for every element_count   *)
(* and every width of unsigned that is a multiple of it.  One daemon is    *)
(* named, for any number of processes.  What a client has kept of the      *)
(* BACnet device is good for as long as the revision says so.  The timer's *)
(* walks, however many threads make them, stay in the list, and the tasks  *)
(* are called within their periods while there is one walk at a time, for  *)
(* any number of tasks, until a task is freed under a walk.                *)
(***************************************************************************)
EXTENDS RingBuf, Daemon, BacnetDevice, Timer,
        SequenceTheorems, WellFoundedInduction, TLAPS

-----------------------------------------------------------------------------
(* The ring buffer *)

(* Unsigned arithmetic.  The counters stay below UintMod, so every remainder *)
(* the code takes of them is at most one addition of UintMod away.           *)

Counters == 0..(UintMod - 1)

\* Numbers with the same remainder differ by a multiple of the divisor.
LEMMA EqualRemainders ==
    ASSUME NEW M \in Nat, M > 0, NEW x \in Int, NEW y \in Int, x % M = y % M
    PROVE  x - y = M * ((x \div M) - (y \div M))
<1>1. x = M * (x \div M) + (x % M) /\ y = M * (y \div M) + (y % M)
  BY SMTT(30)
<1>2. (x \div M) \in Int /\ (y \div M) \in Int /\ (x % M) \in Int /\ (y % M) \in Int
  BY SMTT(30)
<1>3. ASSUME NEW A \in Int, NEW B \in Int
      PROVE  M * (A - B) = M * A - M * B
  BY SMTT(30)
<1>4. M * ((x \div M) - (y \div M)) = M * (x \div M) - M * (y \div M)
  BY <1>2, <1>3
<1>5. M * (x \div M) \in Int /\ M * (y \div M) \in Int
  BY <1>2, SMTT(30)
<1> QED
  BY <1>1, <1>2, <1>4, <1>5

\* The difference of two counters, wrapped.
LEMMA WrappedDifference ==
    ASSUME NEW h \in Counters, NEW t \in Counters
    PROVE  (h - t) % UintMod = IF h >= t THEN h - t ELSE h - t + UintMod
<1>1. UintMod \in Nat /\ UintMod > 0
  BY RingBufAssumption
<1>2. CASE h >= t
  BY <1>1, <1>2, SMTT(30) DEF Counters
<1>3. CASE h < t
  BY <1>1, <1>3, SMTT(30) DEF Counters
<1> QED
  BY <1>2, <1>3 DEF Counters

\* A counter advanced by less than UintMod, wrapped.
LEMMA WrappedSum ==
    ASSUME NEW t \in Counters, NEW i \in Counters
    PROVE  (t + i) % UintMod = IF t + i < UintMod THEN t + i ELSE t + i - UintMod
<1>1. UintMod \in Nat /\ UintMod > 0
  BY RingBufAssumption
<1>2. ASSUME NEW M \in Nat, M > 0, NEW q \in Int, NEW r \in 0..(M - 1)
      PROVE  (M * q + r) % M = r
  BY SMTT(30)
<1>3. CASE t + i < UintMod
  BY <1>1, <1>3, SMTT(30) DEF Counters
<1>4. CASE t + i >= UintMod
  <2>1. t + i - UintMod \in 0..(UintMod - 1)
    BY <1>1, <1>4 DEF Counters
  <2>2. (UintMod * 1 + (t + i - UintMod)) % UintMod = t + i - UintMod
    BY <1>1, <1>2, <2>1
  <2>3. UintMod * 1 + (t + i - UintMod) = t + i
    BY <1>1 DEF Counters
  <2> QED
    BY <1>1, <1>4, <2>2, <2>3 DEF Counters
<1> QED
  BY <1>3, <1>4, <1>1 DEF Counters

\* A counter taken back by one, wrapped.
LEMMA WrappedPredecessor ==
    ASSUME NEW t \in Counters
    PROVE  (t - 1) % UintMod = IF t = 0 THEN UintMod - 1 ELSE t - 1
<1>1. UintMod \in Nat /\ UintMod > 1
  BY RingBufAssumption
<1>2. CASE t = 0
  BY <1>1, <1>2, SMTT(30) DEF Counters
<1>3. CASE t > 0
  BY <1>1, <1>3, SMTT(30) DEF Counters
<1> QED
  BY <1>2, <1>3 DEF Counters

\* A remainder by element_count is a slot.
LEMMA SlotOfIsSlot ==
    ASSUME NEW c \in Int
    PROVE  SlotOf(c) \in Slots
BY RingBufAssumption, SMTT(30) DEF SlotOf, Slots

\* Two counters less than element_count apart have different slots: this is what
\* "element_count must be a power of two" is for.
LEMMA DistinctSlots ==
    ASSUME NEW a \in Counters, NEW b \in Counters,
           (a - b) % UintMod > 0, (a - b) % UintMod < element_count
    PROVE  SlotOf(a) # SlotOf(b)
<1> SUFFICES ASSUME a % element_count = b % element_count
             PROVE  FALSE
  BY DEF SlotOf
<1>1. /\ element_count \in Nat /\ element_count > 0
      /\ UintMod \in Nat /\ UintMod > 0 /\ UintMod % element_count = 0
  BY RingBufAssumption
<1>2. PICK k \in Int : a - b = element_count * k
  <2>1. a - b = element_count * ((a \div element_count) - (b \div element_count))
    BY <1>1, EqualRemainders DEF Counters
  <2>2. (a \div element_count) - (b \div element_count) \in Int
    BY <1>1, SMTT(30) DEF Counters
  <2> QED
    BY <2>1, <2>2
<1>3. 0 % element_count = 0
  BY <1>1, SMTT(30)
<1>4. PICK m \in Int : UintMod = element_count * m
  <2>1. UintMod - 0 = element_count * ((UintMod \div element_count) - (0 \div element_count))
    BY <1>1, <1>3, EqualRemainders
  <2>2. (UintMod \div element_count) - (0 \div element_count) \in Int
    BY <1>1, SMTT(30)
  <2>3. UintMod - 0 = UintMod
    BY <1>1
  <2> QED
    BY <2>1, <2>2, <2>3
<1>5. ASSUME NEW j \in Int, element_count * j > 0
      PROVE  element_count * j >= element_count
  BY <1>1, <1>5, SMTT(30)
<1>6. (a - b) % UintMod = a - b \/ (a - b) % UintMod = a - b + UintMod
  BY <1>1, WrappedDifference DEF Counters
<1>7. CASE (a - b) % UintMod = a - b
  BY <1>1, <1>2, <1>5, <1>7 DEF Counters
<1>8. CASE (a - b) % UintMod = a - b + UintMod
  <2>1. a - b + UintMod = element_count * (k + m)
    BY <1>1, <1>2, <1>4, SMTT(30) DEF Counters
  <2> QED
    BY <1>1, <1>5, <1>8, <2>1 DEF Counters
<1> QED
  BY <1>6, <1>7, <1>8

\* The number of elements and the new counter after head or tail moves by one.
LEMMA MovedCounters ==
    ASSUME NEW h \in Counters, NEW t \in Counters
    PROVE  /\ (h - t) % UintMod \in Counters
           /\ (h + 1) % UintMod \in Counters
           /\ (t + 1) % UintMod \in Counters
           /\ (t - 1) % UintMod \in Counters
           /\ (h - t) % UintMod < UintMod - 1 =>
                 /\ (((h + 1) % UintMod) - t) % UintMod = ((h - t) % UintMod) + 1
                 /\ (h - ((t - 1) % UintMod)) % UintMod = ((h - t) % UintMod) + 1
           /\ (h - t) % UintMod > 0 =>
                 (h - ((t + 1) % UintMod)) % UintMod = ((h - t) % UintMod) - 1
<1>1. UintMod \in Nat /\ UintMod > 1 /\ 1 \in Counters
  BY RingBufAssumption DEF Counters
<1>2. /\ (h - t) % UintMod = IF h >= t THEN h - t ELSE h - t + UintMod
      /\ (h + 1) % UintMod = IF h + 1 < UintMod THEN h + 1 ELSE h + 1 - UintMod
      /\ (t + 1) % UintMod = IF t + 1 < UintMod THEN t + 1 ELSE t + 1 - UintMod
      /\ (t - 1) % UintMod = IF t = 0 THEN UintMod - 1 ELSE t - 1
  BY <1>1, WrappedDifference, WrappedSum, WrappedPredecessor
<1>3. /\ (h - t) % UintMod \in Counters
      /\ (h + 1) % UintMod \in Counters
      /\ (t + 1) % UintMod \in Counters
      /\ (t - 1) % UintMod \in Counters
  BY <1>1, <1>2 DEF Counters
<1>4. ASSUME NEW a \in Counters, NEW b \in Counters
      PROVE  (a - b) % UintMod = IF a >= b THEN a - b ELSE a - b + UintMod
  BY WrappedDifference
<1>5. /\ (((h + 1) % UintMod) - t) % UintMod
            = IF (h + 1) % UintMod >= t THEN ((h + 1) % UintMod) - t
              ELSE ((h + 1) % UintMod) - t + UintMod
      /\ (h - ((t - 1) % UintMod)) % UintMod
            = IF h >= (t - 1) % UintMod THEN h - ((t - 1) % UintMod)
              ELSE h - ((t - 1) % UintMod) + UintMod
      /\ (h - ((t + 1) % UintMod)) % UintMod
            = IF h >= (t + 1) % UintMod THEN h - ((t + 1) % UintMod)
              ELSE h - ((t + 1) % UintMod) + UintMod
  BY <1>3, <1>4
<1> DEFINE up == (h + 1) % UintMod
           later == (t + 1) % UintMod
           prior == (t - 1) % UintMod
           n == (h - t) % UintMod
<1>6. ASSUME n < UintMod - 1 PROVE (up - t) % UintMod = n + 1
  BY <1>1, <1>2, <1>3, <1>5, <1>6, SMTT(30) DEF Counters
<1>7. ASSUME n < UintMod - 1 PROVE (h - prior) % UintMod = n + 1
  BY <1>1, <1>2, <1>3, <1>5, <1>7, SMTT(30) DEF Counters
<1>8. ASSUME n > 0 PROVE (h - later) % UintMod = n - 1
  BY <1>1, <1>2, <1>3, <1>5, <1>8, SMTT(30) DEF Counters
<1> QED
  BY <1>3, <1>6, <1>7, <1>8

\* Place(t, i): the counter of the element i places after the oldest.
Place(t, i) == (t + i) % UintMod

\* A place that holds an element lies behind head by the elements after it, and
\* the places count from the new tail as they did from the old one.
LEMMA SlotPlaces ==
    ASSUME NEW h \in Counters, NEW t \in Counters, NEW i \in Counters
    PROVE  /\ Place(t, i) \in Counters
           /\ Place(t, 0) = t
           /\ Place(t, (h - t) % UintMod) = h
           /\ i < (h - t) % UintMod =>
                 (h - Place(t, i)) % UintMod = ((h - t) % UintMod) - i
           /\ i < UintMod - 1 => /\ Place((t + 1) % UintMod, i) = Place(t, i + 1)
                                 /\ Place((t - 1) % UintMod, i + 1) = Place(t, i)
                                 /\ (Place(t, i) - ((t - 1) % UintMod)) % UintMod = i + 1
<1>1. UintMod \in Nat /\ UintMod > 1 /\ 0 \in Counters /\ 1 \in Counters
  BY RingBufAssumption DEF Counters
<1>2. ASSUME NEW a \in Counters, NEW b \in Counters
      PROVE  /\ Place(a, b) = IF a + b < UintMod THEN a + b ELSE a + b - UintMod
             /\ Place(a, b) \in Counters
  BY <1>1, WrappedSum DEF Place, Counters
<1>3. ASSUME NEW a \in Counters, NEW b \in Counters
      PROVE  (a - b) % UintMod = IF a >= b THEN a - b ELSE a - b + UintMod
  BY WrappedDifference
<1>4. /\ (t + 1) % UintMod = IF t + 1 < UintMod THEN t + 1 ELSE t + 1 - UintMod
      /\ (t - 1) % UintMod = IF t = 0 THEN UintMod - 1 ELSE t - 1
      /\ (t + 1) % UintMod \in Counters
      /\ (t - 1) % UintMod \in Counters
      /\ (h - t) % UintMod \in Counters
  BY <1>1, WrappedSum, WrappedPredecessor, MovedCounters
<1>5. Place(t, 0) = t /\ Place(t, i) \in Counters
  BY <1>1, <1>2 DEF Counters
<1>6. Place(t, (h - t) % UintMod) = h
  <2>1. (h - t) % UintMod = IF h >= t THEN h - t ELSE h - t + UintMod
    BY <1>3
  <2>2. Place(t, (h - t) % UintMod)
          = IF t + ((h - t) % UintMod) < UintMod THEN t + ((h - t) % UintMod)
            ELSE t + ((h - t) % UintMod) - UintMod
    BY <1>2, <1>4
  <2> QED
    BY <1>1, <2>1, <2>2, SMTT(30) DEF Counters
<1>7. ASSUME i < (h - t) % UintMod
      PROVE  (h - Place(t, i)) % UintMod = ((h - t) % UintMod) - i
  <2>1. (h - Place(t, i)) % UintMod
          = IF h >= Place(t, i) THEN h - Place(t, i) ELSE h - Place(t, i) + UintMod
    BY <1>3, <1>5
  <2>2. Place(t, i) = IF t + i < UintMod THEN t + i ELSE t + i - UintMod
    BY <1>2
  <2>3. (h - t) % UintMod = IF h >= t THEN h - t ELSE h - t + UintMod
    BY <1>3
  <2> HIDE DEF Place
  <2> QED
    BY <1>1, <1>7, <2>1, <2>2, <2>3, SMTT(30) DEF Counters
<1>8. ASSUME i < UintMod - 1
      PROVE  /\ Place((t + 1) % UintMod, i) = Place(t, i + 1)
             /\ Place((t - 1) % UintMod, i + 1) = Place(t, i)
  <2>1. i + 1 \in Counters
    BY <1>1, <1>8 DEF Counters
  <2>2. /\ Place(t, i + 1)
             = IF t + (i + 1) < UintMod THEN t + (i + 1) ELSE t + (i + 1) - UintMod
        /\ Place(t, i) = IF t + i < UintMod THEN t + i ELSE t + i - UintMod
    BY <1>2, <2>1
  <2>3. Place((t + 1) % UintMod, i)
          = IF ((t + 1) % UintMod) + i < UintMod THEN ((t + 1) % UintMod) + i
            ELSE ((t + 1) % UintMod) + i - UintMod
    BY <1>2, <1>4
  <2>4. Place((t - 1) % UintMod, i + 1)
          = IF ((t - 1) % UintMod) + (i + 1) < UintMod THEN ((t - 1) % UintMod) + (i + 1)
            ELSE ((t - 1) % UintMod) + (i + 1) - UintMod
    BY <1>2, <1>4, <2>1
  <2>5. Place((t + 1) % UintMod, i) = Place(t, i + 1)
    BY <1>1, <1>4, <1>8, <2>2, <2>3, SMTT(30) DEF Counters
  <2>6. Place((t - 1) % UintMod, i + 1) = Place(t, i)
    BY <1>1, <1>4, <1>8, <2>2, <2>4, SMTT(30) DEF Counters
  <2> QED
    BY <2>5, <2>6
<1>9. ASSUME i < UintMod - 1
      PROVE  (Place(t, i) - ((t - 1) % UintMod)) % UintMod = i + 1
  <2>1. (Place(t, i) - ((t - 1) % UintMod)) % UintMod
          = IF Place(t, i) >= (t - 1) % UintMod THEN Place(t, i) - ((t - 1) % UintMod)
            ELSE Place(t, i) - ((t - 1) % UintMod) + UintMod
    BY <1>3, <1>4, <1>5
  <2>2. Place(t, i) = IF t + i < UintMod THEN t + i ELSE t + i - UintMod
    BY <1>2
  <2> QED
    BY <1>1, <1>4, <1>9, <2>1, <2>2, SMTT(30) DEF Counters
<1> QED
  BY <1>5, <1>6, <1>7, <1>8, <1>9

-----------------------------------------------------------------------------
(* The inductive invariant.  CountInBounds does not keep itself: that a writer's *)
(* slot holds no element rests on the slot still being the one at head.          *)

WriterAtHead == pcP # "idle" => slot = SlotOf(head) /\ item \in Values

WrittenIsWhole == pcP \in {"advance", "data put"} => buffer[slot] = item

ElementsAreWhole ==
    \A i \in 0..(ringbuf_count - 1) : buffer[SlotOf(Place(tail, i))] \in Values

GotIsAtTail == pcC = "advance" => got \in Values /\ got = buffer[SlotOf(tail)]

IInv ==
    /\ TypeOK /\ CountInBounds
    /\ WriterAtHead /\ WrittenIsWhole /\ ElementsAreWhole /\ GotIsAtTail

\* The number of elements is a counter below UintMod - 1 while there is room.
LEMMA CountType ==
    ASSUME TypeOK
    PROVE  /\ head \in Counters /\ tail \in Counters
           /\ ringbuf_count \in Counters /\ ringbuf_count \in Nat
           /\ element_count \in Nat /\ element_count > 0
           /\ UintMod \in Nat /\ UintMod > element_count
           /\ ringbuf_count < element_count => ringbuf_count < UintMod - 1
<1>1. head \in Counters /\ tail \in Counters
  BY DEF TypeOK, Counters
<1>2. ringbuf_count \in Counters
  BY <1>1, MovedCounters DEF ringbuf_count
<1> QED
  BY <1>1, <1>2, RingBufAssumption DEF Counters

\* With room left, the slot at head is none of the slots that hold elements.
LEMMA HeadSlotIsFree ==
    ASSUME TypeOK, ringbuf_count < element_count, NEW i \in 0..(ringbuf_count - 1)
    PROVE  SlotOf(Place(tail, i)) # SlotOf(head)
<1>1. i \in Counters /\ i < ringbuf_count
  BY CountType DEF Counters
<1>2. head \in Counters /\ tail \in Counters
  BY CountType
<1>3. (head - Place(tail, i)) % UintMod = ringbuf_count - i /\ Place(tail, i) \in Counters
  BY <1>1, <1>2, SlotPlaces DEF ringbuf_count
<1>4. ringbuf_count - i > 0 /\ ringbuf_count - i < element_count
  BY <1>1, CountType DEF Counters
<1> HIDE DEF ringbuf_count
<1> QED
  BY <1>3, <1>4, CountType, DistinctSlots

\* With room left, the slot before tail is none of the slots that hold elements.
LEMMA FrontSlotIsFree ==
    ASSUME TypeOK, ringbuf_count < element_count, NEW i \in 0..(ringbuf_count - 1)
    PROVE  SlotOf(Place(tail, i)) # SlotOf((tail - 1) % UintMod)
<1>1. i \in Counters /\ i < UintMod - 1 /\ i + 1 < element_count /\ i + 1 > 0
  BY CountType DEF Counters
<1>2. /\ (Place(tail, i) - ((tail - 1) % UintMod)) % UintMod = i + 1
      /\ Place(tail, i) \in Counters /\ (tail - 1) % UintMod \in Counters
  <2>1. head \in Counters /\ tail \in Counters
    BY CountType
  <2>2. (tail - 1) % UintMod \in Counters
    BY <2>1, MovedCounters
  <2> QED
    BY <1>1, <2>1, <2>2, SlotPlaces
<1> QED
  BY <1>1, <1>2, DistinctSlots

\* A step that leaves the counters, and the slots that hold elements, as they are
\* leaves the elements as they are.
LEMMA ElementsKept ==
    ASSUME ElementsAreWhole, UNCHANGED <<head, tail>>,
           \A i \in 0..(ringbuf_count - 1) :
              buffer'[SlotOf(Place(tail, i))] = buffer[SlotOf(Place(tail, i))]
    PROVE  ElementsAreWhole'
<1>1. ringbuf_count' = ringbuf_count
  BY DEF ringbuf_count
<1>2. ASSUME NEW i \in 0..(ringbuf_count - 1)
      PROVE  buffer'[SlotOf(Place(tail', i))] \in Values
  BY DEF ElementsAreWhole
<1> HIDE DEF ringbuf_count
<1> QED
  BY <1>1, <1>2 DEF ElementsAreWhole, Place, SlotOf

-----------------------------------------------------------------------------
(* One lemma for each kind of step. *)

\* Finding room and a slot: ringbuf_put and ringbuf_data_peek.
LEMMA ReserveKeepsIInv ==
    ASSUME IInv, NEW v \in Values, PutCheck(v) \/ DataPeek(v)
    PROVE  IInv'
<1>1. /\ pcP = "idle" /\ ringbuf_count # element_count
      /\ slot' = SlotOf(head) /\ item' = v /\ pcP' \in Copying
      /\ UNCHANGED <<head, tail, buffer, pcC, got, delivered>>
  BY DEF PutCheck, DataPeek, ringbuf_full, Copying
<1>2. ringbuf_count' = ringbuf_count /\ SlotOf(head)' = SlotOf(head) /\ SlotOf(tail)' = SlotOf(tail)
  BY <1>1 DEF ringbuf_count, SlotOf
<1>3. ringbuf_count < element_count
  BY <1>1, CountType DEF IInv, CountInBounds
<1>4. SlotOf(head) \in Slots
  BY CountType, SlotOfIsSlot DEF IInv, Counters
<1>5. TypeOK'
  BY <1>1, <1>4 DEF IInv, TypeOK
<1>6. CountInBounds'
  <2> HIDE DEF ringbuf_count
  <2> QED
    BY <1>1, <1>2, <1>3 DEF IInv, CountInBounds
<1>7. WriterAtHead' /\ WrittenIsWhole'
  BY <1>1, <1>2 DEF WriterAtHead, WrittenIsWhole, Copying
<1>8. ElementsAreWhole'
  BY <1>1, ElementsKept DEF IInv
<1>9. GotIsAtTail'
  BY <1>1, <1>2 DEF IInv, GotIsAtTail
<1> QED
  BY <1>5, <1>6, <1>7, <1>8, <1>9 DEF IInv

\* The copy into the slot at head disturbs no element.
LEMMA CopyKeepsIInv ==
    ASSUME IInv, CopyBegin \/ CopyEnd
    PROVE  /\ IInv' /\ UNCHANGED <<head, tail, got, delivered>>
           /\ \A i \in 0..(ringbuf_count - 1) :
                 buffer'[SlotOf(Place(tail, i))] = buffer[SlotOf(Place(tail, i))]
<1>1. /\ pcP \in Copying /\ pcP' \in Copying \cup {"advance", "data put"}
      /\ \E x \in Values \cup {Torn} : buffer' = [buffer EXCEPT ![slot] = x]
      /\ pcP' \notin Copying => buffer' = [buffer EXCEPT ![slot] = item]
      /\ UNCHANGED <<head, tail, pcC, slot, item, got, delivered>>
  BY DEF CopyBegin, CopyEnd, Copying, IInv, WriterAtHead
<1>2. ringbuf_count' = ringbuf_count /\ SlotOf(head)' = SlotOf(head) /\ SlotOf(tail)' = SlotOf(tail)
  BY <1>1 DEF ringbuf_count, SlotOf
<1>3. ringbuf_count < element_count /\ slot = SlotOf(head) /\ item \in Values
  BY <1>1 DEF IInv, CountInBounds, WriterAtHead, Copying
<1>4. buffer \in [Slots -> Values \cup {NoValue, Torn}] /\ slot \in Slots
  BY DEF IInv, TypeOK
<1>5. ASSUME NEW c \in Int, SlotOf(c) # slot
      PROVE  buffer'[SlotOf(c)] = buffer[SlotOf(c)]
  BY <1>1, <1>4, <1>5, SlotOfIsSlot
<1>6. \A i \in 0..(ringbuf_count - 1) :
         buffer'[SlotOf(Place(tail, i))] = buffer[SlotOf(Place(tail, i))]
  <2> SUFFICES ASSUME NEW i \in 0..(ringbuf_count - 1)
               PROVE  buffer'[SlotOf(Place(tail, i))] = buffer[SlotOf(Place(tail, i))]
    OBVIOUS
  <2>1. SlotOf(Place(tail, i)) # slot
    BY <1>3, HeadSlotIsFree DEF IInv
  <2>2. i \in Counters
    BY CountType DEF IInv, Counters
  <2>3. Place(tail, i) \in Int
    BY <2>2, CountType, SlotPlaces DEF IInv, Counters
  <2> QED
    BY <1>5, <2>1, <2>3
<1>7. TypeOK'
  BY <1>1, <1>4 DEF IInv, TypeOK, Copying
<1>8. CountInBounds'
  <2> HIDE DEF ringbuf_count
  <2> QED
    BY <1>1, <1>2, <1>3 DEF IInv, CountInBounds
<1>9. WriterAtHead' /\ WrittenIsWhole'
  BY <1>1, <1>2, <1>3, <1>4 DEF WriterAtHead, WrittenIsWhole, Copying
<1>10. ElementsAreWhole'
  BY <1>1, <1>6, ElementsKept DEF IInv
<1>11. GotIsAtTail'
  <2> SUFFICES ASSUME pcC = "advance" PROVE buffer'[SlotOf(tail)] = buffer[SlotOf(tail)]
    BY <1>1, <1>2 DEF IInv, GotIsAtTail
  <2>1. 0 \in 0..(ringbuf_count - 1)
    BY CountType DEF IInv, CountInBounds
  <2>2. Place(tail, 0) = tail
    BY CountType, SlotPlaces DEF IInv, Counters
  <2> QED
    BY <1>6, <2>1, <2>2
<1> QED
  BY <1>1, <1>6, <1>7, <1>8, <1>9, <1>10, <1>11 DEF IInv

\* head moves over a slot that holds the whole element: ringbuf_put, and
\* ringbuf_data_put, whose two tests cannot fail.
LEMMA AdvanceKeepsIInv ==
    ASSUME IInv, PutAdvance \/ DataPut
    PROVE  /\ IInv' /\ UNCHANGED <<tail, buffer, got, delivered>>
           /\ ringbuf_count' = ringbuf_count + 1
           /\ ringbuf_count < element_count
           /\ buffer[SlotOf(Place(tail, ringbuf_count))] = item
           /\ item \in Values
<1>1. /\ pcP \in {"advance", "data put"} /\ pcP' = "idle"
      /\ UNCHANGED <<tail, buffer, pcC, slot, item, got, delivered>>
  BY DEF PutAdvance, DataPut
<1>2. /\ ringbuf_count < element_count /\ slot = SlotOf(head)
      /\ item \in Values /\ buffer[slot] = item
  BY <1>1 DEF IInv, CountInBounds, WriterAtHead, WrittenIsWhole
<1>3. head' = (head + 1) % UintMod
  <2>1. ringbuf_count # element_count
    BY <1>2, CountType DEF IInv
  <2> QED
    BY <1>2, <2>1 DEF PutAdvance, DataPut, ringbuf_full
<1>4. /\ head \in Counters /\ tail \in Counters /\ ringbuf_count \in Nat
      /\ ringbuf_count < UintMod - 1 /\ element_count \in Nat
  BY <1>2, CountType DEF IInv
<1>5. ringbuf_count' = ringbuf_count + 1 /\ head' \in Counters
  BY <1>1, <1>3, <1>4, MovedCounters DEF ringbuf_count
<1>6. Place(tail, ringbuf_count) = head
  BY <1>4, SlotPlaces DEF ringbuf_count, Counters
<1>7. SlotOf(tail)' = SlotOf(tail)
  BY <1>1 DEF SlotOf
<1>8. TypeOK'
  BY <1>1, <1>5 DEF IInv, TypeOK, Counters
<1> HIDE DEF ringbuf_count
<1>9. CountInBounds'
  <2>1. ringbuf_count' <= element_count /\ ringbuf_count' > 0
    BY <1>2, <1>4, <1>5
  <2> QED
    BY <1>1, <2>1 DEF CountInBounds
<1>10. WriterAtHead' /\ WrittenIsWhole'
  BY <1>1 DEF WriterAtHead, WrittenIsWhole
<1>11. ElementsAreWhole'
  <2> SUFFICES ASSUME NEW i \in 0..(ringbuf_count' - 1)
               PROVE  buffer[SlotOf(Place(tail, i))] \in Values
    BY <1>1 DEF ElementsAreWhole, Place, SlotOf
  <2>1. i = ringbuf_count \/ i \in 0..(ringbuf_count - 1)
    BY <1>4, <1>5
  <2> QED
    BY <1>2, <1>6, <2>1 DEF IInv, ElementsAreWhole
<1>12. GotIsAtTail'
  BY <1>1, <1>7 DEF IInv, GotIsAtTail
<1> QED
  BY <1>1, <1>2, <1>5, <1>6, <1>8, <1>9, <1>10, <1>11, <1>12 DEF IInv

\* The consumer finds an element and copies it out.
LEMMA ReadKeepsIInv ==
    ASSUME IInv, PopCheck \/ PopRead
    PROVE  IInv' /\ UNCHANGED <<head, tail, buffer, delivered>>
<1>1. /\ pcC' \in {"read", "advance"}
      /\ UNCHANGED <<head, tail, buffer, pcP, slot, item, delivered>>
  BY DEF PopCheck, PopRead
<1>2. ringbuf_count' = ringbuf_count /\ SlotOf(head)' = SlotOf(head) /\ SlotOf(tail)' = SlotOf(tail)
  BY <1>1 DEF ringbuf_count, SlotOf
<1>3. ringbuf_count > 0
  <2>1. ringbuf_count # 0 \/ pcC # "idle"
    BY DEF PopCheck, PopRead, ringbuf_empty
  <2> QED
    BY <2>1, CountType DEF IInv, CountInBounds
<1>4. buffer[SlotOf(tail)] \in Values
  <2>1. 0 \in 0..(ringbuf_count - 1)
    BY <1>3, CountType DEF IInv
  <2>2. Place(tail, 0) = tail
    BY CountType, SlotPlaces DEF IInv, Counters
  <2> QED
    BY <2>1, <2>2 DEF IInv, ElementsAreWhole
<1>5. TypeOK'
  BY <1>1, <1>4 DEF IInv, TypeOK, PopCheck, PopRead
<1>6. CountInBounds'
  <2> HIDE DEF ringbuf_count
  <2> QED
    BY <1>1, <1>2, <1>3 DEF IInv, CountInBounds
<1>7. WriterAtHead' /\ WrittenIsWhole'
  BY <1>1, <1>2 DEF IInv, WriterAtHead, WrittenIsWhole
<1>8. ElementsAreWhole'
  BY <1>1, ElementsKept DEF IInv
<1>9. GotIsAtTail'
  BY <1>1, <1>2, <1>4 DEF GotIsAtTail, PopCheck, PopRead
<1> QED
  BY <1>1, <1>5, <1>6, <1>7, <1>8, <1>9 DEF IInv

\* tail moves over the element that was copied out.
LEMMA PopKeepsIInv ==
    ASSUME IInv, PopAdvance
    PROVE  /\ IInv' /\ UNCHANGED buffer
           /\ ringbuf_count > 0 /\ ringbuf_count' = ringbuf_count - 1
           /\ delivered' = buffer[SlotOf(Place(tail, 0))]
           /\ \A i \in 0..(ringbuf_count - 2) : Place(tail', i) = Place(tail, i + 1)
<1>1. /\ pcC = "advance" /\ pcC' = "idle"
      /\ tail' = (tail + 1) % UintMod /\ delivered' = got
      /\ UNCHANGED <<head, buffer, pcP, slot, item, got>>
  BY DEF PopAdvance
<1>2. /\ ringbuf_count > 0 /\ got \in Values /\ got = buffer[SlotOf(tail)]
      /\ SlotOf(head)' = SlotOf(head)
  BY <1>1 DEF IInv, CountInBounds, GotIsAtTail, SlotOf
<1>3. /\ head \in Counters /\ tail \in Counters /\ element_count \in Nat
      /\ ringbuf_count \in Nat /\ ringbuf_count <= UintMod - 1 /\ UintMod \in Nat
  BY CountType DEF IInv, Counters
<1>4. ringbuf_count' = ringbuf_count - 1 /\ tail' \in Counters
  BY <1>1, <1>2, <1>3, MovedCounters DEF ringbuf_count
<1>5. Place(tail, 0) = tail
  BY <1>3, SlotPlaces DEF Counters
<1> HIDE DEF ringbuf_count
<1>6. \A i \in 0..(ringbuf_count - 2) : Place(tail', i) = Place(tail, i + 1)
  <2> SUFFICES ASSUME NEW i \in 0..(ringbuf_count - 2)
               PROVE  Place(tail', i) = Place(tail, i + 1)
    OBVIOUS
  <2>1. i \in Counters /\ i < UintMod - 1
    BY <1>3 DEF Counters
  <2> QED
    BY <1>1, <1>3, <2>1, SlotPlaces
<1>7. TypeOK'
  BY <1>1, <1>2, <1>4 DEF IInv, TypeOK, Counters
<1>8. CountInBounds'
  BY <1>1, <1>2, <1>3, <1>4 DEF IInv, CountInBounds
<1>9. WriterAtHead' /\ WrittenIsWhole'
  BY <1>1, <1>2 DEF IInv, WriterAtHead, WrittenIsWhole
<1>10. ElementsAreWhole'
  <2> SUFFICES ASSUME NEW i \in 0..(ringbuf_count' - 1)
               PROVE  buffer[SlotOf(Place(tail', i))] \in Values
    BY <1>1 DEF ElementsAreWhole, Place, SlotOf
  <2>1. i \in 0..(ringbuf_count - 2) /\ i + 1 \in 0..(ringbuf_count - 1)
    BY <1>3, <1>4
  <2> QED
    BY <1>6, <2>1 DEF IInv, ElementsAreWhole
<1>11. GotIsAtTail'
  BY <1>1 DEF GotIsAtTail
<1> QED
  BY <1>1, <1>2, <1>4, <1>5, <1>6, <1>7, <1>8, <1>9, <1>10, <1>11 DEF IInv

\* An element goes in before the oldest, with neither side in a call.
LEMMA FrontKeepsIInv ==
    ASSUME IInv, NEW v \in Values, PutFront(v)
    PROVE  /\ IInv' /\ UNCHANGED delivered
           /\ ringbuf_count < element_count /\ ringbuf_count' = ringbuf_count + 1
           /\ buffer'[SlotOf(Place(tail', 0))] = v
           /\ \A i \in 0..(ringbuf_count - 1) :
                 buffer'[SlotOf(Place(tail', i + 1))] = buffer[SlotOf(Place(tail, i))]
<1> DEFINE front == (tail - 1) % UintMod
<1>1. /\ pcP = "idle" /\ pcC = "idle" /\ ringbuf_count # element_count
      /\ tail' = front
      /\ buffer' = [buffer EXCEPT ![SlotOf(front)] = v]
      /\ UNCHANGED <<head, pcP, pcC, slot, item, got, delivered>>
  BY DEF PutFront, ringbuf_full
<1>2. ringbuf_count < element_count
  BY <1>1, CountType DEF IInv, CountInBounds
<1>3. /\ head \in Counters /\ tail \in Counters /\ element_count \in Nat
      /\ ringbuf_count \in Nat /\ ringbuf_count < UintMod - 1 /\ UintMod \in Nat
  BY <1>2, CountType DEF IInv
<1>4. front \in Counters
  BY <1>3, MovedCounters
<1>5. ringbuf_count' = ringbuf_count + 1
  BY <1>1, <1>3, MovedCounters DEF ringbuf_count
<1>6. SlotOf(front) \in Slots /\ buffer \in [Slots -> Values \cup {NoValue, Torn}]
  <2>1. front \in Int
    BY <1>3, <1>4 DEF Counters
  <2> HIDE DEF front
  <2> QED
    BY <2>1, SlotOfIsSlot DEF IInv, TypeOK
<1>7. Place(front, 0) = front
  BY <1>4, SlotPlaces DEF Counters
<1>8. buffer'[SlotOf(front)] = v
  BY <1>1, <1>6
<1> HIDE DEF ringbuf_count, front
<1>9. ASSUME NEW i \in 0..(ringbuf_count - 1)
      PROVE  buffer'[SlotOf(Place(front, i + 1))] = buffer[SlotOf(Place(tail, i))]
  <2>1. i \in Counters /\ i < UintMod - 1
    BY <1>3 DEF Counters
  <2>2. Place(front, i + 1) = Place(tail, i) /\ Place(tail, i) \in Int
    BY <1>3, <2>1, SlotPlaces DEF front, Counters
  <2>3. SlotOf(Place(tail, i)) # SlotOf(front)
    BY <1>2, FrontSlotIsFree DEF IInv, front
  <2>4. SlotOf(Place(tail, i)) \in Slots
    BY <2>2, SlotOfIsSlot
  <2> QED
    BY <1>1, <1>6, <2>2, <2>3, <2>4
<1>10. TypeOK'
  BY <1>1, <1>4, <1>6 DEF IInv, TypeOK, Counters
<1>11. CountInBounds'
  BY <1>1, <1>2, <1>3, <1>5 DEF CountInBounds
<1>12. WriterAtHead' /\ WrittenIsWhole' /\ GotIsAtTail'
  BY <1>1 DEF WriterAtHead, WrittenIsWhole, GotIsAtTail
<1>13. ElementsAreWhole'
  <2> SUFFICES ASSUME NEW i \in 0..(ringbuf_count' - 1)
               PROVE  buffer'[SlotOf(Place(front, i))] \in Values
    BY <1>1 DEF ElementsAreWhole, Place, SlotOf
  <2>1. CASE i = 0
    BY <1>7, <1>8, <2>1
  <2>2. CASE i # 0
    <3>1. i - 1 \in 0..(ringbuf_count - 1) /\ (i - 1) + 1 = i
      BY <1>3, <1>5, <2>2
    <3>2. buffer[SlotOf(Place(tail, i - 1))] \in Values
      BY <3>1 DEF IInv, ElementsAreWhole
    <3>3. buffer'[SlotOf(Place(front, (i - 1) + 1))] = buffer[SlotOf(Place(tail, i - 1))]
      BY <1>9, <3>1
    <3> QED
      BY <3>1, <3>2, <3>3
  <2> QED
    BY <2>1, <2>2
<1> QED
  BY <1>1, <1>2, <1>5, <1>7, <1>8, <1>9, <1>10, <1>11, <1>12, <1>13 DEF IInv

-----------------------------------------------------------------------------
\* An empty buffer satisfies the invariant.
LEMMA InitIInv == Init => IInv
<1> SUFFICES ASSUME Init PROVE IInv
  OBVIOUS
<1>1. 0 \in Counters /\ 0 \in Slots /\ element_count \in Nat
  BY RingBufAssumption DEF Counters, Slots
<1>2. ringbuf_count = 0
  BY <1>1, WrappedDifference DEF Init, ringbuf_count
<1>3. TypeOK
  BY <1>1 DEF Init, TypeOK, Counters
<1> HIDE DEF ringbuf_count
<1>4. CountInBounds /\ ElementsAreWhole
  BY <1>1, <1>2 DEF Init, CountInBounds, ElementsAreWhole
<1>5. WriterAtHead /\ WrittenIsWhole /\ GotIsAtTail
  BY DEF Init, WriterAtHead, WrittenIsWhole, GotIsAtTail
<1> QED
  BY <1>3, <1>4, <1>5 DEF IInv

\* The invariant only reads the variables.
LEMMA StutterKeepsIInv ==
    ASSUME IInv, UNCHANGED vars
    PROVE  IInv'
BY DEF vars, IInv, TypeOK, CountInBounds, WriterAtHead, WrittenIsWhole,
       ElementsAreWhole, GotIsAtTail, ringbuf_count, Place, SlotOf

\* Every step of the producer and of the consumer keeps the invariant.
LEMMA NextKeepsIInv == IInv /\ [Next]_vars => IInv'
<1> SUFFICES ASSUME IInv, [Next]_vars PROVE IInv'
  OBVIOUS
<1>1. CASE Producer
  BY <1>1, CopyKeepsIInv, AdvanceKeepsIInv, ReserveKeepsIInv DEF Producer
<1>2. CASE Consumer
  BY <1>2, ReadKeepsIInv, PopKeepsIInv DEF Consumer
<1>3. CASE \E v \in Values : PutFront(v)
  BY <1>3, FrontKeepsIInv
<1>4. CASE UNCHANGED vars
  BY <1>4, StutterKeepsIInv
<1> QED
  BY <1>1, <1>2, <1>3, <1>4 DEF Next

\* The invariant holds throughout, however the calls of the two sides interleave.
THEOREM Inductive == Spec => []IInv
BY InitIInv, NextKeepsIInv, PTL DEF Spec

\* The counters stay unsigned, every slot index is in the buffer.
THEOREM TypeCorrect == Spec => []TypeOK
<1>1. IInv => TypeOK
  BY DEF IInv
<1> QED
  BY <1>1, Inductive, PTL

\* ringbuf_count never exceeds element_count, and neither side's test for room or
\* for an element is outdated when it acts on it, whatever the other side did.
THEOREM CountBounded == Spec => []CountInBounds
<1>1. IInv => CountInBounds
  BY DEF IInv
<1> QED
  BY <1>1, Inductive, PTL

\* Producer and consumer are never in the same slot: the buffer needs no lock.
THEOREM NeverClash == Spec => []NoClash
<1>1. IInv => NoClash
  <2> SUFFICES ASSUME IInv, pcP # "idle", pcC # "idle"
               PROVE  slot # SlotOf(tail)
    BY DEF NoClash
  <2>1. slot = SlotOf(head) /\ ringbuf_count < element_count /\ ringbuf_count > 0
    BY DEF IInv, WriterAtHead, CountInBounds
  <2>2. 0 \in 0..(ringbuf_count - 1)
    BY <2>1, CountType DEF IInv
  <2>3. Place(tail, 0) = tail
    BY CountType, SlotPlaces DEF IInv, Counters
  <2>4. SlotOf(Place(tail, 0)) # SlotOf(head)
    BY <2>1, <2>2, HeadSlotIsFree DEF IInv
  <2> QED
    BY <2>1, <2>3, <2>4
<1> QED
  BY <1>1, Inductive, PTL

\* What the consumer has copied out is whole and the oldest, until tail moves.
THEOREM OldestInHand == Spec => []GotIsOldest
<1>1. IInv => GotIsOldest
  <2> SUFFICES ASSUME IInv, pcC = "advance"
               PROVE  got \in Values /\ got = Contents[1]
    BY DEF GotIsOldest
  <2>1. got \in Values /\ got = buffer[SlotOf(tail)] /\ ringbuf_count > 0
    BY DEF IInv, GotIsAtTail, CountInBounds
  <2>2. 1 \in 1..ringbuf_count /\ tail \in Counters
    BY <2>1, CountType DEF IInv
  <2>3. (tail + 1 - 1) % UintMod = tail
    <3>1. Place(tail, 0) = tail /\ tail + 1 - 1 = tail + 0
      BY <2>2, SlotPlaces DEF Counters
    <3> QED
      BY <3>1 DEF Place
  <2>4. Contents[1] = buffer[SlotOf((tail + 1 - 1) % UintMod)]
    <3> HIDE DEF ringbuf_count, SlotOf
    <3> QED
      BY <2>2 DEF Contents
  <2> QED
    BY <2>1, <2>3, <2>4
<1> QED
  BY <1>1, Inductive, PTL

-----------------------------------------------------------------------------
(* The refinement of the bounded queue. *)

\* The elements of a buffer b in the n places from counter t on.
InPlace(b, t, n) == [i \in 1..n |-> b[SlotOf((t + i - 1) % UintMod)]]

\* Whole elements in consecutive places form a sequence.
LEMMA ElementsInPlace ==
    ASSUME NEW b, NEW t \in Counters, NEW n \in Nat,
           \A i \in 0..(n - 1) : b[SlotOf(Place(t, i))] \in Values
    PROVE  /\ InPlace(b, t, n) \in Seq(Values) /\ Len(InPlace(b, t, n)) = n
           /\ \A i \in 1..n : InPlace(b, t, n)[i] = b[SlotOf(Place(t, i - 1))]
<1>1. ASSUME NEW i \in 1..n
      PROVE  InPlace(b, t, n)[i] = b[SlotOf(Place(t, i - 1))] /\ InPlace(b, t, n)[i] \in Values
  <2>1. t + i - 1 = t + (i - 1) /\ i - 1 \in 0..(n - 1)
    BY DEF Counters
  <2>2. InPlace(b, t, n)[i] = b[SlotOf(Place(t, i - 1))]
    BY <2>1 DEF Place, InPlace
  <2> QED
    BY <2>1, <2>2
<1>2. InPlace(b, t, n) \in [1..n -> Values]
  BY <1>1 DEF InPlace
<1>3. InPlace(b, t, n) \in Seq(Values)
  BY <1>2, SeqDef
<1>4. Len(InPlace(b, t, n)) = n
  BY <1>2, <1>3, LenProperties
<1> QED
  BY <1>1, <1>3, <1>4

\* The elements of the buffer, before a step and after it.
LEMMA ContentsBeforeAndAfter ==
    ASSUME IInv, IInv'
    PROVE  /\ Contents \in Seq(Values) /\ Len(Contents) = ringbuf_count
           /\ \A i \in 1..ringbuf_count : Contents[i] = buffer[SlotOf(Place(tail, i - 1))]
           /\ Contents' \in Seq(Values) /\ Len(Contents') = ringbuf_count'
           /\ \A i \in 1..ringbuf_count' :
                 Contents'[i] = buffer'[SlotOf(Place(tail', i - 1))]
           /\ ringbuf_count \in Nat /\ ringbuf_count' \in Nat
<1>1. /\ tail \in Counters /\ ringbuf_count \in Nat
      /\ tail' \in Counters /\ ringbuf_count' \in Nat
  <2>1. head \in Counters /\ tail \in Counters /\ head' \in Counters /\ tail' \in Counters
    BY DEF IInv, TypeOK, Counters
  <2>2. ringbuf_count \in Counters /\ ringbuf_count' \in Counters
    BY <2>1, MovedCounters DEF ringbuf_count
  <2> QED
    BY <2>1, <2>2, RingBufAssumption DEF Counters
<1>2. /\ \A i \in 0..(ringbuf_count - 1) : buffer[SlotOf(Place(tail, i))] \in Values
      /\ \A i \in 0..(ringbuf_count' - 1) : buffer'[SlotOf(Place(tail', i))] \in Values
  <2>1. \A i \in 0..(ringbuf_count - 1) : buffer[SlotOf(Place(tail, i))] \in Values
    BY DEF IInv, ElementsAreWhole
  <2>2. ElementsAreWhole'
    BY DEF IInv
  <2>3. \A i \in 0..(ringbuf_count' - 1) : buffer'[SlotOf(Place(tail', i))] \in Values
    BY <2>2 DEF ElementsAreWhole, Place, SlotOf
  <2> QED
    BY <2>1, <2>3
<1>3. /\ Contents = InPlace(buffer, tail, ringbuf_count)
      /\ Contents' = InPlace(buffer', tail', ringbuf_count')
  BY DEF Contents, SlotOf, InPlace
<1> HIDE DEF ringbuf_count, Contents
<1>4. /\ Contents \in Seq(Values) /\ Len(Contents) = ringbuf_count
      /\ \A i \in 1..ringbuf_count : Contents[i] = buffer[SlotOf(Place(tail, i - 1))]
  BY <1>1, <1>2, <1>3, ElementsInPlace
<1>5. /\ Contents' \in Seq(Values) /\ Len(Contents') = ringbuf_count'
      /\ \A i \in 1..ringbuf_count' :
            Contents'[i] = buffer'[SlotOf(Place(tail', i - 1))]
  BY <1>1, <1>2, <1>3, ElementsInPlace
<1> QED
  BY <1>1, <1>4, <1>5

\* A step that keeps the counters and the elements is a stutter of the queue.
LEMMA QueueStutters ==
    ASSUME IInv, IInv', UNCHANGED <<head, tail, delivered>>,
           \A i \in 0..(ringbuf_count - 1) :
              buffer'[SlotOf(Place(tail, i))] = buffer[SlotOf(Place(tail, i))]
    PROVE  UNCHANGED <<Contents, delivered>>
<1>1. ringbuf_count' = ringbuf_count
  BY DEF ringbuf_count
<1> HIDE DEF ringbuf_count, Contents
<1>2. ASSUME NEW i \in 1..ringbuf_count
      PROVE  Contents'[i] = Contents[i]
  <2>1. i - 1 \in 0..(ringbuf_count - 1)
    BY ContentsBeforeAndAfter
  <2>2. /\ Contents[i] = buffer[SlotOf(Place(tail, i - 1))]
        /\ Contents'[i] = buffer'[SlotOf(Place(tail', i - 1))]
    BY <1>1, ContentsBeforeAndAfter
  <2>3. tail' = tail
    OBVIOUS
  <2> QED
    BY <2>1, <2>2, <2>3
<1>3. Contents' = Contents
  <2>1. /\ Contents \in Seq(Values) /\ Contents' \in Seq(Values)
        /\ Len(Contents') = ringbuf_count /\ Len(Contents) = ringbuf_count
    BY <1>1, ContentsBeforeAndAfter
  <2> QED
    BY <1>2, <2>1, SeqEqual
<1> QED
  BY <1>3

\* head moving is a Put of the element that was copied in.
LEMMA AdvanceIsPut ==
    ASSUME IInv, IInv', PutAdvance \/ DataPut
    PROVE  \E v \in Values : Fifo!Put(v)
<1>1. /\ UNCHANGED <<tail, buffer, delivered>>
      /\ ringbuf_count' = ringbuf_count + 1 /\ ringbuf_count < element_count
      /\ buffer[SlotOf(Place(tail, ringbuf_count))] = item /\ item \in Values
  BY AdvanceKeepsIInv
<1> HIDE DEF ringbuf_count, Contents
<1>2. /\ Contents \in Seq(Values) /\ Len(Contents) = ringbuf_count
      /\ Contents' \in Seq(Values) /\ Len(Contents') = ringbuf_count + 1
      /\ ringbuf_count \in Nat
  BY <1>1, ContentsBeforeAndAfter
<1>3. /\ Append(Contents, item) \in Seq(Values)
      /\ Len(Append(Contents, item)) = ringbuf_count + 1
      /\ \A i \in 1..ringbuf_count : Append(Contents, item)[i] = Contents[i]
      /\ Append(Contents, item)[ringbuf_count + 1] = item
  BY <1>1, <1>2, AppendProperties
<1>4. ASSUME NEW i \in 1..(ringbuf_count + 1)
      PROVE  Contents'[i] = Append(Contents, item)[i]
  <2>1. Contents'[i] = buffer[SlotOf(Place(tail, i - 1))]
    <3>1. Contents'[i] = buffer'[SlotOf(Place(tail', i - 1))]
      BY <1>1, ContentsBeforeAndAfter
    <3> QED
      BY <1>1, <3>1
  <2>2. CASE i = ringbuf_count + 1
    <3>1. i - 1 = ringbuf_count
      BY <1>2, <2>2
    <3> QED
      BY <1>1, <1>3, <2>1, <2>2, <3>1
  <2>3. CASE i \in 1..ringbuf_count
    BY <1>3, <2>1, <2>3, ContentsBeforeAndAfter
  <2> QED
    BY <1>2, <2>2, <2>3
<1>5. Contents' = Append(Contents, item)
  BY <1>2, <1>3, <1>4, SeqEqual
<1> QED
  BY <1>1, <1>2, <1>5 DEF Fifo!Put

\* tail moving is a Pop.
LEMMA TailMoveIsPop ==
    ASSUME IInv, IInv', PopAdvance
    PROVE  Fifo!Pop
<1>1. /\ UNCHANGED buffer
      /\ ringbuf_count > 0 /\ ringbuf_count' = ringbuf_count - 1
      /\ delivered' = buffer[SlotOf(Place(tail, 0))]
      /\ \A i \in 0..(ringbuf_count - 2) : Place(tail', i) = Place(tail, i + 1)
  BY PopKeepsIInv
<1> HIDE DEF ringbuf_count, Contents
<1>2. /\ Contents \in Seq(Values) /\ Len(Contents) = ringbuf_count
      /\ Contents' \in Seq(Values) /\ Len(Contents') = ringbuf_count - 1
      /\ ringbuf_count \in Nat
  BY <1>1, ContentsBeforeAndAfter
<1>3. Contents # <<>>
  BY <1>1, <1>2, EmptySeq
<1>4. /\ Tail(Contents) \in Seq(Values) /\ Len(Tail(Contents)) = ringbuf_count - 1
      /\ \A i \in 1..(ringbuf_count - 1) : Tail(Contents)[i] = Contents[i + 1]
  BY <1>2, <1>3, HeadTailProperties
<1>5. Head(Contents) = delivered'
  <2>1. Contents[1] = buffer[SlotOf(Place(tail, 1 - 1))]
    <3>1. 1 \in 1..ringbuf_count
      BY <1>1, <1>2
    <3> QED
      BY <3>1, ContentsBeforeAndAfter
  <2>2. Head(Contents) = Contents[1] /\ 1 - 1 = 0
    BY <1>2, <1>3
  <2> QED
    BY <1>1, <2>1, <2>2
<1>6. ASSUME NEW i \in 1..(ringbuf_count - 1)
      PROVE  Contents'[i] = Tail(Contents)[i]
  <2>1. i + 1 \in 1..ringbuf_count /\ (i + 1) - 1 = (i - 1) + 1 /\ i - 1 \in 0..(ringbuf_count - 2)
    BY <1>2
  <2>2. Contents[i + 1] = buffer[SlotOf(Place(tail, (i + 1) - 1))]
    BY <2>1, ContentsBeforeAndAfter
  <2>3. Contents'[i] = buffer'[SlotOf(Place(tail', i - 1))]
    BY <1>1, ContentsBeforeAndAfter
  <2>4. Place(tail', i - 1) = Place(tail, (i - 1) + 1)
    BY <1>1, <2>1
  <2> QED
    BY <1>1, <1>4, <2>1, <2>2, <2>3, <2>4
<1>7. Contents' = Tail(Contents)
  BY <1>2, <1>4, <1>6, SeqEqual
<1> QED
  BY <1>3, <1>5, <1>7 DEF Fifo!Pop

\* ringbuf_put_front is a PutFront.
LEMMA FrontIsPutFront ==
    ASSUME IInv, IInv', NEW v \in Values, PutFront(v)
    PROVE  Fifo!PutFront(v)
<1>1. /\ UNCHANGED delivered
      /\ ringbuf_count < element_count /\ ringbuf_count' = ringbuf_count + 1
      /\ buffer'[SlotOf(Place(tail', 0))] = v
      /\ \A i \in 0..(ringbuf_count - 1) :
            buffer'[SlotOf(Place(tail', i + 1))] = buffer[SlotOf(Place(tail, i))]
  BY FrontKeepsIInv
<1> HIDE DEF ringbuf_count, Contents
<1>2. /\ Contents \in Seq(Values) /\ Len(Contents) = ringbuf_count
      /\ Contents' \in Seq(Values) /\ Len(Contents') = ringbuf_count + 1
      /\ ringbuf_count \in Nat
  BY <1>1, ContentsBeforeAndAfter
<1>3. <<v>> \in Seq(Values) /\ Len(<<v>>) = 1 /\ <<v>>[1] = v
  OBVIOUS
<1>4. /\ <<v>> \o Contents \in Seq(Values)
      /\ Len(<<v>> \o Contents) = ringbuf_count + 1
      /\ \A i \in 1..(ringbuf_count + 1) :
            (<<v>> \o Contents)[i] = IF i <= 1 THEN <<v>>[i] ELSE Contents[i - 1]
  <2>1. \A i \in 1..(Len(<<v>>) + Len(Contents)) :
           (<<v>> \o Contents)[i]
              = IF i <= Len(<<v>>) THEN <<v>>[i] ELSE Contents[i - Len(<<v>>)]
    BY <1>2, <1>3, ConcatProperties
  <2>2. <<v>> \o Contents \in Seq(Values) /\ Len(<<v>> \o Contents) = 1 + ringbuf_count
    BY <1>2, <1>3, ConcatProperties
  <2> QED
    BY <1>2, <1>3, <2>1, <2>2
<1>5. ASSUME NEW i \in 1..(ringbuf_count + 1)
      PROVE  Contents'[i] = (<<v>> \o Contents)[i]
  <2>1. Contents'[i] = buffer'[SlotOf(Place(tail', i - 1))]
    BY <1>1, ContentsBeforeAndAfter
  <2>2. CASE i = 1
    <3>1. i - 1 = 0
      BY <2>2
    <3> QED
      BY <1>1, <1>3, <1>4, <2>1, <2>2, <3>1
  <2>3. CASE i > 1
    <3>1. i - 1 \in 1..ringbuf_count /\ (i - 1) - 1 \in 0..(ringbuf_count - 1)
          /\ ((i - 1) - 1) + 1 = i - 1 /\ ~(i <= 1)
      BY <1>2, <2>3
    <3>2. Contents[i - 1] = buffer[SlotOf(Place(tail, (i - 1) - 1))]
      BY <3>1, ContentsBeforeAndAfter
    <3>3. buffer'[SlotOf(Place(tail', ((i - 1) - 1) + 1))]
            = buffer[SlotOf(Place(tail, (i - 1) - 1))]
      BY <1>1, <3>1
    <3> QED
      BY <1>4, <2>1, <3>1, <3>2, <3>3
  <2> QED
    BY <1>2, <2>2, <2>3
<1>6. Contents' = <<v>> \o Contents
  BY <1>2, <1>4, <1>5, SeqEqual
<1> QED
  BY <1>1, <1>2, <1>6 DEF Fifo!PutFront

\* The ring buffer is a bounded FIFO: head moving is a Put, tail moving a Pop,
\* ringbuf_put_front a PutFront, and every check and copy in between a stutter.
THEOREM RingBufferIsFifo == Spec => PromiseKept
<1>1. Init => Fifo!Init
  <2> SUFFICES ASSUME Init PROVE Contents = <<>> /\ delivered \notin Values
    BY DEF Fifo!Init
  <2>1. ringbuf_count = 0
    BY RingBufAssumption, WrappedDifference DEF Init, ringbuf_count, Counters
  <2>2. Contents = <<>>
    BY <2>1 DEF Contents
  <2> QED
    BY <2>2, RingBufAssumption DEF Init
<1>2. IInv /\ IInv' /\ [Next]_vars => [Fifo!Next]_<<Contents, delivered>>
  <2> SUFFICES ASSUME IInv, IInv', [Next]_vars
               PROVE  Fifo!Next \/ UNCHANGED <<Contents, delivered>>
    OBVIOUS
  <2>1. CASE CopyBegin \/ CopyEnd
    BY <2>1, CopyKeepsIInv, QueueStutters
  <2>2. CASE PutAdvance \/ DataPut
    BY <2>2, AdvanceIsPut DEF Fifo!Next
  <2>3. CASE \E v \in Values : PutCheck(v) \/ DataPeek(v)
    BY <2>3, QueueStutters DEF PutCheck, DataPeek
  <2>4. CASE PopCheck \/ PopRead
    BY <2>4, ReadKeepsIInv, QueueStutters
  <2>5. CASE PopAdvance
    BY <2>5, TailMoveIsPop DEF Fifo!Next
  <2>6. CASE \E v \in Values : PutFront(v)
    BY <2>6, FrontIsPutFront DEF Fifo!Next
  <2>7. CASE UNCHANGED vars
    BY <2>7, QueueStutters DEF vars
  <2> QED
    BY <2>1, <2>2, <2>3, <2>4, <2>5, <2>6, <2>7 DEF Next, Producer, Consumer
<1> QED
  BY <1>1, <1>2, Inductive, PTL DEF Spec, PromiseKept, Fifo!Spec

-----------------------------------------------------------------------------
(* The daemon *)

Stages == {"daemonize", "open", "lock", "truncate", "write", "restore", "block", "thread",
          "running", "gone"}

DaemonTypes ==
    /\ stage \in [Processes -> Stages]
    /\ hangup \in [Processes -> {"default", "ignore", "wait"}]
    /\ single \in [Processes -> BOOLEAN]

\* Between lockfile and its end a process has the lock; who does not ask to be the only
\* one never comes near the file.
PastLock(p) == stage[p] \in {"truncate", "write", "restore", "block", "thread", "running"}
AtFile(p) == stage[p] \in {"open", "lock", "truncate", "write"}
PastWrite(p) == stage[p] \in {"restore", "block", "thread", "running"}

HoldsLock == \A p \in Processes : single[p] /\ PastLock(p) => lock = p
OnlySingle == \A p \in Processes : AtFile(p) => single[p]
FileNames == \A p \in Processes : single[p] /\ PastWrite(p) => pidfile = <<p>>

DaemonInv == DaemonTypes /\ HoldsLock /\ OnlySingle /\ FileNames

-----------------------------------------------------------------------------
LEMMA DaemonInitHolds == DaemonInit => DaemonInv
  BY DEF DaemonInit, DaemonInv, DaemonTypes, Stages, HoldsLock, OnlySingle, FileNames,
         PastLock, AtFile, PastWrite

\* What ends a process takes nothing from the others: they do not hold its lock.
LEMMA GoneKeeps ==
    ASSUME DaemonInv, NEW p \in Processes, Gone(p)
    PROVE  DaemonInv'
  <1>1. stage' = [stage EXCEPT ![p] = "gone"] /\ DaemonTypes'
    BY DEF Gone, DaemonInv, DaemonTypes, Stages
  <1>2. \A q \in Processes : q # p => stage'[q] = stage[q]
    BY <1>1 DEF DaemonInv, DaemonTypes
  <1>3. stage'[p] = "gone"
    BY <1>1 DEF DaemonInv, DaemonTypes
  <1>4. HoldsLock'
    <2> SUFFICES ASSUME NEW q \in Processes, single[q], PastLock(q)'
                 PROVE  lock' = q
      BY DEF HoldsLock, Gone
    <2>1. q # p
      BY <1>3 DEF PastLock
    <2>2. lock = q
      BY <2>1, <1>2 DEF PastLock, DaemonInv, HoldsLock
    <2>3. QED
      BY <2>1, <2>2 DEF Gone
  <1>5. OnlySingle' /\ FileNames'
    BY <1>2, <1>3 DEF Gone, DaemonInv, OnlySingle, FileNames, AtFile, PastWrite
  <1>6. QED
    BY <1>1, <1>4, <1>5 DEF DaemonInv

\* A step that leaves the lock and the file alone, and goes neither past the lock nor
\* past the file but from where that was already so.
LEMMA StepKeeps ==
    ASSUME DaemonInv, NEW p \in Processes, NEW there \in Stages,
           stage' = [stage EXCEPT ![p] = there],
           hangup' \in [Processes -> {"default", "ignore", "wait"}],
           UNCHANGED <<single, pidfile, lock>>,
           there \in {"restore", "block", "thread", "running"} /\ single[p] => PastWrite(p),
           there \notin {"truncate", "write"},
           there \in {"open", "lock"} => single[p]
    PROVE  DaemonInv'
  <1>1. stage \in [Processes -> Stages]
    BY DEF DaemonInv, DaemonTypes
  <1>2. stage'[p] = there /\ \A q \in Processes : q # p => stage'[q] = stage[q]
    BY <1>1
  <1>3. PastWrite(p) => PastLock(p)
    BY DEF PastWrite, PastLock
  <1>4. DaemonTypes'
    BY <1>1 DEF DaemonInv, DaemonTypes
  <1>5. HoldsLock'
    <2> SUFFICES ASSUME NEW q \in Processes, single[q], PastLock(q)'
                 PROVE  lock = q
      BY DEF HoldsLock
    <2>1. PastLock(q)
      BY <1>2, <1>3 DEF PastLock
    <2>2. QED
      BY <2>1 DEF DaemonInv, HoldsLock
  <1>6. FileNames'
    <2> SUFFICES ASSUME NEW q \in Processes, single[q], PastWrite(q)'
                 PROVE  pidfile = <<q>>
      BY DEF FileNames
    <2>1. PastWrite(q)
      BY <1>2 DEF PastWrite
    <2>2. QED
      BY <2>1 DEF DaemonInv, FileNames
  <1>7. OnlySingle'
    BY <1>2 DEF DaemonInv, OnlySingle, AtFile
  <1>8. QED
    BY <1>4, <1>5, <1>6, <1>7 DEF DaemonInv

\* The lock is taken when nobody has it, so no other process is past it.
LEMMA LockKeeps ==
    ASSUME DaemonInv, Nobody \notin Processes, NEW p \in Processes, lockfile(p)
    PROVE  DaemonInv'
  <1>1. stage[p] = "lock" /\ stage' = [stage EXCEPT ![p] = "truncate"] /\ lock = Nobody /\ lock' = p
        /\ UNCHANGED <<hangup, single, pidfile>>
    BY DEF lockfile, At
  <1>2. DaemonTypes' /\ stage'[p] = "truncate" /\ \A q \in Processes : q # p => stage'[q] = stage[q]
    BY <1>1 DEF DaemonInv, DaemonTypes, Stages
  <1>3. single[p]
    BY <1>1 DEF DaemonInv, OnlySingle, AtFile
  <1>4. \A q \in Processes : ~(single[q] /\ PastLock(q))
    BY <1>1 DEF DaemonInv, HoldsLock
  <1>5. HoldsLock'
    BY <1>1, <1>2, <1>4 DEF HoldsLock, PastLock
  <1>6. OnlySingle' /\ FileNames'
    BY <1>1, <1>2, <1>3 DEF DaemonInv, OnlySingle, FileNames, AtFile, PastWrite
  <1>7. QED
    BY <1>2, <1>5, <1>6 DEF DaemonInv

\* Only the holder of the lock changes the file, when no other is past it.
LEMMA FileKeeps ==
    ASSUME DaemonInv, NEW p \in Processes, Truncate(p) \/ WritePid(p)
    PROVE  DaemonInv'
  <1>1. PICK there \in {"write", "restore"} :
            /\ stage' = [stage EXCEPT ![p] = there]
            /\ there = "restore" => pidfile' = <<p>>
    BY DEF Truncate, WritePid, At
  <1>2. stage[p] \in {"truncate", "write"} /\ UNCHANGED <<hangup, single, lock>>
    BY DEF Truncate, WritePid, At
  <1>3. DaemonTypes' /\ stage'[p] = there /\ \A q \in Processes : q # p => stage'[q] = stage[q]
    BY <1>1, <1>2 DEF DaemonInv, DaemonTypes, Stages
  <1>4. single[p] /\ lock = p
    BY <1>2 DEF DaemonInv, OnlySingle, AtFile, HoldsLock, PastLock
  <1>5. HoldsLock' /\ OnlySingle'
    BY <1>2, <1>3, <1>4 DEF DaemonInv, HoldsLock, OnlySingle, PastLock, AtFile
  <1>6. FileNames'
    <2> SUFFICES ASSUME NEW q \in Processes, single[q], PastWrite(q)'
                 PROVE  pidfile' = <<q>>
      BY <1>2 DEF FileNames
    <2>1. q = p
      BY <1>2, <1>3, <1>4 DEF DaemonInv, HoldsLock, PastLock, PastWrite
    <2>2. QED
      BY <2>1, <1>1, <1>3 DEF PastWrite
  <1>7. QED
    BY <1>3, <1>5, <1>6 DEF DaemonInv

-----------------------------------------------------------------------------
LEMMA DaemonStepKeeps ==
    ASSUME DaemonInv, Nobody \notin Processes, [DaemonNext]_dvars
    PROVE  DaemonInv'
  <1>1. ASSUME NEW p \in Processes, Daemonize(p) PROVE DaemonInv'
    <2>1. CASE single[p]
      BY <1>1, <2>1, StepKeeps DEF Daemonize, At, Stages, DaemonInv, DaemonTypes
    <2>2. CASE ~single[p]
      BY <1>1, <2>2, StepKeeps DEF Daemonize, At, Stages, DaemonInv, DaemonTypes
    <2>3. QED BY <2>1, <2>2
  <1>2. ASSUME NEW p \in Processes, Open(p) PROVE DaemonInv'
    <2>1. single[p]
      BY <1>2 DEF Open, At, DaemonInv, OnlySingle, AtFile
    <2>2. QED
      BY <1>2, <2>1, StepKeeps DEF Open, At, Stages, DaemonInv, DaemonTypes
  <1>3. ASSUME NEW p \in Processes, RestoreSighup(p) PROVE DaemonInv'
    BY <1>3, StepKeeps DEF RestoreSighup, At, Stages, PastWrite, DaemonInv, DaemonTypes
  <1>4. ASSUME NEW p \in Processes, BlockAll(p) PROVE DaemonInv'
    BY <1>4, StepKeeps DEF BlockAll, At, Stages, PastWrite, DaemonInv, DaemonTypes
  <1>5. ASSUME NEW p \in Processes, CreateThread(p) PROVE DaemonInv'
    <2>1. CASE Gone(p)
      BY <2>1, GoneKeeps
    <2>2. CASE ~Gone(p)
      BY <1>5, <2>2, StepKeeps DEF CreateThread, At, Stages, PastWrite, DaemonInv, DaemonTypes
    <2>3. QED BY <2>1, <2>2
  <1>6. ASSUME NEW p \in Processes, AlreadyRunning(p) \/ Hangup(p) \/ Terminate(p) PROVE DaemonInv'
    BY <1>6, GoneKeeps DEF AlreadyRunning, Hangup, Terminate
  <1>7. CASE UNCHANGED dvars
    BY <1>7 DEF dvars, DaemonInv, DaemonTypes, HoldsLock, OnlySingle, FileNames, PastLock,
                AtFile, PastWrite
  <1>8. QED
    BY <1>1, <1>2, <1>3, <1>4, <1>5, <1>6, <1>7, LockKeeps, FileKeeps DEF DaemonNext

\* The daemon that is running is the only one that asked to be, and the pid file names
\* it, whatever processes were started, killed and started again (daemon.c:already_running).
THEOREM OneDaemonNamed ==
    ASSUME Nobody \notin Processes
    PROVE  DaemonSpec => []PidFileNamesTheDaemon
  <1>1. DaemonInv /\ [DaemonNext]_dvars => DaemonInv'
    BY DaemonStepKeeps
  <1>2. DaemonInv => PidFileNamesTheDaemon
    BY DEF DaemonInv, HoldsLock, FileNames, PastLock, PastWrite, PidFileNamesTheDaemon
  <1>3. QED
    BY DaemonInitHolds, <1>1, <1>2, PTL DEF DaemonSpec

-----------------------------------------------------------------------------
(* The BACnet device object *)

\* Fewer changes are made than there are revisions, which are 2^32 (device-client.c:85).
RevisionsLast == MaxCalls \in Nat /\ RevisionMod \in Nat /\ MaxCalls < RevisionMod

ToTell == {"increment", "increment, initialize"}

DeviceTypes ==
    /\ Database_Revision \in Nat /\ calls \in Nat /\ exempt \in BOOLEAN
    /\ calling \in ToTell \cup {"initialize", "idle"}
    /\ DOMAIN cached = {"id", "revision", "name"} /\ cached.revision \in Nat \cup {Unread}

\* Every revision has a call of its own, the one that is still to come too.
RevisionsCounted ==
    /\ calls <= MaxCalls /\ Database_Revision <= calls
    /\ calling \in ToTell => Database_Revision < calls

\* What the client has kept: nothing from a revision to come, and with the revision of now the
\* name of now, unless a change of the name is still to be told.
Kept ==
    /\ cached.name # NoName => cached.revision # Unread
    /\ ~exempt => cached.revision <= Database_Revision
    /\ /\ ~exempt /\ cached.name # NoName /\ cached.revision = Database_Revision
       /\ calling \notin ToTell
       => cached.name = My_Object_Name

DeviceInv == DeviceTypes /\ RevisionsCounted /\ Kept

\* What the device answers to the two questions a client asks (device-client.c:620).
LEMMA Answers ==
    /\ cached.id = Object_Instance_Number =>
          /\ Answer("database_revision") = Success(Database_Revision)
          /\ Answer("object_name") = Success(My_Object_Name)
    /\ cached.id # Object_Instance_Number =>
          /\ Answer("database_revision") = Failure("unknown object")
          /\ Answer("object_name") = Failure("unknown object")
  <1>1. /\ ReadLocal("database_revision", AnyIndex) = Success(Database_Revision)
        /\ ReadLocal("object_name", AnyIndex) = Success(My_Object_Name)
    BY DEF ReadLocal, Constants, AnyIndex
  <1> QED
    BY <1>1 DEF Answer, Device_Read_Property, Device_Valid_Object_Id

LEMMA AnswersDiffer ==
    /\ Failure("unknown object").code # "ok"
    /\ \A x : Success(x).code = "ok" /\ Success(x).value = x
    /\ \A x, y : Success(x) = Success(y) <=> x = y
  <1>1. /\ Failure("unknown object").code # "ok"
        /\ \A x : Success(x).code = "ok" /\ Success(x).value = x
    BY SMT DEF Failure, Success
  <1> QED
    BY <1>1, Zenon

LEMMA DeviceInitially == RevisionsLast /\ DeviceInit => DeviceInv
  <1> SUFFICES ASSUME RevisionsLast, DeviceInit PROVE DeviceInv
    OBVIOUS
  <1>1. /\ Database_Revision = 0 /\ calls = 0 /\ exempt = FALSE /\ calling = "idle"
        /\ cached.revision = Unread /\ cached.name = NoName
        /\ DOMAIN cached = {"id", "revision", "name"}
    BY SMT DEF DeviceInit, Defaults, Nothing
  <1> QED
    <2>1. DeviceTypes
      BY <1>1 DEF DeviceTypes
    <2>2. RevisionsCounted
      BY <1>1 DEF RevisionsLast, RevisionsCounted, ToTell
    <2>3. Kept
      BY <1>1 DEF Kept, Unread
    <2> QED
      BY <2>1, <2>2, <2>3 DEF DeviceInv

\* A step that leaves alone what the client has kept.
LEMMA KeptStays ==
    ASSUME DeviceInv, UNCHANGED cached, exempt' \in BOOLEAN,
           \/ exempt'
           \/ /\ exempt' <=> exempt
              /\ Database_Revision' = Database_Revision
              /\ \/ My_Object_Name' = My_Object_Name /\ calling \notin ToTell
                 \/ calling' \in ToTell
           \/ /\ exempt' <=> exempt
              /\ Database_Revision' = Database_Revision + 1
    PROVE  Kept'
  <1> USE DEF DeviceInv, DeviceTypes, Kept, Unread
  <1>1. CASE exempt'
    BY <1>1
  <1>2. CASE /\ exempt' <=> exempt
             /\ Database_Revision' = Database_Revision
             /\ \/ My_Object_Name' = My_Object_Name /\ calling \notin ToTell
                \/ calling' \in ToTell
    BY <1>2
  <1>3. CASE /\ exempt' <=> exempt
             /\ Database_Revision' = Database_Revision + 1
    BY <1>3
  <1> QED
    BY <1>1, <1>2, <1>3

\* The calls of the daemon.
LEMMA CallStep ==
    ASSUME RevisionsLast, DeviceInv,
           \/ ServiceInit \/ Device_Init \/ Restart
           \/ \E n \in Instances : SetInstance(n)
           \/ \E name \in Names : SetName(name)
           \/ \E r \in 0..1 : SetRevision(r)
           \/ \E status, local : SetStatus(status, local)
           \/ \E length : SetText(length)
    PROVE  DeviceInv'
  <1> USE DEF DeviceTypes, RevisionsCounted, ToTell
  <1>0. DeviceTypes /\ RevisionsCounted /\ RevisionsLast
    BY DEF DeviceInv
  <1>6. /\ MaxCalls \in Nat /\ calls \in Nat /\ Database_Revision \in Nat
        /\ Database_Revision <= calls
    BY <1>0 DEF RevisionsLast
  <1>1. CASE Device_Init
    <2>1. exempt' \/ ((exempt' <=> exempt) /\ My_Object_Name' = My_Object_Name)
      <3>1. /\ exempt' = (exempt \/ My_Object_Name # DefaultName)
            /\ My_Object_Name' = DefaultName
        BY <1>1 DEF Device_Init
      <3>2. CASE My_Object_Name = DefaultName
        <4>1. exempt' <=> exempt
          BY <3>1, <3>2, Zenon
        <4> QED
          BY <3>1, <3>2, <4>1
      <3>3. CASE My_Object_Name # DefaultName
        <4>1. exempt'
          BY <3>1, <3>3, Zenon
        <4> QED
          BY <4>1
      <3> QED
        BY <3>2, <3>3
    <2>2. /\ calling = "initialize" /\ calling' = "idle" /\ exempt' \in BOOLEAN
          /\ UNCHANGED <<Database_Revision, cached, calls>>
      BY <1>1 DEF Device_Init
    <2>3. Kept'
      BY <2>1, <2>2, KeptStays
    <2> QED
      BY <1>0, <2>2, <2>3 DEF DeviceInv
  <1>2. CASE Restart
    <2>1. /\ exempt' = TRUE /\ calling' = "idle" /\ UNCHANGED cached
          /\ Database_Revision' = 0 /\ calls < MaxCalls /\ calls' = calls + 1
      BY <1>2 DEF Restart
    <2> QED
      <3>1. Kept'
        BY <2>1, KeptStays
      <3>2. calls' \in Nat /\ calls' <= MaxCalls /\ 0 <= calls'
        BY <1>6, <2>1
      <3> QED
        BY <1>0, <2>1, <3>1, <3>2 DEF DeviceInv
  <1>3. ASSUME NEW r \in 0..1, SetRevision(r)
        PROVE  DeviceInv'
    <2>1. /\ exempt' = TRUE /\ calling = "idle" /\ UNCHANGED <<calling, cached>>
          /\ Database_Revision' = r /\ calls < MaxCalls /\ calls' = calls + 1
      BY <1>3 DEF SetRevision, Call
    <2> QED
      <3>1. Kept'
        BY <2>1, KeptStays
      <3>2. calls' \in Nat /\ calls' <= MaxCalls /\ 0 <= calls'
        BY <1>6, <2>1
      <3> QED
        BY <1>0, <2>1, <3>1, <3>2 DEF DeviceInv
  <1>4. ASSUME /\ calling = "idle" /\ calls < MaxCalls /\ calls' = calls + 1
               /\ UNCHANGED <<Database_Revision, cached, exempt>>
               /\ \/ calling' \in ToTell
                  \/ UNCHANGED <<My_Object_Name, calling>>
        PROVE  DeviceInv'
    <2>1. Kept'
      BY <1>0, <1>4, KeptStays
    <2>0. calls < MaxCalls /\ calls' = calls + 1 /\ Database_Revision' = Database_Revision
      BY <1>4
    <2>2. calls' \in Nat /\ calls' <= MaxCalls /\ Database_Revision' < calls'
      BY <1>6, <2>0
    <2>3. /\ Database_Revision' \in Nat /\ exempt' \in BOOLEAN
          /\ DOMAIN cached' = {"id", "revision", "name"}
          /\ cached'.revision \in Nat \cup {Unread}
      BY <1>0, <1>4
    <2>4. calling' \in ToTell \cup {"initialize", "idle"}
      BY <1>0, <1>4
    <2>5. DeviceTypes'
      BY <2>2, <2>3, <2>4
    <2>6. RevisionsCounted'
      <3>1. Database_Revision' <= calls'
        BY <1>6, <2>0
      <3> QED
        BY <2>2, <3>1
    <2> QED
      BY <2>1, <2>5, <2>6 DEF DeviceInv
  <1>5. \/ Device_Init \/ Restart \/ (\E r \in 0..1 : SetRevision(r))
        \/ /\ calling = "idle" /\ calls < MaxCalls /\ calls' = calls + 1
           /\ UNCHANGED <<Database_Revision, cached, exempt>>
           /\ \/ calling' \in ToTell
              \/ UNCHANGED <<My_Object_Name, calling>>
    <2>1. CASE ServiceInit
      BY <2>1 DEF ServiceInit, Call
    <2>2. CASE \E n \in Instances : SetInstance(n)
      BY <2>2 DEF SetInstance, Call
    <2>3. CASE \E name \in Names : SetName(name)
      BY <2>3 DEF SetName, Call
    <2>4. CASE \E status, local : SetStatus(status, local)
      BY <2>4 DEF SetStatus, Call
    <2>5. CASE \E length : SetText(length)
      BY <2>5 DEF SetText, Call, object
    <2> QED
      BY <2>1, <2>2, <2>3, <2>4, <2>5
  <1> HIDE DEF DeviceTypes, RevisionsCounted, ToTell
  <1> QED
    BY <1>1, <1>2, <1>3, <1>4, <1>5

LEMMA IncrementStep ==
    ASSUME RevisionsLast, DeviceInv, Increment
    PROVE  DeviceInv'
  <1> DEFINE bumped == Database_Revision + 1
  <1>1. /\ calling \in ToTell /\ calling' \in {"initialize", "idle"}
        /\ Database_Revision' = bumped % RevisionMod
        /\ UNCHANGED <<cached, exempt, calls>>
    BY DEF Increment, ToTell
  <1>2. /\ bumped \in Nat /\ bumped <= calls /\ bumped < RevisionMod
    BY <1>1 DEF RevisionsLast, DeviceInv, DeviceTypes, RevisionsCounted
  <1>3. bumped % RevisionMod = bumped
    BY <1>2 DEF RevisionsLast
  <1>4. Kept'
    BY <1>1, <1>3, KeptStays DEF DeviceInv, DeviceTypes
  <1> QED
    BY <1>1, <1>2, <1>3, <1>4 DEF DeviceInv, DeviceTypes, RevisionsCounted, ToTell

\* The client.
LEMMA ClientStep ==
    ASSUME DeviceInv, Discover \/ ReadRevision \/ ReadName
    PROVE  DeviceInv'
  <1> DEFINE known == cached.id = Object_Instance_Number
             current == cached.revision = Database_Revision
  <1>1. UNCHANGED <<My_Object_Name, Database_Revision, calling, calls>>
    BY DEF Discover, ReadRevision, ReadName, Reads, object
  <1>2. exempt' \in BOOLEAN
    <2>1. CASE Discover
      BY <2>1 DEF Discover
    <2>2. CASE ReadRevision
      <3>1. exempt' = (exempt /\ cached' = cached)
        BY <2>2 DEF ReadRevision
      <3> QED
        BY <3>1, Zenon
    <2>3. CASE ReadName
      BY <2>3 DEF ReadName, DeviceInv, DeviceTypes
    <2> QED
      BY <2>1, <2>2, <2>3
  <1>3. \/ /\ cached'.revision = Unread /\ cached'.name = NoName
           /\ DOMAIN cached' = {"id", "revision", "name"}
        \/ UNCHANGED <<cached, exempt>>
        \/ cached' = [cached EXCEPT !.revision = Database_Revision, !.name = NoName]
        \/ /\ cached' = [cached EXCEPT !.name = My_Object_Name]
           /\ cached.revision # Unread /\ UNCHANGED exempt
    <2>1. CASE Discover
      BY <2>1, SMT DEF Discover, Nothing
    <2>2. CASE ReadRevision
      <3> DEFINE answer == Answer("database_revision")
                 keeps(a) == CASE a.code # "ok" -> Nothing
                               [] a = Success(cached.revision) -> cached
                               [] OTHER -> [cached EXCEPT !.revision = a.value, !.name = NoName]
      <3>1. cached' = keeps(answer) /\ exempt' = (exempt /\ cached' = cached)
        BY <2>2 DEF ReadRevision
      <3>2. CASE ~known
        <4>1. cached' = Nothing
          BY <3>1, <3>2, Answers, AnswersDiffer
        <4> QED
          BY <4>1 DEF Nothing
      <3>3. CASE known
        <4>1. answer = Success(Database_Revision)
          BY <3>3, Answers
        <4>2. CASE current
          <5>1. cached' = cached
            BY <3>1, <4>1, <4>2, AnswersDiffer
          <5>2. exempt' = exempt
            BY <3>1, <5>1 DEF DeviceInv, DeviceTypes
          <5> QED
            BY <5>1, <5>2
        <4>3. CASE ~current
          BY <3>1, <4>1, <4>3, AnswersDiffer
        <4> QED
          BY <4>2, <4>3
      <3> QED
        BY <3>2, <3>3
    <2>3. CASE ReadName
      <3> DEFINE answer == Answer("object_name")
      <3>1. /\ cached' = IF answer.code # "ok" THEN Nothing
                         ELSE [cached EXCEPT !.name = answer.value]
            /\ cached.revision # Unread /\ UNCHANGED exempt
        BY <2>3 DEF ReadName
      <3>2. CASE ~known
        <4>1. cached' = Nothing
          BY <3>1, <3>2, Answers, AnswersDiffer
        <4> QED
          BY <4>1 DEF Nothing
      <3>3. CASE known
        BY <3>1, <3>3, Answers, AnswersDiffer
      <3> QED
        BY <3>2, <3>3
    <2> QED
      BY <2>1, <2>2, <2>3
  <1>4. DeviceTypes'
    BY <1>1, <1>2, <1>3 DEF DeviceInv, DeviceTypes
  <1>5. RevisionsCounted'
    BY <1>1 DEF DeviceInv, RevisionsCounted
  <1>6. Kept'
    <2>0. DeviceTypes /\ Kept
      BY DEF DeviceInv
    <2>1. CASE cached'.revision = Unread /\ cached'.name = NoName
      BY <1>1, <2>0, <2>1 DEF DeviceTypes, Kept, Unread
    <2>2. CASE UNCHANGED <<cached, exempt>>
      BY <1>1, <2>0, <2>2 DEF Kept
    <2>3. CASE cached' = [cached EXCEPT !.revision = Database_Revision, !.name = NoName]
      <3>1. cached'.revision = Database_Revision /\ cached'.name = NoName
        BY <2>0, <2>3 DEF DeviceTypes
      <3> QED
        BY <1>1, <2>0, <3>1 DEF DeviceTypes, Kept
    <2>4. CASE /\ cached' = [cached EXCEPT !.name = My_Object_Name]
               /\ cached.revision # Unread /\ UNCHANGED exempt
      <3>1. cached'.revision = cached.revision /\ cached'.name = My_Object_Name
        BY <2>0, <2>4 DEF DeviceTypes
      <3> QED
        BY <1>1, <2>0, <2>4, <3>1 DEF DeviceTypes, Kept
    <2> QED
      BY <1>3, <2>1, <2>2, <2>3, <2>4
  <1> QED
    BY <1>4, <1>5, <1>6 DEF DeviceInv

\* While there are fewer changes than revisions, a client that finds the revision it has kept
\* has the name of now, whenever it has read: also between the change of a name and the
\* increment that tells it (device-client.c:202-206).
THEOREM CacheStaysGood ==
    ASSUME RevisionsLast
    PROVE  DeviceSpec => []CacheIsGood
  <1>1. DeviceInit => DeviceInv
    BY DeviceInitially
  <1>2. DeviceInv /\ [DeviceNext]_devicevars => DeviceInv'
    <2> SUFFICES ASSUME DeviceInv, [DeviceNext]_devicevars
                 PROVE  DeviceInv'
      OBVIOUS
    <2>1. CASE UNCHANGED devicevars
      BY <2>1 DEF devicevars, object, DeviceInv, DeviceTypes, RevisionsCounted, Kept
    <2>2. CASE DeviceNext
      BY <2>2, CallStep, IncrementStep, ClientStep DEF DeviceNext
    <2> QED
      BY <2>1, <2>2
  <1>3. DeviceInv => CacheIsGood
    <2> SUFFICES ASSUME DeviceInv, Served, calling = "idle", ~exempt, cached.name # NoName,
                        Answer("database_revision").code = "ok",
                        Answer("database_revision").value = cached.revision
                 PROVE  /\ cached.name = My_Object_Name
                        /\ Device_Valid_Object_Name(cached.name) = <<"device", cached.id>>
      BY DEF CacheIsGood
    <2>1. cached.id = Object_Instance_Number
      BY Answers, AnswersDiffer, Zenon
    <2>2. cached.revision = Database_Revision
      BY <2>1, Answers, SMT DEF Success
    <2>3. cached.name = My_Object_Name
      BY <2>2 DEF DeviceInv, Kept, ToTell
    <2> QED
      BY <2>1, <2>3 DEF Device_Valid_Object_Name, Device_Object_List_Identifier,
                        Device_Object_List_Count, Object_Table
  <1> QED
    BY <1>1, <1>2, <1>3, PTL DEF DeviceSpec

-----------------------------------------------------------------------------
(* The timer *)

\* timer_task_register refuses a period of 0 (timer.c:263).  Counts are far from 2^32 ms, where
\* the addition of timer.c:157 would wrap.
TimerAssumption == Periods \subseteq Nat \ {0} /\ Prevs \subseteq Nat

TaskType ==
    [period : Nat \ {0}, tick : Nat, enable : BOOLEAN, does : Callbacks \cup {"nothing"}]

\* Tasks are numbered as they are registered, at the tail: the list is in order.
Increasing(list) == \A j, k \in 1..Len(list) : j < k => list[j] < list[k]

TimerTypes ==
    /\ task \in Seq(TaskType) /\ waited \in Seq(Nat) /\ Len(waited) = Len(task)
    /\ timer_list \in Seq(1..Len(task)) /\ Increasing(timer_list)
    /\ thread \in [Walkers -> {"none", "sleep", "awake", "walk"}]
    /\ canceled \in [Walkers -> BOOLEAN]
    /\ cursor \in [Walkers -> Nat] /\ follower \in [Walkers -> Nat]

NoneReleased == released \subseteq 1..Len(task) /\ released \cap Registered = {}

\* The entry a walk is at is in the list, and so is the one that it goes on to, with none
\* between the two.  When it goes on to the head, tasks may have been added meanwhile.
Walking(k) ==
    Walks(k) =>
        /\ cursor[k] \in Registered
        /\ follower[k] # Head0 =>
             /\ follower[k] \in Registered /\ cursor[k] < follower[k]
             /\ \A t \in Registered : t <= cursor[k] \/ t >= follower[k]

\* One thread at most is not cancelled, and none when no timer is started.
OneStarted ==
    /\ \A k \in Walkers : ~canceled[k] => started
    /\ \A j, k \in Walkers : ~canceled[j] /\ ~canceled[k] => j = k

WalksAlone == \A j, k \in Walkers : Walks(j) /\ Walks(k) => j = k

\* Is the walk of the started timer yet to come to a task?
ToVisit(t) ==
    \E k \in Walkers :
        Walks(k) /\ ~canceled[k] /\ (t = cursor[k] \/ (follower[k] # Head0 /\ t >= follower[k]))

\* A task has waited no longer than it has counted, but for the tick of a walk that is yet
\* to come to it.  One registered with a count beyond its period has not waited at all.
OnTime(tick, period, wait, visit) ==
    IF visit THEN wait <= tick + 1 /\ (tick < period \/ wait <= 1)
    ELSE wait <= tick /\ (tick < period \/ wait = 0)
Counts ==
    \A t \in Registered :
        task[t].enable => OnTime(task[t].tick, task[t].period, waited[t], ToVisit(t))

WalkInv ==
    /\ ~fault /\ TimerTypes /\ NoneReleased /\ OneStarted
    /\ \A k \in Walkers : Walking(k)

\* Whatever the number of walks, the list is walked within its entries; as long as there was
\* one at a time, the tasks' counts are kept.
TimerInv == WalkInv /\ (~doubled => WalksAlone /\ Counts)

\* What holds until somebody is careless.
CarefulInv ==
    careless \in BOOLEAN /\ doubled \in BOOLEAN /\ (~careless => TimerInv)

-----------------------------------------------------------------------------
(* Lists in order *)

LEMMA InSet ==
    ASSUME NEW S, NEW list \in Seq(S)
    PROVE  /\ \A k \in 1..Len(list) : list[k] \in ToSet(list)
           /\ \A t \in ToSet(list) : t \in S /\ \E k \in 1..Len(list) : list[k] = t
  BY DEF ToSet

LEMMA PlaceFound ==
    ASSUME NEW list \in Seq(Nat), NEW t \in ToSet(list)
    PROVE  PlaceIn(list, t) \in 1..Len(list) /\ list[PlaceIn(list, t)] = t
  <1>1. \E k \in DOMAIN list : list[k] = t
    BY DEF ToSet
  <1>2. PlaceIn(list, t) \in DOMAIN list /\ list[PlaceIn(list, t)] = t
    BY <1>1 DEF PlaceIn
  <1> QED
    BY <1>2

\* The next entry is the next greater one, or the head after the last.
LEMMA NextGreater ==
    ASSUME NEW list \in Seq(Nat), Increasing(list), NEW t \in ToSet(list)
    PROVE  LET e == EntryAfter(list, t)
           IN  \/ e = Head0 /\ \A u \in ToSet(list) : u <= t
               \/ e \in ToSet(list) /\ t < e /\ \A u \in ToSet(list) : u <= t \/ u >= e
  <1> DEFINE n == PlaceIn(list, t)
  <1>1. n \in 1..Len(list) /\ list[n] = t
    BY PlaceFound
  <1>2. \A u \in ToSet(list) : u \in Nat /\ \E k \in 1..Len(list) : list[k] = u
    BY InSet
  <1> HIDE DEF n
  <1>3. CASE n < Len(list)
    <2>1. EntryAfter(list, t) = list[n + 1]
      BY <1>3 DEF EntryAfter, n
    <2>2. n + 1 \in 1..Len(list) /\ list[n + 1] \in ToSet(list) /\ t < list[n + 1]
      BY <1>1, <1>3, InSet DEF Increasing
    <2>3. ASSUME NEW u \in ToSet(list) PROVE u <= t \/ u >= list[n + 1]
      <3>1. PICK k \in 1..Len(list) : list[k] = u
        BY <1>2
      <3>2. k < n \/ k = n \/ k = n + 1 \/ k > n + 1
        BY <1>1
      <3>3. list[k] \in Nat /\ list[n] \in Nat /\ list[n + 1] \in Nat
        BY <1>1, <2>2
      <3>4. k < n => list[k] < list[n]
        BY <1>1 DEF Increasing
      <3>5. k > n + 1 => list[n + 1] < list[k]
        BY <2>2 DEF Increasing
      <3> QED
        BY <1>1, <3>1, <3>2, <3>3, <3>4, <3>5
    <2> QED
      BY <2>1, <2>2, <2>3
  <1>4. CASE ~(n < Len(list))
    <2>1. EntryAfter(list, t) = Head0
      BY <1>4 DEF EntryAfter, n
    <2>2. ASSUME NEW u \in ToSet(list) PROVE u <= t
      <3>1. PICK k \in 1..Len(list) : list[k] = u
        BY <1>2
      <3>2. k < n \/ k = n
        BY <1>1, <1>4
      <3>3. list[k] \in Nat /\ list[n] \in Nat
        BY <1>1
      <3>4. k < n => list[k] < list[n]
        BY <1>1 DEF Increasing
      <3> QED
        BY <1>1, <3>1, <3>2, <3>3, <3>4
    <2> QED
      BY <2>1, <2>2
  <1> QED
    BY <1>3, <1>4

LEMMA FirstIsLeast ==
    ASSUME NEW list \in Seq(Nat), Increasing(list), list # <<>>
    PROVE  list[1] \in ToSet(list) /\ \A u \in ToSet(list) : list[1] <= u
  <1>1. 1 \in 1..Len(list) /\ list[1] \in Nat
    OBVIOUS
  <1>2. ASSUME NEW u \in ToSet(list) PROVE list[1] <= u
    <2>1. PICK k \in 1..Len(list) : list[k] = u
      BY InSet
    <2>2. list[k] \in Nat /\ (k = 1 \/ 1 < k)
      OBVIOUS
    <2>3. 1 < k => list[1] < list[k]
      BY <1>1 DEF Increasing
    <2> QED
      BY <1>1, <2>1, <2>2, <2>3
  <1> QED
    BY <1>1, <1>2, InSet

LEMMA AddedAtTail ==
    ASSUME NEW n \in Nat, NEW list \in Seq(1..n), Increasing(list)
    PROVE  /\ Append(list, n + 1) \in Seq(1..(n + 1)) /\ Increasing(Append(list, n + 1))
           /\ ToSet(Append(list, n + 1)) = ToSet(list) \cup {n + 1}
  <1> DEFINE longer == Append(list, n + 1)
  <1>1. \A k \in 1..Len(list) : list[k] \in 1..n
    OBVIOUS
  <1>2. list \in Seq(1..(n + 1)) /\ n + 1 \in 1..(n + 1)
    <2>1. 1..n \subseteq 1..(n + 1)
      OBVIOUS
    <2> QED
      BY <2>1
  <1>3. /\ longer \in Seq(1..(n + 1)) /\ Len(longer) = Len(list) + 1
        /\ longer[Len(list) + 1] = n + 1
        /\ \A k \in 1..Len(list) : longer[k] = list[k]
    BY <1>2
  <1> HIDE DEF longer
  <1>4. Increasing(longer)
    <2> SUFFICES ASSUME NEW j \in 1..Len(longer), NEW k \in 1..Len(longer), j < k
                 PROVE  longer[j] < longer[k]
      BY DEF Increasing
    <2>1. j \in 1..Len(list) /\ longer[j] = list[j] /\ list[j] \in 1..n
      BY <1>1, <1>3
    <2>2. CASE k = Len(list) + 1
      BY <1>3, <2>1, <2>2
    <2>3. CASE k \in 1..Len(list)
      BY <1>1, <1>3, <2>1, <2>3 DEF Increasing
    <2>4. Len(list) \in Nat /\ k \in 1..(Len(list) + 1)
      BY <1>3
    <2> QED
      BY <2>2, <2>3, <2>4
  <1>5. ToSet(longer) = ToSet(list) \cup {n + 1}
    <2>1. ASSUME NEW u \in ToSet(longer) PROVE u \in ToSet(list) \cup {n + 1}
      <3>1. PICK k \in 1..Len(longer) : longer[k] = u
        BY <1>3, InSet
      <3>2. k \in 1..Len(list) \/ k = Len(list) + 1
        BY <1>3
      <3> QED
        BY <1>3, <3>1, <3>2, InSet
    <2>2. ASSUME NEW u \in ToSet(list) PROVE u \in ToSet(longer)
      <3>1. PICK k \in 1..Len(list) : list[k] = u
        BY InSet
      <3>2. k \in 1..Len(longer) /\ longer[k] = u
        BY <1>3, <3>1
      <3> QED
        BY <1>3, <3>2, InSet
    <2>3. n + 1 \in ToSet(longer)
      <3>1. Len(list) + 1 \in 1..Len(longer)
        BY <1>3
      <3> QED
        BY <1>3, <3>1, InSet
    <2> QED
      BY <2>1, <2>2, <2>3
  <1> QED
    BY <1>3, <1>4, <1>5 DEF longer

LEMMA RemovedFrom ==
    ASSUME NEW n \in Nat, NEW list \in Seq(1..n), Increasing(list), NEW t \in ToSet(list)
    PROVE  LET shorter == RemoveAt(list, PlaceIn(list, t))
           IN  /\ shorter \in Seq(1..n) /\ Increasing(shorter)
               /\ ToSet(shorter) = ToSet(list) \ {t}
  <1> DEFINE p == PlaceIn(list, t)
             shorter == RemoveAt(list, p)
  <1>1. list \in Seq(Nat)
    OBVIOUS
  <1>2. p \in 1..Len(list) /\ list[p] = t
    BY <1>1, PlaceFound
  <1> HIDE DEF p
  <1>3. /\ shorter \in Seq(1..n) /\ Len(shorter) = Len(list) - 1
        /\ \A k \in 1..(Len(list) - 1) :
             shorter[k] = IF k < p THEN list[k] ELSE list[k + 1]
    <2> DEFINE front == SubSeq(list, 1, p - 1)
               back == SubSeq(list, p + 1, Len(list))
    <2>1. /\ front \in Seq(1..n) /\ Len(front) = p - 1
          /\ \A k \in 1..(p - 1) : front[k] = list[k]
      BY <1>2, SMTT(30)
    <2>2. /\ back \in Seq(1..n) /\ Len(back) = Len(list) - p
          /\ \A k \in 1..(Len(list) - p) : back[k] = list[p + k]
      BY <1>2, SMTT(30)
    <2>3. shorter = front \o back
      BY DEF RemoveAt
    <2> HIDE DEF front, back, shorter
    <2>4. shorter \in Seq(1..n) /\ Len(shorter) = Len(list) - 1
      BY <1>2, <2>1, <2>2, <2>3
    <2>5. ASSUME NEW k \in 1..(Len(list) - 1)
          PROVE  shorter[k] = IF k < p THEN list[k] ELSE list[k + 1]
      <3>1. CASE k < p
        BY <1>2, <2>1, <2>2, <2>3, <3>1
      <3>2. CASE ~(k < p)
        <4>1. k - (p - 1) \in 1..(Len(list) - p) /\ p + (k - (p - 1)) = k + 1
          BY <1>2, <3>2
        <4>2. k \in 1..(Len(front) + Len(back)) /\ ~(k <= Len(front))
          BY <1>2, <2>1, <2>2, <3>2
        <4>3. \A m \in 1..(Len(front) + Len(back)) :
                (front \o back)[m] = IF m <= Len(front) THEN front[m] ELSE back[m - Len(front)]
          BY <2>1, <2>2, ConcatProperties, Zenon
        <4>4. (front \o back)[k] = back[k - Len(front)]
          BY <4>2, <4>3, Zenon
        <4> QED
          BY <2>1, <2>2, <2>3, <3>2, <4>1, <4>4
      <3> QED
        BY <3>1, <3>2
    <2> QED
      BY <2>4, <2>5
  <1> HIDE DEF shorter
  <1>4. Increasing(shorter)
    <2> SUFFICES ASSUME NEW j \in 1..Len(shorter), NEW k \in 1..Len(shorter), j < k
                 PROVE  shorter[j] < shorter[k]
      BY DEF Increasing
    <2>1. /\ j \in 1..Len(list) /\ k \in 1..Len(list) /\ j + 1 \in 1..Len(list)
          /\ k + 1 \in 1..Len(list)
      BY <1>3
    <2>2. shorter[j] = (IF j < p THEN list[j] ELSE list[j + 1])
          /\ shorter[k] = (IF k < p THEN list[k] ELSE list[k + 1])
      BY <1>3
    <2>3. CASE k < p
      BY <1>2, <2>1, <2>2, <2>3 DEF Increasing
    <2>4. CASE j < p /\ ~(k < p)
      <3>1. j < k + 1
        BY <2>1
      <3> QED
        BY <2>1, <2>2, <2>4, <3>1 DEF Increasing
    <2>5. CASE ~(j < p)
      <3>1. j + 1 < k + 1 /\ ~(k < p)
        BY <1>2, <2>1, <2>5
      <3> QED
        BY <2>1, <2>2, <2>5, <3>1 DEF Increasing
    <2> QED
      BY <2>3, <2>4, <2>5
  <1>5. ToSet(shorter) = ToSet(list) \ {t}
    <2>1. ASSUME NEW u \in ToSet(shorter) PROVE u \in ToSet(list) /\ u # t
      <3>1. PICK k \in 1..Len(shorter) : shorter[k] = u
        BY <1>3, InSet
      <3>2. PICK m \in 1..Len(list) : m # p /\ list[m] = u
        <4>1. CASE k < p
          BY <1>2, <1>3, <3>1, <4>1
        <4>2. CASE ~(k < p)
          <5>1. k + 1 \in 1..Len(list) /\ k + 1 # p /\ list[k + 1] = u
            BY <1>2, <1>3, <3>1, <4>2
          <5> QED
            BY <5>1
        <4> QED
          BY <4>1, <4>2
      <3>3. m < p \/ p < m
        BY <1>2, <3>2
      <3>4. list[m] \in Nat /\ list[p] \in Nat /\ (m < p => list[m] < list[p])
            /\ (p < m => list[p] < list[m])
        BY <1>2 DEF Increasing
      <3> QED
        BY <1>2, <3>2, <3>3, <3>4, InSet
    <2>2. ASSUME NEW u \in ToSet(list), u # t PROVE u \in ToSet(shorter)
      <3>1. PICK m \in 1..Len(list) : list[m] = u
        BY InSet
      <3>2. CASE m < p
        <4>1. m \in 1..Len(shorter) /\ shorter[m] = u
          BY <1>2, <1>3, <3>1, <3>2
        <4> QED
          BY <1>3, <4>1, InSet
      <3>3. CASE p < m
        <4>1. m - 1 \in 1..Len(shorter) /\ (m - 1) + 1 = m /\ ~(m - 1 < p)
          BY <1>2, <1>3, <3>3
        <4>2. shorter[m - 1] = u
          BY <1>3, <3>1, <4>1
        <4> QED
          BY <1>3, <4>1, <4>2, InSet
      <3>4. m # p
        BY <1>2, <2>2, <3>1
      <3> QED
        BY <1>2, <3>2, <3>3, <3>4
    <2> QED
      BY <2>1, <2>2
  <1> QED
    BY <1>3, <1>4, <1>5 DEF shorter, p

-----------------------------------------------------------------------------
(* The steps of the timer *)

LEMMA RegisteredAreTasks ==
    ASSUME TimerTypes
    PROVE  /\ timer_list \in Seq(Nat) /\ Len(task) \in Nat
           /\ \A t \in Registered : t \in 1..Len(task) /\ t \in Nat /\ t # Head0
  <1>1. timer_list \in Seq(1..Len(task)) /\ Len(task) \in Nat
    BY DEF TimerTypes
  <1>2. timer_list \in Seq(Nat)
    <2>1. 1..Len(task) \subseteq Nat
      BY <1>1
    <2> QED
      BY <1>1, <2>1
  <1>3. \A t \in Registered : t \in 1..Len(task)
    BY <1>1, InSet DEF Registered
  <1> QED
    BY <1>1, <1>2, <1>3 DEF Head0

LEMMA TaskFields ==
    ASSUME TimerTypes, NEW t \in 1..Len(task)
    PROVE  /\ task[t] \in TaskType /\ task[t].tick \in Nat /\ task[t].period \in Nat \ {0}
           /\ waited[t] \in Nat
  <1>1. task[t] \in TaskType /\ waited[t] \in Nat
    BY DEF TimerTypes
  <1> QED
    BY <1>1 DEF TaskType

LEMMA TimerStarts == ASSUME TimerAssumption, TimerInit PROVE CarefulInv
  <1>1. /\ timer_list = <<>> /\ task = <<>> /\ waited = <<>> /\ released = {}
        /\ ~fault /\ careless = FALSE /\ doubled = FALSE
        /\ thread = [k \in Walkers |-> "none"] /\ canceled = [k \in Walkers |-> TRUE]
        /\ cursor = [k \in Walkers |-> 0] /\ follower = [k \in Walkers |-> 0]
    BY DEF TimerInit, Head0
  <1>2. TimerTypes
    BY <1>1 DEF TimerTypes, Increasing
  <1>3. Registered = {}
    BY <1>1 DEF Registered, ToSet
  <1>4. NoneReleased /\ Counts
    BY <1>1, <1>3 DEF NoneReleased, Counts
  <1>5. OneStarted /\ WalksAlone /\ \A k \in Walkers : Walking(k)
    BY <1>1 DEF OneStarted, WalksAlone, Walking, Walks
  <1> QED
    BY <1>1, <1>2, <1>4, <1>5 DEF CarefulInv, TimerInv, WalkInv

\* A walk that is paused while tasks are added still has its entries.
LEMMA StillWalks ==
    ASSUME TimerTypes, NEW k \in Walkers, Walking(k),
           thread'[k] = "walk" =>
             thread[k] = "walk" /\ cursor'[k] = cursor[k] /\ follower'[k] = follower[k],
           Registered \subseteq Registered',
           \A t \in Registered' : t \in Registered \/ t = Len(task) + 1
    PROVE  Walking(k)'
  <1> SUFFICES ASSUME thread'[k] = "walk" PROVE Walking(k)'
    BY DEF Walking, Walks
  <1>1. thread[k] = "walk" /\ cursor'[k] = cursor[k] /\ follower'[k] = follower[k]
    OBVIOUS
  <1>2. /\ Len(task) \in Nat
        /\ \A t \in Registered : t \in 1..Len(task) /\ t \in Nat
    BY RegisteredAreTasks
  <1>3. cursor[k] \in Registered' /\ cursor[k] \in Registered
    BY <1>1 DEF Walking, Walks
  <1>4. ASSUME follower[k] # Head0
        PROVE  /\ follower[k] \in Registered' /\ cursor[k] < follower[k]
               /\ \A t \in Registered' : t <= cursor[k] \/ t >= follower[k]
    <2>1. /\ follower[k] \in Registered /\ cursor[k] < follower[k]
          /\ \A t \in Registered : t <= cursor[k] \/ t >= follower[k]
      BY <1>1, <1>4 DEF Walking, Walks
    <2>2. Len(task) + 1 >= follower[k]
      BY <1>2, <2>1
    <2> QED
      BY <2>1, <2>2
  <1> QED
    BY <1>1, <1>3, <1>4 DEF Walking

\* A thread that is started or ends comes into no walk, and leaves none.
LEMMA StartKeeps ==
    ASSUME TimerInv, Start \/ \E k \in Walkers : End(k) PROVE TimerInv'
  <1>1. PICK k \in Walkers :
          /\ thread[k] # "walk" /\ canceled[k]
          /\ \/ /\ thread' = [thread EXCEPT ![k] = "sleep"] /\ ~started /\ started' = TRUE
                /\ canceled' = [canceled EXCEPT ![k] = FALSE]
             \/ thread' = [thread EXCEPT ![k] = "none"] /\ UNCHANGED <<started, canceled>>
    <2>1. CASE Start
      <3>1. PICK k \in Walkers :
              /\ thread[k] = "none" /\ thread' = [thread EXCEPT ![k] = "sleep"]
              /\ canceled' = [canceled EXCEPT ![k] = FALSE]
        BY <2>1 DEF Start
      <3>2. ~started /\ started' = TRUE
        BY <2>1 DEF Start
      <3>3. canceled[k]
        BY <3>2 DEF TimerInv, WalkInv, OneStarted
      <3> QED
        BY <3>1, <3>2, <3>3
    <2>2. CASE \E k \in Walkers : End(k)
      BY <2>2 DEF End
    <2> QED
      BY <2>1, <2>2
  <1>2. UNCHANGED <<timer_list, task, released, cursor, follower, waited, doubled, fault>>
    BY DEF Start, End
  <1>3. Registered' = Registered
    BY <1>2 DEF Registered
  <1>4. TimerTypes'
    BY <1>1, <1>2 DEF TimerInv, WalkInv, TimerTypes
  <1>5. \A j \in Walkers : (thread'[j] = "walk") <=> (thread[j] = "walk")
    BY <1>1 DEF TimerInv, WalkInv, TimerTypes
  <1>6. NoneReleased' /\ \A j \in Walkers : Walking(j)'
    BY <1>2, <1>3, <1>5 DEF TimerInv, WalkInv, NoneReleased, Walking, Walks
  <1>7. OneStarted'
    <2>1. /\ canceled \in [Walkers -> BOOLEAN]
          /\ \A j \in Walkers : ~canceled[j] => started
          /\ \A i, j \in Walkers : ~canceled[i] /\ ~canceled[j] => i = j
      BY DEF TimerInv, WalkInv, TimerTypes, OneStarted
    <2>2. CASE ~started /\ started' = TRUE /\ canceled' = [canceled EXCEPT ![k] = FALSE]
      <3>1. \A j \in Walkers : canceled[j] /\ (~canceled'[j] => j = k)
        BY <2>1, <2>2
      <3> QED
        BY <2>2, <3>1 DEF OneStarted
    <2>3. CASE UNCHANGED <<started, canceled>>
      BY <2>1, <2>3 DEF OneStarted
    <2> QED
      BY <1>1, <2>2, <2>3
  <1>8. \A t : ToVisit(t)' <=> ToVisit(t)
    <2>1. \A j \in Walkers : thread'[j] = "walk" => canceled'[j] = canceled[j]
      BY <1>1 DEF TimerInv, WalkInv, TimerTypes
    <2> QED
      BY <1>2, <1>5, <2>1 DEF ToVisit, Walks
  <1>9. ~doubled' => WalksAlone' /\ Counts'
    BY <1>2, <1>3, <1>5, <1>8 DEF TimerInv, WalksAlone, Walks, Counts, OnTime
  <1> QED
    BY <1>2, <1>4, <1>6, <1>7, <1>9 DEF TimerInv, WalkInv

LEMMA StopKeeps == ASSUME TimerInv, Stop, ~careless' PROVE TimerInv'
  <1>1. /\ UNCHANGED <<task, cursor, follower, waited, doubled, fault>> /\ timer_list' = <<>>
        /\ released' = released \cup Registered /\ \A k \in Walkers : thread[k] # "walk"
        /\ canceled' = [k \in Walkers |-> TRUE]
        /\ \/ thread' = thread
           \/ \E k \in Walkers : thread' = [thread EXCEPT ![k] = "awake"]
    BY DEF Stop, Walks
  <1>2. Registered' = {}
    BY <1>1 DEF Registered, ToSet
  <1>3. TimerTypes'
    <2>1. timer_list' \in Seq(1..Len(task')) /\ Increasing(timer_list')
      BY <1>1 DEF Increasing
    <2>2. thread' \in [Walkers -> {"none", "sleep", "awake", "walk"}]
      BY <1>1 DEF TimerInv, WalkInv, TimerTypes
    <2> QED
      BY <1>1, <2>1, <2>2 DEF TimerInv, WalkInv, TimerTypes
  <1>4. \A k \in Walkers : thread'[k] # "walk"
    BY <1>1 DEF TimerInv, WalkInv, TimerTypes
  <1>5. NoneReleased'
    BY <1>1, <1>2, RegisteredAreTasks DEF TimerInv, WalkInv, NoneReleased
  <1>6. (\A k \in Walkers : Walking(k)') /\ WalksAlone' /\ Counts' /\ OneStarted'
    BY <1>1, <1>2, <1>4 DEF Walking, Walks, WalksAlone, Counts, OneStarted
  <1> QED
    BY <1>1, <1>3, <1>5, <1>6 DEF TimerInv, WalkInv

\* A task that is registered starts with a wait of 0, and its number is new.
LEMMA TaskIsAdded ==
    ASSUME TimerAssumption, TimerTypes, NEW tasks \in Seq(TaskType),
           Len(tasks) = Len(task),
           NEW p \in Periods, NEW e \in BOOLEAN, NEW does \in Callbacks \cup {"nothing"},
           Added(tasks, p, e, does)
    PROVE  /\ task' \in Seq(TaskType) /\ Len(task') = Len(task) + 1
           /\ \A t \in 1..Len(task) : task'[t] = tasks[t]
           /\ timer_list' \in Seq(1..Len(task')) /\ Increasing(timer_list')
           /\ Registered' = Registered \cup {Len(task) + 1}
  <1>1. PICK prev0 \in Prevs :
           task' = Append(tasks, [period |-> p, tick |-> prev0, enable |-> e, does |-> does])
    BY DEF Added
  <1> DEFINE new0 == [period |-> p, tick |-> prev0, enable |-> e, does |-> does]
  <1>2. new0 \in TaskType
    <2>1. p \in Nat \ {0} /\ prev0 \in Nat
      BY DEF TimerAssumption
    <2> QED
      BY <2>1 DEF TaskType
  <1> HIDE DEF new0
  <1>3. task' = Append(tasks, new0)
    BY <1>1 DEF new0
  <1>4. /\ task' \in Seq(TaskType) /\ Len(task') = Len(task) + 1
        /\ \A t \in 1..Len(task) : task'[t] = tasks[t]
    BY <1>2, <1>3
  <1>5. timer_list' = Append(timer_list, Len(task) + 1) /\ Len(task) \in Nat
    BY DEF Added, TimerTypes
  <1>6. /\ timer_list' \in Seq(1..(Len(task) + 1)) /\ Increasing(timer_list')
        /\ ToSet(timer_list') = ToSet(timer_list) \cup {Len(task) + 1}
    BY <1>5, AddedAtTail DEF TimerTypes
  <1> QED
    BY <1>4, <1>6 DEF Registered

LEMMA RegisterKeeps == ASSUME TimerAssumption, TimerInv, RegisterTask PROVE TimerInv'
  <1>1. PICK p \in Periods, e \in BOOLEAN, does \in Callbacks : Added(task, p, e, does)
    BY DEF RegisterTask
  <1>2. /\ waited' = Append(waited, 0)
        /\ UNCHANGED <<released, started, canceled, thread, cursor, follower, doubled, fault>>
    BY DEF RegisterTask
  <1> DEFINE n == Len(task) + 1
  <1>3. /\ task' \in Seq(TaskType) /\ Len(task') = n
        /\ \A t \in 1..Len(task) : task'[t] = task[t]
        /\ timer_list' \in Seq(1..n) /\ Increasing(timer_list')
        /\ Registered' = Registered \cup {n}
    BY <1>1, TaskIsAdded DEF TimerInv, WalkInv, TimerTypes
  <1>4. /\ Len(task) \in Nat /\ waited \in Seq(Nat) /\ Len(waited) = Len(task)
        /\ released \subseteq 1..Len(task)
        /\ \A t \in Registered : t \in 1..Len(task)
    BY RegisteredAreTasks DEF TimerInv, WalkInv, TimerTypes, NoneReleased
  <1>5. /\ waited' \in Seq(Nat) /\ Len(waited') = n /\ waited'[n] = 0
        /\ \A t \in 1..Len(task) : waited'[t] = waited[t]
    BY <1>2, <1>4
  <1>6. TimerTypes'
    BY <1>2, <1>3, <1>5 DEF TimerInv, WalkInv, TimerTypes
  <1>7. NoneReleased'
    BY <1>2, <1>3, <1>4 DEF TimerInv, WalkInv, NoneReleased
  <1>8. \A k \in Walkers : Walking(k)'
    BY <1>2, <1>3, StillWalks DEF TimerInv, WalkInv
  <1>9. OneStarted' /\ (WalksAlone => WalksAlone')
    BY <1>2 DEF TimerInv, WalkInv, OneStarted, WalksAlone, Walks
  <1>10. \A t : ToVisit(t)' <=> ToVisit(t)
    BY <1>2 DEF ToVisit, Walks
  <1>11. ASSUME Counts PROVE Counts'
    <2> SUFFICES ASSUME NEW t \in Registered', task'[t].enable
                 PROVE  OnTime(task'[t].tick, task'[t].period, waited'[t], ToVisit(t)')
      BY DEF Counts
    <2>1. CASE t \in Registered
      <3>1. task'[t] = task[t] /\ waited'[t] = waited[t]
        BY <1>3, <1>4, <1>5, <2>1
      <3>2. OnTime(task[t].tick, task[t].period, waited[t], ToVisit(t))
        BY <1>11, <2>1, <3>1 DEF Counts
      <3> QED
        BY <1>10, <3>1, <3>2 DEF OnTime
    <2>2. CASE t = n
      <3>1. waited'[t] = 0 /\ n \in 1..Len(task')
        BY <1>3, <1>4, <1>5, <2>2
      <3>2. task'[t].tick \in Nat
        <4>1. task'[t] \in TaskType
          BY <1>3, <2>2, <3>1
        <4> QED
          BY <4>1 DEF TaskType
      <3> QED
        BY <3>1, <3>2 DEF OnTime
    <2> QED
      BY <1>3, <2>1, <2>2
  <1> QED
    BY <1>2, <1>6, <1>7, <1>8, <1>9, <1>11 DEF TimerInv, WalkInv

LEMMA TaskIsRemoved ==
    ASSUME TimerTypes, NoneReleased, NEW t \in Registered, Removed(t)
    PROVE  /\ timer_list' \in Seq(1..Len(task)) /\ Increasing(timer_list')
           /\ Registered' = Registered \ {t}
           /\ released' = released \cup {t} /\ released' \subseteq 1..Len(task)
           /\ released' \cap Registered' = {}
  <1>1. Len(task) \in Nat /\ t \in 1..Len(task)
    BY RegisteredAreTasks
  <1>2. /\ timer_list' \in Seq(1..Len(task)) /\ Increasing(timer_list')
        /\ ToSet(timer_list') = ToSet(timer_list) \ {t}
    BY <1>1, RemovedFrom DEF TimerTypes, Removed, Registered
  <1>3. Registered' = Registered \ {t}
    BY <1>2 DEF Registered
  <1> QED
    BY <1>1, <1>2, <1>3 DEF Removed, NoneReleased

LEMMA UnregisterKeeps ==
    ASSUME TimerInv, UnregisterTask, ~careless'
    PROVE  TimerInv'
  <1>1. PICK t \in Registered : Removed(t)
    BY DEF UnregisterTask
  <1>2. /\ UNCHANGED <<task, started, canceled, thread, cursor, follower, waited, doubled, fault>>
        /\ \A k \in Walkers : thread[k] # "walk"
    BY DEF UnregisterTask, Walks
  <1>3. /\ timer_list' \in Seq(1..Len(task)) /\ Increasing(timer_list')
        /\ Registered' \subseteq Registered
        /\ released' \subseteq 1..Len(task) /\ released' \cap Registered' = {}
    BY <1>1, TaskIsRemoved DEF TimerInv, WalkInv
  <1>4. TimerTypes' /\ NoneReleased' /\ OneStarted' /\ WalksAlone' /\ \A k \in Walkers : Walking(k)'
    BY <1>2, <1>3 DEF TimerInv, WalkInv, TimerTypes, NoneReleased, OneStarted, WalksAlone,
                      Walking, Walks
  <1>5. \A u : ~ToVisit(u) /\ ~ToVisit(u)'
    BY <1>2 DEF ToVisit, Walks
  <1>6. Counts => Counts'
    BY <1>2, <1>3, <1>5 DEF Counts, OnTime
  <1> QED
    BY <1>2, <1>4, <1>6 DEF TimerInv, WalkInv

LEMMA TickKeeps ==
    ASSUME TimerInv, NEW k \in Walkers, Tick(k), doubled \in BOOLEAN PROVE TimerInv'
  <1>1. /\ thread[k] # "walk" /\ thread' = [thread EXCEPT ![k] = "walk"] /\ timer_list # <<>>
        /\ cursor' = [cursor EXCEPT ![k] = After(Head0)]
        /\ follower' = [follower EXCEPT ![k] = After(After(Head0))]
        /\ UNCHANGED <<timer_list, task, released, started, canceled, fault>>
        /\ waited' = [t \in DOMAIN waited |->
                        IF /\ ~canceled[k] /\ t \in Registered /\ task[t].enable
                           /\ waited[t] < task[t].period
                        THEN waited[t] + 1 ELSE waited[t]]
        /\ doubled' = (doubled \/ \E j \in Walkers \ {k} : thread[j] = "walk")
    BY DEF Tick, Walks
  <1>2. /\ timer_list \in Seq(Nat) /\ Increasing(timer_list) /\ Len(task) \in Nat
        /\ \A t \in Registered : t \in 1..Len(task) /\ t \in Nat /\ t # Head0
    BY RegisteredAreTasks DEF TimerInv, WalkInv, TimerTypes
  <1>3. Registered' = Registered
    BY <1>1 DEF Registered
  <1> DEFINE c == After(Head0)
             f == After(c)
  <1>4. c \in Registered /\ \A u \in Registered : c <= u
    BY <1>1, <1>2, FirstIsLeast DEF After, Registered
  <1>5. \/ f = Head0 /\ \A u \in Registered : u <= c
        \/ /\ f \in Registered /\ c < f
           /\ \A u \in Registered : u <= c \/ u >= f
    <2>1. f = EntryAfter(timer_list, c)
      BY <1>2, <1>4 DEF After
    <2> QED
      BY <1>2, <1>4, <2>1, NextGreater DEF Registered
  <1>6. c \in Nat /\ f \in Nat
    BY <1>2, <1>4, <1>5 DEF Head0
  <1> HIDE DEF c, f
  <1>7. /\ thread'[k] = "walk" /\ cursor'[k] = c /\ follower'[k] = f
        /\ \A j \in Walkers \ {k} : thread'[j] = thread[j] /\ cursor'[j] = cursor[j]
                                    /\ follower'[j] = follower[j]
    BY <1>1 DEF TimerInv, WalkInv, TimerTypes, c, f
  <1>8. \A j \in Walkers : Walking(j)'
    <2> SUFFICES ASSUME NEW j \in Walkers PROVE Walking(j)'
      OBVIOUS
    <2>1. CASE j = k
      BY <1>3, <1>4, <1>5, <1>7, <2>1 DEF Walking
    <2>2. CASE j # k
      BY <1>3, <1>7, <2>2, StillWalks DEF TimerInv, WalkInv
    <2> QED
      BY <2>1, <2>2
  <1>9. waited \in Seq(Nat) /\ Len(waited) = Len(task)
    BY DEF TimerInv, WalkInv, TimerTypes
  <1>10. /\ waited' \in Seq(Nat) /\ Len(waited') = Len(waited)
         /\ \A t \in 1..Len(task) : waited'[t] \in {waited[t], waited[t] + 1}
         /\ canceled[k] => \A t \in 1..Len(task) : waited'[t] = waited[t]
    <2> DEFINE ticked(t) ==
                 IF /\ ~canceled[k] /\ t \in Registered /\ task[t].enable
                    /\ waited[t] < task[t].period
                 THEN waited[t] + 1 ELSE waited[t]
    <2>1. \A t \in 1..Len(waited) :
            /\ ticked(t) \in Nat /\ ticked(t) \in {waited[t], waited[t] + 1}
            /\ canceled[k] => ticked(t) = waited[t]
      BY <1>9
    <2>2. waited' = [t \in 1..Len(waited) |-> ticked(t)]
      BY <1>1, <1>9
    <2> HIDE DEF ticked
    <2> QED
      BY <1>9, <2>1, <2>2
  <1>11. TimerTypes'
    <2>1. thread' \in [Walkers -> {"none", "sleep", "awake", "walk"}]
          /\ cursor' \in [Walkers -> Nat] /\ follower' \in [Walkers -> Nat]
      BY <1>1, <1>6 DEF TimerInv, WalkInv, TimerTypes, c, f
    <2> QED
      BY <1>1, <1>9, <1>10, <2>1 DEF TimerInv, WalkInv, TimerTypes
  <1>12. NoneReleased' /\ OneStarted'
    BY <1>1, <1>3 DEF TimerInv, WalkInv, NoneReleased, OneStarted
  <1>13. ASSUME ~doubled' PROVE WalksAlone' /\ Counts'
    <2>1. ~doubled /\ \A j \in Walkers \ {k} : thread[j] # "walk"
      BY <1>1, <1>13
    <2>2. WalksAlone'
      BY <1>7, <2>1 DEF WalksAlone, Walks
    <2>3. \A t : ~ToVisit(t)
      BY <1>1, <2>1 DEF ToVisit, Walks
    <2>4. ASSUME ~canceled[k], NEW t \in Registered PROVE ToVisit(t)'
      <3>1. t = c \/ (f # Head0 /\ t >= f)
        <4>1. t \in Nat /\ c <= t
          BY <1>2, <1>4
        <4>2. t <= c => t = c
          BY <1>6, <4>1
        <4>3. f \in Registered => f # Head0
          BY <1>2
        <4> QED
          BY <1>5, <4>2, <4>3
      <3> QED
        BY <1>1, <1>7, <2>4, <3>1 DEF ToVisit, Walks
    <2>5. ASSUME NEW t \in Registered, task[t].enable
          PROVE  OnTime(task[t].tick, task[t].period, waited'[t], ToVisit(t)')
      <3>1. t \in 1..Len(task)
        BY <1>2
      <3>2. waited[t] <= task[t].tick /\ (task[t].tick < task[t].period \/ waited[t] = 0)
        BY <2>1, <2>3, <2>5 DEF TimerInv, Counts, OnTime
      <3>3. task[t].tick \in Nat /\ task[t].period \in Nat /\ waited[t] \in Nat
        BY <3>1, TaskFields DEF TimerInv, WalkInv
      <3>4. waited'[t] \in {waited[t], waited[t] + 1} /\ (canceled[k] => waited'[t] = waited[t])
        BY <1>10, <3>1
      <3>5. CASE canceled[k]
        <4>1. waited'[t] = waited[t]
          BY <3>4, <3>5
        <4>2. waited[t] <= task[t].tick + 1 /\ (task[t].tick < task[t].period \/ waited[t] <= 1)
          BY <3>2, <3>3
        <4> QED
          BY <3>2, <4>1, <4>2 DEF OnTime
      <3>6. CASE ~canceled[k]
        <4>1. ToVisit(t)'
          BY <2>4, <3>6
        <4>2. waited'[t] <= task[t].tick + 1 /\ (task[t].tick < task[t].period \/ waited'[t] <= 1)
          BY <3>2, <3>3, <3>4
        <4> QED
          BY <4>1, <4>2 DEF OnTime
      <3> QED
        BY <3>5, <3>6
    <2> QED
      BY <1>1, <1>3, <2>2, <2>5 DEF Counts
  <1> QED
    BY <1>1, <1>8, <1>11, <1>12, <1>13 DEF TimerInv, WalkInv

\* The walk goes on: to an entry that is there, with those still to be visited but for the
\* one it leaves; the other walks stay where they are.
LEMMA AdvanceKeeps ==
    ASSUME TimerInv, NEW k \in Walkers, thread[k] = "walk", Advance(k), UNCHANGED canceled,
           timer_list' \in Seq(Nat), Increasing(timer_list'),
           follower[k] # Head0 => follower[k] \in Registered' /\ follower[k] \notin released',
           Head0 \notin released', Head0 \notin Registered'
    PROVE  /\ ~fault' /\ Walking(k)'
           /\ thread' \in [Walkers -> {"none", "sleep", "awake", "walk"}]
           /\ cursor' \in [Walkers -> Nat] /\ follower' \in [Walkers -> Nat]
           /\ \A j \in Walkers \ {k} : /\ thread'[j] = thread[j] /\ cursor'[j] = cursor[j]
                                       /\ follower'[j] = follower[j]
           /\ \A t \in Registered' : t # cursor[k] /\ ToVisit(t) => ToVisit(t)'
  <1> DEFINE f == follower[k]
  <1>1. /\ thread \in [Walkers -> {"none", "sleep", "awake", "walk"}]
        /\ cursor \in [Walkers -> Nat] /\ follower \in [Walkers -> Nat] /\ f \in Nat
    BY DEF TimerInv, WalkInv, TimerTypes
  <1>2. /\ cursor' = [cursor EXCEPT ![k] = f] /\ ~fault'
        /\ follower' = [follower EXCEPT ![k] =
                          IF f = Head0 THEN Head0 ELSE EntryAfter(timer_list', f)]
        /\ thread' = [thread EXCEPT ![k] = IF f = Head0 THEN "sleep" ELSE "walk"]
    BY DEF Advance
  <1> HIDE DEF f
  <1>3. f # Head0 =>
          \/ EntryAfter(timer_list', f) = Head0 /\ \A u \in Registered' : u <= f
          \/ /\ EntryAfter(timer_list', f) \in Registered' /\ f < EntryAfter(timer_list', f)
             /\ \A u \in Registered' : u <= f \/ u >= EntryAfter(timer_list', f)
    BY NextGreater DEF Registered, f
  <1>4. \A u \in Registered' : u \in Nat
    BY InSet DEF Registered
  <1> DEFINE g == IF f = Head0 THEN Head0 ELSE EntryAfter(timer_list', f)
  <1>5. g \in Nat
    BY <1>3, <1>4 DEF Head0
  <1>6. /\ f # Head0 =>
             \/ g = Head0 /\ \A u \in Registered' : u <= f
             \/ g \in Registered' /\ f < g /\ \A u \in Registered' : u <= f \/ u >= g
        /\ follower' = [follower EXCEPT ![k] = g]
    BY <1>2, <1>3
  <1> HIDE DEF g
  <1>7. /\ thread' \in [Walkers -> {"none", "sleep", "awake", "walk"}]
        /\ cursor' \in [Walkers -> Nat] /\ follower' \in [Walkers -> Nat]
        /\ \A j \in Walkers \ {k} : /\ thread'[j] = thread[j] /\ cursor'[j] = cursor[j]
                                    /\ follower'[j] = follower[j]
        /\ cursor'[k] = f /\ follower'[k] = g
        /\ thread'[k] = IF f = Head0 THEN "sleep" ELSE "walk"
    BY <1>1, <1>2, <1>5, <1>6
  <1>8. Walking(k)'
    <2>1. CASE f = Head0
      BY <1>7, <2>1 DEF Walking, Walks
    <2>2. CASE f # Head0
      BY <1>6, <1>7, <2>2 DEF Walking, f
    <2> QED
      BY <2>1, <2>2
  <1>9. ASSUME NEW t \in Registered', t # cursor[k], ToVisit(t) PROVE ToVisit(t)'
    <2>1. PICK j \in Walkers : /\ thread[j] = "walk" /\ ~canceled[j]
                               /\ t = cursor[j] \/ (follower[j] # Head0 /\ t >= follower[j])
      BY <1>9 DEF ToVisit, Walks
    <2>2. CASE j # k
      BY <1>7, <2>1, <2>2 DEF ToVisit, Walks
    <2>3. CASE j = k
      <3>1. f # Head0 /\ t >= f
        BY <1>9, <2>1, <2>3 DEF f
      <3>2. t <= f => t = f
        BY <1>1, <1>4, <3>1
      <3>3. t = f \/ (g # Head0 /\ t >= g)
        <4>1. g \in Registered' => g # Head0
          OBVIOUS
        <4> QED
          BY <1>6, <3>1, <3>2, <4>1
      <3> QED
        BY <1>7, <2>1, <2>3, <3>1, <3>3 DEF ToVisit, Walks
    <2> QED
      BY <2>2, <2>3
  <1> QED
    BY <1>2, <1>7, <1>8, <1>9

\* More is allowed while the walk is to come.
LEMMA Sooner ==
    ASSUME NEW tick \in Nat, NEW period \in Nat, NEW wait \in Nat,
           NEW v \in BOOLEAN, NEW w \in BOOLEAN, OnTime(tick, period, wait, v), v => w
    PROVE  OnTime(tick, period, wait, w)
  <1>1. CASE v
    BY <1>1 DEF OnTime
  <1>2. CASE ~v
    <2>1. wait <= tick /\ (tick < period \/ wait = 0)
      BY <1>2 DEF OnTime
    <2>2. wait <= tick + 1 /\ (tick < period \/ wait <= 1)
      BY <2>1
    <2> QED
      BY <2>1, <2>2 DEF OnTime
  <1> QED
    BY <1>1, <1>2

\* A task that is neither new nor the one the walk leaves is as it was.
LEMMA OthersKeepTime ==
    ASSUME TimerTypes, Counts, NEW t \in Registered, task'[t] = task[t], waited'[t] = waited[t],
           ToVisit(t) => ToVisit(t)', task[t].enable
    PROVE  OnTime(task'[t].tick, task'[t].period, waited'[t], ToVisit(t)')
  <1>1. /\ task[t].tick \in Nat /\ task[t].period \in Nat /\ waited[t] \in Nat
    BY RegisteredAreTasks, TaskFields
  <1>2. OnTime(task[t].tick, task[t].period, waited[t], ToVisit(t))
    BY DEF Counts
  <1>3. ToVisit(t) \in BOOLEAN /\ ToVisit(t)' \in BOOLEAN
    BY DEF ToVisit
  <1>4. OnTime(task[t].tick, task[t].period, waited[t], ToVisit(t)')
    BY <1>1, <1>2, <1>3, Sooner
  <1> QED
    BY <1>4

\* The one walk that there is leaves the entry it is at, or the entry is not its.
LEMMA PassKeeps ==
    ASSUME TimerInv, NEW k \in Walkers, Pass(k), doubled \in BOOLEAN PROVE TimerInv'
  <1> DEFINE here == cursor[k]
  <1>1. /\ thread[k] = "walk" /\ ~Due(here) /\ Advance(k)
        /\ \/ task' = IF task[here].enable THEN [task EXCEPT ![here].tick = @ + 1] ELSE task
           \/ (\E j \in Walkers \ {k} : thread[j] = "walk") /\ task' = task
        /\ UNCHANGED <<timer_list, released, started, canceled, waited, doubled>>
    BY DEF Pass, Walks
  <1>2. /\ here \in Registered /\ Registered' = Registered
        /\ follower[k] # Head0 => follower[k] \in Registered
    BY <1>1 DEF TimerInv, WalkInv, Walking, Walks, Registered
  <1>3. /\ timer_list \in Seq(Nat) /\ Len(task) \in Nat /\ here \in 1..Len(task)
        /\ \A t \in Registered : t \in 1..Len(task) /\ t # Head0
        /\ Head0 \notin released /\ released \cap Registered = {}
    BY <1>2, RegisteredAreTasks DEF TimerInv, WalkInv, NoneReleased, Head0
  <1>4. /\ ~fault' /\ Walking(k)'
        /\ thread' \in [Walkers -> {"none", "sleep", "awake", "walk"}]
        /\ cursor' \in [Walkers -> Nat] /\ follower' \in [Walkers -> Nat]
        /\ \A j \in Walkers \ {k} : /\ thread'[j] = thread[j] /\ cursor'[j] = cursor[j]
                                    /\ follower'[j] = follower[j]
        /\ \A t \in Registered' : t # here /\ ToVisit(t) => ToVisit(t)'
    BY <1>1, <1>2, <1>3, AdvanceKeeps DEF TimerInv, WalkInv, TimerTypes
  <1>5. task \in Seq(TaskType) /\ task[here] \in TaskType /\ task[here].tick \in Nat
        /\ task[here].period \in Nat /\ waited[here] \in Nat
    BY <1>3, TaskFields DEF TimerInv, WalkInv, TimerTypes
  <1> HIDE DEF here
  <1>6. ASSUME task' = IF task[here].enable THEN [task EXCEPT ![here].tick = @ + 1] ELSE task
        PROVE  /\ task' \in Seq(TaskType) /\ Len(task') = Len(task)
               /\ \A t \in 1..Len(task) : t # here => task'[t] = task[t]
               /\ task'[here].enable =>
                    /\ task[here].enable /\ task'[here].tick = task[here].tick + 1
                    /\ task'[here].period = task[here].period
    <2>1. CASE ~task[here].enable
      BY <1>5, <1>6, <2>1
    <2>2. CASE task[here].enable
      <3> DEFINE counted == [task[here] EXCEPT !.tick = @ + 1]
      <3>1. /\ counted \in TaskType /\ counted.tick = task[here].tick + 1
            /\ counted.period = task[here].period
        <4>1. /\ counted.tick = task[here].tick + 1 /\ task[here].tick + 1 \in Nat
              /\ counted.period = task[here].period
          BY <1>5 DEF TaskType
        <4>2. counted = [task[here] EXCEPT !.tick = task[here].tick + 1]
          OBVIOUS
        <4>3. ASSUME NEW n \in Nat PROVE [task[here] EXCEPT !.tick = n] \in TaskType
          BY <1>5 DEF TaskType
        <4> QED
          BY <4>1, <4>2, <4>3
      <3>2. task' = [task EXCEPT ![here] = counted]
        BY <1>6, <2>2
      <3> HIDE DEF counted
      <3>3. /\ task' \in Seq(TaskType) /\ Len(task') = Len(task) /\ task'[here] = counted
            /\ \A t \in 1..Len(task) : t # here => task'[t] = task[t]
        BY <1>3, <1>5, <3>1, <3>2
      <3> QED
        BY <2>2, <3>1, <3>3
    <2> QED
      BY <2>1, <2>2
  <1>7. task' \in Seq(TaskType) /\ Len(task') = Len(task)
    BY <1>1, <1>5, <1>6
  <1>8. TimerTypes' /\ NoneReleased' /\ OneStarted'
    BY <1>1, <1>2, <1>4, <1>7 DEF TimerInv, WalkInv, TimerTypes, NoneReleased, OneStarted
  <1>9. \A j \in Walkers : Walking(j)'
    BY <1>2, <1>4, StillWalks DEF TimerInv, WalkInv
  <1>10. ASSUME ~doubled PROVE WalksAlone' /\ Counts'
    <2>1. WalksAlone /\ Counts /\ \A j \in Walkers \ {k} : thread[j] # "walk"
      BY <1>1, <1>10 DEF TimerInv, WalksAlone, Walks
    <2>2. WalksAlone'
      BY <1>4, <2>1 DEF WalksAlone, Walks
    <2>3. /\ \A t \in 1..Len(task) : t # here => task'[t] = task[t]
          /\ task'[here].enable =>
               /\ task[here].enable /\ task'[here].tick = task[here].tick + 1
               /\ task'[here].period = task[here].period
      BY <1>1, <1>6, <2>1
    <2>4. ASSUME NEW t \in Registered, task'[t].enable
          PROVE  OnTime(task'[t].tick, task'[t].period, waited'[t], ToVisit(t)')
      <3>1. CASE t # here
        <4>1. task'[t] = task[t] /\ waited'[t] = waited[t]
          BY <1>1, <1>3, <2>3, <3>1
        <4> QED
          BY <1>2, <1>4, <2>1, <2>4, <3>1, <4>1, OthersKeepTime DEF TimerInv, WalkInv
      <3>2. CASE t = here
        <4>1. /\ task[here].enable /\ task'[t].tick = task[here].tick + 1
              /\ task'[t].period = task[here].period /\ waited'[t] = waited[here]
          BY <1>1, <2>3, <2>4, <3>2
        <4>2. task'[t].tick < task'[t].period
          BY <1>1, <1>5, <4>1 DEF Due
        <4>3. waited[here] <= task[here].tick + 1
          <5>1. OnTime(task[here].tick, task[here].period, waited[here], ToVisit(here))
            BY <1>2, <2>1, <4>1 DEF Counts
          <5> QED
            BY <1>5, <5>1 DEF OnTime
        <4> QED
          BY <1>5, <4>1, <4>2, <4>3 DEF OnTime
      <3> QED
        BY <3>1, <3>2
    <2> QED
      BY <1>2, <2>2, <2>4 DEF Counts
  <1> QED
    BY <1>1, <1>4, <1>8, <1>9, <1>10 DEF TimerInv, WalkInv

LEMMA LongerByZero ==
    ASSUME NEW counted \in Seq(Nat)
    PROVE  /\ Append(counted, 0) \in Seq(Nat)
           /\ Len(Append(counted, 0)) = Len(counted) + 1
           /\ Append(counted, 0)[Len(counted) + 1] = 0
           /\ \A t \in 1..Len(counted) : Append(counted, 0)[t] = counted[t]
  BY AppendProperties

\* After the callback the thread goes on, or it was cancelled and ends in it.
LEMMA GoesOnOrEnds ==
    ASSUME TimerInv, NEW k \in Walkers, thread[k] = "walk", UNCHANGED canceled,
           \/ Advance(k)
           \/ /\ canceled[k] /\ thread' = [thread EXCEPT ![k] = "none"]
              /\ cursor' = [cursor EXCEPT ![k] = Head0]
              /\ follower' = [follower EXCEPT ![k] = Head0] /\ UNCHANGED fault,
           timer_list' \in Seq(Nat), Increasing(timer_list'),
           follower[k] # Head0 => follower[k] \in Registered' /\ follower[k] \notin released',
           Head0 \notin released', Head0 \notin Registered'
    PROVE  /\ ~fault' /\ Walking(k)'
           /\ thread' \in [Walkers -> {"none", "sleep", "awake", "walk"}]
           /\ cursor' \in [Walkers -> Nat] /\ follower' \in [Walkers -> Nat]
           /\ \A j \in Walkers \ {k} : /\ thread'[j] = thread[j] /\ cursor'[j] = cursor[j]
                                       /\ follower'[j] = follower[j]
           /\ \A t \in Registered' : t # cursor[k] /\ ToVisit(t) => ToVisit(t)'
  <1>1. CASE Advance(k)
    BY <1>1, AdvanceKeeps
  <1>2. CASE /\ canceled[k] /\ thread' = [thread EXCEPT ![k] = "none"]
             /\ cursor' = [cursor EXCEPT ![k] = Head0]
             /\ follower' = [follower EXCEPT ![k] = Head0] /\ UNCHANGED fault
    <2>1. /\ thread' \in [Walkers -> {"none", "sleep", "awake", "walk"}] /\ thread'[k] = "none"
          /\ cursor' \in [Walkers -> Nat] /\ follower' \in [Walkers -> Nat]
          /\ \A j \in Walkers \ {k} : /\ thread'[j] = thread[j] /\ cursor'[j] = cursor[j]
                                      /\ follower'[j] = follower[j]
      BY <1>2 DEF TimerInv, WalkInv, TimerTypes, Head0
    <2>2. ~fault' /\ Walking(k)'
      BY <1>2, <2>1 DEF TimerInv, WalkInv, Walking, Walks
    <2>3. \A t : ToVisit(t) => ToVisit(t)'
      BY <1>2, <2>1 DEF ToVisit, Walks
    <2> QED
      BY <2>1, <2>2, <2>3
  <1> QED
    BY <1>1, <1>2

\* After the callback the task's count and its wait are 0, if it is still there.
LEMMA CallBackKeeps ==
    ASSUME TimerAssumption, TimerInv, NEW k \in Walkers, CallBack(k), ~careless',
           doubled \in BOOLEAN
    PROVE  TimerInv'
  <1> DEFINE here == cursor[k]
             reset == [task EXCEPT ![here].tick = 0]
             zero == [waited EXCEPT ![here] = 0]
             others == \E j \in Walkers \ {k} : thread[j] = "walk"
  <1>1. /\ thread[k] = "walk" /\ UNCHANGED <<started, canceled, doubled>>
        /\ \/ Advance(k)
           \/ /\ canceled[k] /\ thread' = [thread EXCEPT ![k] = "none"]
              /\ cursor' = [cursor EXCEPT ![k] = Head0]
              /\ follower' = [follower EXCEPT ![k] = Head0] /\ UNCHANGED fault
        /\ \/ /\ task' = reset /\ waited' = zero /\ UNCHANGED <<timer_list, released>>
           \/ ~others /\ Removed(here) /\ task' = reset /\ waited' = zero
           \/ /\ \E p \in Periods : Added(reset, p, TRUE, "nothing")
              /\ waited' = Append(zero, 0) /\ UNCHANGED released
    BY DEF CallBack, Walks
  <1>2. /\ here \in Registered /\ (follower[k] # Head0 => follower[k] \in Registered)
        /\ follower[k] # here
    BY <1>1, RegisteredAreTasks DEF TimerInv, WalkInv, Walking, Walks
  <1>3. /\ timer_list \in Seq(Nat) /\ Len(task) \in Nat /\ here \in 1..Len(task)
        /\ \A t \in Registered : t \in 1..Len(task) /\ t # Head0
        /\ Head0 \notin released /\ released \cap Registered = {}
        /\ released \subseteq 1..Len(task)
    BY <1>2, RegisteredAreTasks DEF TimerInv, WalkInv, NoneReleased, Head0
  <1>4. /\ task \in Seq(TaskType) /\ waited \in Seq(Nat) /\ Len(waited) = Len(task)
        /\ task[here] \in TaskType
    BY <1>3, TaskFields DEF TimerInv, WalkInv, TimerTypes
  <1> HIDE DEF here
  <1>5. /\ reset \in Seq(TaskType) /\ Len(reset) = Len(task)
        /\ reset[here].tick = 0 /\ reset[here].period \in Nat \ {0}
        /\ \A t \in 1..Len(task) : t # here => reset[t] = task[t]
    <2> DEFINE again == [task[here] EXCEPT !.tick = 0]
    <2>1. again \in TaskType /\ again.tick = 0 /\ again.period \in Nat \ {0}
      BY <1>4 DEF TaskType
    <2>2. reset = [task EXCEPT ![here] = again]
      OBVIOUS
    <2> HIDE DEF again, reset
    <2> QED
      BY <1>3, <1>4, <2>1, <2>2
  <1>6. /\ zero \in Seq(Nat) /\ Len(zero) = Len(task) /\ zero[here] = 0
        /\ \A t \in 1..Len(task) : t # here => zero[t] = waited[t]
    BY <1>3, <1>4
  <1> HIDE DEF reset, zero, others
  <1> DEFINE n == Len(task) + 1
  <1>7. /\ task' \in Seq(TaskType) /\ Len(task') \in {Len(task), n}
        /\ \A t \in 1..Len(task) : task'[t] = reset[t]
        /\ waited' \in Seq(Nat) /\ Len(waited') = Len(task')
        /\ \A t \in 1..Len(task) : waited'[t] = zero[t]
        /\ timer_list' \in Seq(1..Len(task')) /\ Increasing(timer_list')
        /\ released' \subseteq 1..Len(task) /\ released' \cap Registered' = {}
        /\ Registered' \subseteq Registered \cup {n}
        /\ Registered \ {here} \subseteq Registered'
        /\ others => Registered \subseteq Registered'
        /\ n \in Registered' => Len(task') = n /\ waited'[n] = 0
    <2>1. CASE task' = reset /\ waited' = zero /\ UNCHANGED <<timer_list, released>>
      <3>1. Registered' = Registered /\ n \notin Registered
        BY <1>3, <2>1 DEF Registered
      <3> QED
        BY <1>3, <1>5, <1>6, <2>1, <3>1 DEF TimerInv, WalkInv, TimerTypes
    <2>2. CASE ~others /\ Removed(here) /\ task' = reset /\ waited' = zero
      <3>1. /\ timer_list' \in Seq(1..Len(task)) /\ Increasing(timer_list')
            /\ Registered' = Registered \ {here}
            /\ released' \subseteq 1..Len(task) /\ released' \cap Registered' = {}
        BY <1>2, <2>2, TaskIsRemoved DEF TimerInv, WalkInv
      <3>2. n \notin Registered'
        BY <1>3, <3>1
      <3> QED
        BY <1>5, <1>6, <2>2, <3>1, <3>2
    <2>3. CASE /\ \E p \in Periods : Added(reset, p, TRUE, "nothing")
               /\ waited' = Append(zero, 0) /\ UNCHANGED released
      <3>1. PICK p \in Periods : Added(reset, p, TRUE, "nothing")
        BY <2>3
      <3>2. /\ task' \in Seq(TaskType) /\ Len(task') = n
            /\ \A t \in 1..Len(task) : task'[t] = reset[t]
            /\ timer_list' \in Seq(1..Len(task')) /\ Increasing(timer_list')
            /\ Registered' = Registered \cup {n}
        BY <1>5, <3>1, TaskIsAdded DEF TimerInv, WalkInv
      <3>3. /\ waited' \in Seq(Nat) /\ Len(waited') = n /\ waited'[n] = 0
            /\ \A t \in 1..Len(task) : waited'[t] = zero[t]
        <4>1. zero \in Seq(Nat) /\ Len(zero) = Len(task) /\ waited' = Append(zero, 0)
          BY <1>6, <2>3
        <4> QED
          BY <4>1, LongerByZero
      <3>4. released' \subseteq 1..Len(task) /\ released' \cap Registered' = {}
        BY <1>3, <2>3, <3>2
      <3> QED
        BY <3>2, <3>3, <3>4
    <2> QED
      BY <1>1, <2>1, <2>2, <2>3
  <1>8. /\ ~fault' /\ Walking(k)'
        /\ thread' \in [Walkers -> {"none", "sleep", "awake", "walk"}]
        /\ cursor' \in [Walkers -> Nat] /\ follower' \in [Walkers -> Nat]
        /\ \A j \in Walkers \ {k} : /\ thread'[j] = thread[j] /\ cursor'[j] = cursor[j]
                                    /\ follower'[j] = follower[j]
        /\ \A t \in Registered' : t # here /\ ToVisit(t) => ToVisit(t)'
    <2>1. timer_list' \in Seq(Nat)
      <3>1. 1..Len(task') \subseteq Nat
        BY <1>3, <1>7
      <3> QED
        BY <1>7, <3>1
    <2>2. follower[k] # Head0 => follower[k] \in Registered' /\ follower[k] \notin released'
      BY <1>2, <1>7
    <2>3. Head0 \notin released' /\ Head0 \notin Registered'
      BY <1>3, <1>7 DEF Head0
    <2> QED
      BY <1>1, <1>7, <2>1, <2>2, <2>3, GoesOnOrEnds DEF here
  <1>9. TimerTypes'
    BY <1>1, <1>7, <1>8 DEF TimerInv, WalkInv, TimerTypes
  <1>10. NoneReleased' /\ OneStarted'
    BY <1>1, <1>3, <1>7 DEF TimerInv, WalkInv, NoneReleased, OneStarted
  <1>11. \A j \in Walkers : Walking(j)'
    <2> SUFFICES ASSUME NEW j \in Walkers, j # k PROVE Walking(j)'
      BY <1>8
    <2>1. thread'[j] = thread[j] /\ cursor'[j] = cursor[j] /\ follower'[j] = follower[j]
      BY <1>8
    <2>2. CASE thread[j] = "walk"
      <3>1. others
        BY <2>2 DEF others
      <3> QED
        BY <1>7, <2>1, <3>1, StillWalks DEF TimerInv, WalkInv
    <2>3. CASE thread[j] # "walk"
      BY <2>1, <2>3 DEF Walking, Walks
    <2> QED
      BY <2>2, <2>3
  <1>12. ASSUME ~doubled PROVE WalksAlone' /\ Counts'
    <2>1. WalksAlone /\ Counts /\ TimerTypes
      BY <1>12 DEF TimerInv, WalkInv
    <2>2. WalksAlone'
      BY <1>1, <1>8, <2>1 DEF WalksAlone, Walks
    <2>3. SUFFICES ASSUME NEW t \in Registered', task'[t].enable
                   PROVE  OnTime(task'[t].tick, task'[t].period, waited'[t], ToVisit(t)')
      BY <2>2 DEF Counts
    <2>4. CASE t = n
      <3>1. waited'[t] = 0 /\ n \in 1..Len(task')
        BY <1>3, <1>7, <2>4
      <3>2. task'[t].tick \in Nat
        <4>1. task'[t] \in TaskType
          BY <1>7, <2>4, <3>1
        <4> QED
          BY <4>1 DEF TaskType
      <3> QED
        BY <3>1, <3>2 DEF OnTime
    <2>5. CASE t = here
      <3>1. waited'[t] = 0 /\ task'[t].tick = 0 /\ task'[t].period \in Nat \ {0}
        BY <1>3, <1>5, <1>6, <1>7, <2>5
      <3> QED
        BY <3>1 DEF OnTime
    <2>6. CASE t \in Registered /\ t # here
      <3>1. task'[t] = task[t] /\ waited'[t] = waited[t]
        BY <1>3, <1>5, <1>6, <1>7, <2>6
      <3> QED
        BY <1>8, <2>1, <2>3, <2>6, <3>1, OthersKeepTime
    <2> QED
      BY <1>7, <2>3, <2>4, <2>5, <2>6
  <1> QED
    BY <1>1, <1>8, <1>9, <1>10, <1>11, <1>12 DEF TimerInv, WalkInv

\* No walk ever stands at a task that is freed.
LEMMA NeverDangling == ASSUME TimerInv, NEW k \in Walkers PROVE ~Dangling(k)
  BY DEF TimerInv, WalkInv, Walking, NoneReleased, Dangling

LEMMA TimerNextKeeps ==
    ASSUME TimerAssumption, CarefulInv, [TimerNext]_timervars
    PROVE  CarefulInv'
  <1>1. CASE UNCHANGED timervars
    <2>1. Registered' = Registered /\ \A t : ToVisit(t)' <=> ToVisit(t)
      BY <1>1 DEF timervars, Registered, ToVisit, Walks
    <2>2. ~careless => TimerInv'
      <3> SUFFICES ASSUME TimerInv PROVE TimerInv'
        BY DEF CarefulInv
      <3>1. WalkInv'
        BY <1>1, <2>1 DEF timervars, TimerInv, WalkInv, TimerTypes, NoneReleased, Walking, Walks,
                          OneStarted
      <3>2. ~doubled' => WalksAlone' /\ Counts'
        BY <1>1, <2>1 DEF timervars, TimerInv, Counts, OnTime, WalksAlone, Walks
      <3> QED
        BY <3>1, <3>2 DEF TimerInv
    <2> QED
      BY <1>1, <2>2 DEF timervars, CarefulInv
  <1>2. CASE TimerNext
    <2>1. /\ careless' \in BOOLEAN /\ (careless => careless')
          /\ doubled' \in BOOLEAN /\ doubled \in BOOLEAN
      <3>1. careless \in BOOLEAN /\ doubled \in BOOLEAN
        BY DEF CarefulInv
      <3>2. CASE Start \/ Stop \/ RegisterTask \/ UnregisterTask
        BY <3>1, <3>2 DEF Start, Stop, RegisterTask, UnregisterTask
      <3>3. ASSUME NEW k \in Walkers, Tick(k) \/ End(k) \/ Pass(k) \/ Dangling(k)
            PROVE  /\ careless' = careless
                   /\ doubled' \in {doubled, doubled \/ \E j \in Walkers \ {k} : Walks(j)}
        BY <3>3 DEF Tick, End, Pass, Dangling
      <3>4. ASSUME NEW k \in Walkers, CallBack(k)
            PROVE  /\ careless' \in BOOLEAN /\ (careless => careless')
                   /\ doubled' = doubled
        BY <3>1, <3>4 DEF CallBack
      <3> QED
        BY <1>2, <3>1, <3>2, <3>3, <3>4 DEF TimerNext
    <2>2. ASSUME ~careless' PROVE TimerInv'
      <3>1. TimerInv
        BY <2>1, <2>2 DEF CarefulInv
      <3>2. CASE \E k \in Walkers : Tick(k) \/ Pass(k) \/ CallBack(k) \/ Dangling(k)
        BY <2>1, <2>2, <3>1, <3>2, TickKeeps, PassKeeps, CallBackKeeps, NeverDangling
      <3> QED
        BY <1>2, <2>2, <3>1, <3>2, StartKeeps, StopKeeps, RegisterKeeps, UnregisterKeeps
        DEF TimerNext
    <2> QED
      BY <2>1, <2>2 DEF CarefulInv
  <1> QED
    BY <1>1, <1>2

\* As long as tasks are freed only by their own callbacks, with no other walk under way, or
\* between walks, no walk follows a pointer into a freed task, however many threads that were
\* cancelled still walk (timer.c:182, :220); and as long as there was one walk at a time, each
\* callback runs within its period (timer.c:152), for any tasks, periods and first counts.
THEOREM TasksAreCalledOnTime ==
    ASSUME TimerAssumption
    PROVE  TimerSpec => []CalledOnTime
  <1>1. CarefulInv => CalledOnTime
    <2> SUFFICES ASSUME TimerInv
                 PROVE  /\ ~fault
                        /\ ~doubled => \A k \in Walkers : thread[k] = "sleep" /\ ~canceled[k] =>
                             \A t \in Registered : task[t].enable => waited[t] < task[t].period
      BY DEF CarefulInv, CalledOnTime
    <2>1. ASSUME ~doubled, NEW k \in Walkers, thread[k] = "sleep", ~canceled[k],
                 NEW t \in Registered, task[t].enable
          PROVE  waited[t] < task[t].period
      <3>1. /\ task[t].tick \in Nat /\ task[t].period \in Nat \ {0} /\ waited[t] \in Nat
        BY RegisteredAreTasks, TaskFields DEF TimerInv, WalkInv
      <3>2. ~ToVisit(t)
        BY <2>1 DEF TimerInv, WalkInv, OneStarted, ToVisit, Walks
      <3>3. waited[t] <= task[t].tick /\ (task[t].tick < task[t].period \/ waited[t] = 0)
        BY <2>1, <3>2 DEF TimerInv, Counts, OnTime
      <3> QED
        BY <3>1, <3>3
    <2> QED
      BY <2>1 DEF TimerInv, WalkInv
  <1> QED
    BY <1>1, TimerStarts, TimerNextKeeps, PTL DEF TimerSpec
=============================================================================
