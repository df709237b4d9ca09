------------------------------- MODULE RingBuf -------------------------------
(***************************************************************************)
(* sdk/module/ringbuffer/ringbuf.c: the ring buffer between one producer   *)
(* and one consumer that run as separate processes.  head and tail are     *)
(* unsigned counters that only wrap at the width of unsigned (UintMod);    *)
(* the slot is the counter modulo element_count.  Checks, copies and       *)
(* counter updates are steps of their own; a slot being copied into holds  *)
(* Torn.                                                                   *)
(***************************************************************************)
EXTENDS Integers, Sequences

CONSTANTS
    Values,         \* elements that are put
    NoValue,        \* what a slot holds before it is first written
    Torn,           \* what a reader sees of a slot that is being copied into
    element_count,
    UintMod         \* 2^w of an unsigned; small enough here to wrap

\* "element_count must be a power of two" (ringbuf.c:255): what the code needs of
\* it is that the counters wrap at a multiple of element_count.
ASSUME RingBufAssumption ==
    /\ element_count \in Nat \ {0}
    /\ UintMod \in Nat /\ UintMod > element_count /\ UintMod % element_count = 0
    /\ NoValue \notin Values /\ Torn \notin Values /\ NoValue # Torn

VARIABLES
    head, tail,
    buffer,     \* one value per slot
    pcP, pcC,   \* where the producer and the consumer are
    slot,       \* the producer's ring_data
    item,       \* the producer's data_element
    got,        \* what the consumer has copied out
    delivered   \* what the last ringbuf_pop returned

vars == <<head, tail, buffer, pcP, pcC, slot, item, got, delivered>>

Slots == 0..(element_count - 1)

Init ==
    /\ head = 0 /\ tail = 0
    /\ buffer = [s \in Slots |-> NoValue]
    /\ pcP = "idle" /\ pcC = "idle"
    /\ slot = 0
    /\ item = NoValue
    /\ got = NoValue
    /\ delivered = NoValue

\* head - tail, in unsigned arithmetic.
ringbuf_count == (head - tail) % UintMod

\* Mutant: one element more than there are slots.
FullLate == ringbuf_count = element_count + 1

ringbuf_full  == ringbuf_count = element_count
ringbuf_empty == ringbuf_count = 0

SlotOf(counter) == counter % element_count

-----------------------------------------------------------------------------
(* The producer *)

\* Mutant: the test for a full buffer is left out.
PutCheckUnlimited(v) ==
    /\ pcP = "idle"
    /\ slot' = SlotOf(head)
    /\ item' = v
    /\ pcP' = "copy put"
    /\ UNCHANGED <<head, tail, buffer, pcC, got, delivered>>

\* ringbuf_put finds room and a slot; a full buffer refuses the element.
PutCheck(v) ==
    /\ pcP = "idle" /\ ~ringbuf_full
    /\ slot' = SlotOf(head)
    /\ item' = v
    /\ pcP' = "copy put"
    /\ UNCHANGED <<head, tail, buffer, pcC, got, delivered>>

\* ringbuf_data_peek hands the slot out, for the caller to fill in place.
DataPeek(v) ==
    /\ pcP = "idle" /\ ~ringbuf_full
    /\ slot' = SlotOf(head)
    /\ item' = v
    /\ pcP' = "copy data"
    /\ UNCHANGED <<head, tail, buffer, pcC, got, delivered>>

\* The first byte is in the slot, the last is not.
CopyBegin ==
    /\ pcP \in {"copy put", "copy data"}
    /\ buffer[slot] # Torn
    /\ buffer' = [buffer EXCEPT ![slot] = Torn]
    /\ UNCHANGED <<head, tail, pcP, pcC, slot, item, got, delivered>>

CopyEnd ==
    /\ pcP \in {"copy put", "copy data"}
    /\ buffer[slot] = Torn
    /\ buffer' = [buffer EXCEPT ![slot] = item]
    /\ pcP' = IF pcP = "copy put" THEN "advance" ELSE "data put"
    /\ UNCHANGED <<head, tail, pcC, slot, item, got, delivered>>

\* b->head++ of ringbuf_put.
PutAdvance ==
    /\ pcP = "advance"
    /\ head' = (head + 1) % UintMod
    /\ pcP' = "idle"
    /\ UNCHANGED <<tail, buffer, pcC, slot, item, got, delivered>>

\* ringbuf_data_put: head moves when there is room and the slot is still the next.
DataPut ==
    /\ pcP = "data put"
    /\ head' = IF ~ringbuf_full /\ slot = SlotOf(head) THEN (head + 1) % UintMod ELSE head
    /\ pcP' = "idle"
    /\ UNCHANGED <<tail, buffer, pcC, slot, item, got, delivered>>

-----------------------------------------------------------------------------
(* The consumer *)

\* ringbuf_pop, or ringbuf_peek with a ringbuf_pop to follow, finds an element.
PopCheck ==
    /\ pcC = "idle" /\ ~ringbuf_empty
    /\ pcC' = "read"
    /\ UNCHANGED <<head, tail, buffer, pcP, slot, item, got, delivered>>

\* Mutant: the copy is made from where the producer writes.
PopReadHead ==
    /\ pcC = "read"
    /\ got' = buffer[SlotOf(head)]
    /\ pcC' = "advance"
    /\ UNCHANGED <<head, tail, buffer, pcP, slot, item, delivered>>

PopRead ==
    /\ pcC = "read"
    /\ got' = buffer[SlotOf(tail)]
    /\ pcC' = "advance"
    /\ UNCHANGED <<head, tail, buffer, pcP, slot, item, delivered>>

\* b->tail++
PopAdvance ==
    /\ pcC = "advance"
    /\ tail' = (tail + 1) % UintMod
    /\ delivered' = got
    /\ pcC' = "idle"
    /\ UNCHANGED <<head, buffer, pcP, slot, item, got>>

\* Mutant: the slot is taken before tail moves.
PutFrontLate(v) ==
    /\ pcP = "idle" /\ pcC = "idle" /\ ~ringbuf_full
    /\ tail' = (tail - 1) % UintMod
    /\ buffer' = [buffer EXCEPT ![SlotOf(tail)] = v]
    /\ UNCHANGED <<head, pcP, pcC, slot, item, got, delivered>>

\* Mutant: tail goes below zero.
PutFrontSigned(v) ==
    /\ pcP = "idle" /\ pcC = "idle" /\ ~ringbuf_full
    /\ tail' = tail - 1
    /\ buffer' = [buffer EXCEPT ![SlotOf(tail - 1)] = v]
    /\ UNCHANGED <<head, pcP, pcC, slot, item, got, delivered>>

\* ringbuf_put_front, which "can't be used if keeping producer and consumer as
\* separate processes": neither is in the middle of a call.
PutFront(v) ==
    /\ pcP = "idle" /\ pcC = "idle" /\ ~ringbuf_full
    /\ tail' = (tail - 1) % UintMod
    /\ buffer' = [buffer EXCEPT ![SlotOf((tail - 1) % UintMod)] = v]
    /\ UNCHANGED <<head, pcP, pcC, slot, item, got, delivered>>

-----------------------------------------------------------------------------
Producer == CopyBegin \/ CopyEnd \/ PutAdvance \/ DataPut
            \/ \E v \in Values : PutCheck(v) \/ DataPeek(v)

Consumer == PopCheck \/ PopRead \/ PopAdvance

Next == Producer \/ Consumer \/ \E v \in Values : PutFront(v)

Spec == Init /\ [][Next]_vars

-----------------------------------------------------------------------------
(* Properties *)

Copying == {"copy put", "copy data"}

\* The counters are unsigned, whatever is added to or taken from them.
TypeOK ==
    /\ head \in 0..(UintMod - 1) /\ tail \in 0..(UintMod - 1)
    /\ buffer \in [Slots -> Values \cup {NoValue, Torn}]
    /\ pcP \in {"idle", "advance", "data put"} \cup Copying
    /\ pcC \in {"idle", "read", "advance"}
    /\ slot \in Slots
    /\ item \in Values \cup {NoValue}
    /\ got \in Values \cup {NoValue, Torn} /\ delivered \in Values \cup {NoValue, Torn}

\* "limit the amount of elements that we accept": also with both sides in the middle
\* of a call and a counter that has wrapped, never more elements than slots, and never
\* fewer than the consumer has found.
CountInBounds ==
    /\ ringbuf_count <= element_count
    /\ pcP # "idle" => ringbuf_count < element_count
    /\ pcC # "idle" => ringbuf_count > 0

\* The producer never writes the slot the consumer reads or has handed out with
\* ringbuf_peek.
NoClash == (pcP # "idle" /\ pcC # "idle") => slot # SlotOf(tail)

\* The elements in the buffer, oldest first.
Contents == [i \in 1..ringbuf_count |-> buffer[SlotOf((tail + i - 1) % UintMod)]]

\* The consumer has a whole element in hand, the oldest, until it moves tail.
GotIsOldest == pcC = "advance" => got \in Values /\ got = Contents[1]

\* The ring buffer implements the bounded queue: nothing lost, repeated, torn or out
\* of order, across any wrap of the counters.
Fifo == INSTANCE BoundedFifo WITH q <- Contents, Capacity <- element_count
PromiseKept == Fifo!Spec
=============================================================================
