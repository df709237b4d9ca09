----------------------------- MODULE BoundedFifo -----------------------------
(***************************************************************************)
(* What a ring buffer promises: a queue of at most Capacity elements that  *)
(* gives back, in order, what was put, and also takes one at the front.    *)
(* A put into a full queue and a pop from an empty one change nothing.     *)
(***************************************************************************)
EXTENDS Naturals, Sequences

CONSTANTS Values, Capacity

VARIABLES
    q,         \* the elements, oldest first
    delivered  \* the element the last pop returned

Init == q = <<>> /\ delivered \notin Values

Put(v) ==
    /\ Len(q) < Capacity
    /\ q' = Append(q, v)
    /\ UNCHANGED delivered

PutFront(v) ==
    /\ Len(q) < Capacity
    /\ q' = <<v>> \o q
    /\ UNCHANGED delivered

Pop ==
    /\ q # <<>>
    /\ delivered' = Head(q)
    /\ q' = Tail(q)

Next == Pop \/ \E v \in Values : Put(v) \/ PutFront(v)

Spec == Init /\ [][Next]_<<q, delivered>>
=============================================================================
