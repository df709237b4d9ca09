------------------------------ MODULE BusQueue ------------------------------
(***************************************************************************)
(* What the write path of a custom RS485 bus promises its callers: the     *)
(* messages accepted by custom_bus_write are handed to the protocol stack  *)
(* one at a time, in the order they were accepted, each exactly once.  A   *)
(* message whose announcement fails is withdrawn before it is ever handed  *)
(* over.  There is no list, no semaphore and no thread here: the module    *)
(* CustomBus, which has them, implements this specification.               *)
(***************************************************************************)
EXTENDS Naturals, Sequences

CONSTANT MaxMsgs            \* how many messages are ever accepted (bound)

VARIABLES accepted,         \* number of messages accepted so far
          pending,          \* accepted, not yet handed over, oldest first
          current           \* the message being handled, 0 when there is none

vars == <<accepted, pending, current>>

Init == accepted = 0 /\ pending = <<>> /\ current = 0

Accept ==
    /\ accepted < MaxMsgs
    /\ accepted' = accepted + 1
    /\ pending' = Append(pending, accepted + 1)
    /\ UNCHANGED current

Withdraw ==
    /\ \E i \in 1..Len(pending) :
          pending' = SubSeq(pending, 1, i - 1) \o SubSeq(pending, i + 1, Len(pending))
    /\ UNCHANGED <<accepted, current>>

HandOver ==
    /\ current = 0
    /\ pending # <<>>
    /\ current' = Head(pending)
    /\ pending' = Tail(pending)
    /\ UNCHANGED accepted

Finish ==
    /\ current # 0
    /\ current' = 0
    /\ UNCHANGED <<accepted, pending>>

Next == Accept \/ Withdraw \/ HandOver \/ Finish

Spec == Init /\ [][Next]_vars
=============================================================================
