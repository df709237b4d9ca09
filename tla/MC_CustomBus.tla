---------------------------- MODULE MC_CustomBus ----------------------------
(***************************************************************************)
(* Instances of CustomBus for TLC: the driver descriptions.                *)
(***************************************************************************)
EXTENDS CustomBus

\* The driver of the repository (dooya.c): get, put, three passes, 300 ms.
Dooya == [get |-> TRUE, put |-> TRUE, broadcast |-> FALSE,
          retransmission |-> 3, timeout |-> 1]

\* A driver that asks for more than the stack grants, in passes and in time,
\* and only listens; and one that never expects an answer.
Greedy    == [get |-> FALSE, put |-> TRUE, broadcast |-> FALSE,
              retransmission |-> 6, timeout |-> 5]
Announcer == [get |-> TRUE, put |-> FALSE, broadcast |-> TRUE,
              retransmission |-> 1, timeout |-> 0]
NoHandler == [get |-> TRUE, put |-> FALSE, broadcast |-> FALSE,
              retransmission |-> 2, timeout |-> 2]

\* A driver that leaves retransmission at its zero default.
NoRetry   == [get |-> FALSE, put |-> TRUE, broadcast |-> FALSE,
              retransmission |-> 0, timeout |-> 1]

AllDrivers  == {Dooya, Greedy, Announcer, NoHandler}
DooyaOnly   == {Dooya}
ZeroDrivers == {NoRetry}
=============================================================================
