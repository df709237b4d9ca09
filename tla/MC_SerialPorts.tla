--------------------------- MODULE MC_SerialPorts ---------------------------
(***************************************************************************)
(* An instance of SerialPorts for TLC: the ports of two buses and one of   *)
(* the general protocol.                                                   *)
(***************************************************************************)
EXTENDS SerialPorts

\* Ports as the system sets them up, and one that was set to another speed before.
Settings == {Cooked, [Cooked EXCEPT !.baud = 115200]}

\* The settings the buses ask for.
Opened ==
    {[baud_rate |-> 4800, data_bits |-> 8, stop_bits |-> 1, parity |-> "none"],
     [baud_rate |-> 9600, data_bits |-> 7, stop_bits |-> 2, parity |-> "odd"]}
=============================================================================
