---------------------------- MODULE SerialPorts ----------------------------
(***************************************************************************)
(* The serial ports and their settings: those of the custom buses          *)
(* (protocol/custom/interface.c), each opened by the probe of its bus and  *)
(* closed by its removal, and that of the general protocol                 *)
(* (protocol/general/rs485.c), closed when the process exits.  Each of the *)
(* two files has one static copy of old settings for all the ports it      *)
(* opens.  The settings of a port are its speed, character size, stop bits *)
(* and parity.                                                             *)
(***************************************************************************)
EXTENDS Integers, Sequences, SequencesExt

CONSTANTS
    BusPorts, GeneralPorts,
    Profiles,   \* struct interface_profile: baud_rate, data_bits, stop_bits, parity
    Found,      \* settings ports may be found with
    Bauds,      \* what an object of the general protocol may ask for
    Closed,     \* no profile
    MaxChanges  \* bound: openings

VARIABLES
    tty,        \* the settings of every port
    opened,     \* the profile a bus has opened its port with
    oldtio,     \* RS485_oldtio and RS485_oldserial of interface.c
    RS485_Baud, RS485_SpecBaud,
    general_oldtio,
    objects,    \* ports the general protocol was initialised with
    exited,
    before,     \* settings found when a port was opened (history)
    changes

busPart == <<opened, oldtio>>
generalPart == <<RS485_Baud, RS485_SpecBaud, general_oldtio, objects, exited>>
pvars == <<tty, busPart, generalPart, before, changes>>

Rates == {0, 50, 75, 110, 134, 150, 200, 300, 600, 1200, 1800, 2400, 4800, 9600, 19200,
          38400, 57600, 115200, 230400}

\* A port as the system sets it up; it may be found with what another program has left.  To
\* restore what was never saved is to set zeros.
Cooked == [baud |-> 9600, size |-> 8, stops |-> 1, parity |-> "none"]
Zeros == [baud |-> 0, size |-> 5, stops |-> 1, parity |-> "none"]

PortsInit ==
    /\ tty \in [BusPorts \cup GeneralPorts -> Found]
    /\ opened = [p \in BusPorts |-> Closed] /\ oldtio = Zeros
    /\ RS485_Baud = 38400 /\ RS485_SpecBaud = FALSE /\ general_oldtio = Zeros
    /\ objects = <<>> /\ exited = FALSE
    /\ before = tty /\ changes = 0

-----------------------------------------------------------------------------
(* interface.c *)

\* The speed of a port is one of the Rates: 76800 is set as 38400 (on Linux, with a custom
\* divisor that is not set), and what is not a rate as 9600.
get_baud_rate(baud) ==
    CASE baud \in Rates -> baud
      [] baud = 76800 -> 38400
      [] OTHER -> 9600

\* PARENB alone is even parity, with PARODD odd parity: the two are swapped
\* (interface.c:185, :189).
parse_c_cflag(f) ==
    [baud |-> get_baud_rate(f.baud_rate),
     size |-> IF f.data_bits \in 5..8 THEN f.data_bits ELSE 8,
     stops |-> IF f.stop_bits = 2 THEN 2 ELSE 1,
     parity |-> CASE f.parity = "odd" -> "even"
                  [] f.parity = "even" -> "odd"
                  [] OTHER -> "none"]

\* interface_initialize, by the probe of a bus; a port has one bus.  When the port cannot
\* be opened nothing is saved or set.
Initialize(p, f) ==
    /\ ~exited /\ changes < MaxChanges /\ opened[p] = Closed
    /\ changes' = changes + 1
    /\ oldtio' = tty[p]
    /\ tty' = [tty EXCEPT ![p] = parse_c_cflag(f)]
    /\ opened' = [opened EXCEPT ![p] = f]
    /\ before' = [before EXCEPT ![p] = tty[p]]
    /\ UNCHANGED generalPart

\* interface_cleanup, by its removal.
Cleanup(p) ==
    /\ ~exited /\ opened[p] # Closed
    /\ tty' = [tty EXCEPT ![p] = oldtio]
    /\ opened' = [opened EXCEPT ![p] = Closed]
    /\ UNCHANGED <<oldtio, generalPart, before, changes>>

-----------------------------------------------------------------------------
(* rs485.c *)

\* rs485_set_baud_rate: what is not a rate is refused, 76800 is told by a flag, which a
\* speed that is refused clears as well (rs485.c:205).
SetBaud(baud) ==
    /\ RS485_Baud' = IF baud \in Rates \cup {76800} THEN get_baud_rate(baud) ELSE RS485_Baud
    /\ RS485_SpecBaud' = (baud = 76800)

\* general_service_init for an object: the speed, then rs485_initialize on its port.
GeneralServiceInit(p, baud) ==
    /\ ~exited /\ changes < MaxChanges
    /\ changes' = changes + 1
    /\ SetBaud(baud)
    /\ general_oldtio' = tty[p]
    /\ tty' = [tty EXCEPT ![p] = [baud |-> RS485_Baud', size |-> 8, stops |-> 1, parity |-> "none"]]
    /\ objects' = Append(objects, p)
    /\ before' = IF p \in ToSet(objects) THEN before ELSE [before EXCEPT ![p] = tty[p]]
    /\ UNCHANGED <<busPart, exited>>

\* At exit rs485_cleanup runs as often as it was registered, each time for the last handle,
\* which the first time closes.
Exit ==
    /\ ~exited /\ exited' = TRUE
    /\ tty' = IF objects = <<>> THEN tty ELSE [tty EXCEPT ![Last(objects)] = general_oldtio]
    /\ UNCHANGED <<busPart, RS485_Baud, RS485_SpecBaud, general_oldtio, objects, before, changes>>

PortsNext ==
    \/ \E p \in BusPorts, f \in Profiles : Initialize(p, f)
    \/ \E p \in BusPorts : Cleanup(p)
    \/ \E p \in GeneralPorts, baud \in Bauds : GeneralServiceInit(p, baud)
    \/ Exit

PortsSpec == PortsInit /\ [][PortsNext]_pvars

-----------------------------------------------------------------------------
(* Properties *)

\* A port of a bus that is closed again has the settings it was found with: "restore the old
\* port settings" (interface.c:289).  All of them share one static copy (interface.c:55).
RestoresItsOwn == \A p \in BusPorts : opened[p] = Closed => tty[p] = before[p]
=============================================================================
