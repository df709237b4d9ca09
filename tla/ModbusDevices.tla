--------------------------- MODULE ModbusDevices ---------------------------
(***************************************************************************)
(* What the send handlers of the modbus devices make of a message: the     *)
(* Daikin DTA116A621 adapter, the Hitachi VRV manager and the York Johnson *)
(* Controls box.  A handler gives the frame [code, len, reg] (len is its   *)
(* return value, the number of registers; negative for an error), the      *)
(* first words of the shared buffer, and the new row of the device's table.*)
(* The words are those of a little-endian machine: a handler that writes   *)
(* the bytes high, low leaves the word Swapped(value).                     *)
(***************************************************************************)
EXTENDS Integers, Sequences, Methods

WordMod == 65536
Swapped(w) == (w % 256) * 256 + (w \div 256)

\* a | b, of 16 bit words
BitOr(a, b) ==
    LET bit(k) == IF (a \div k) % 2 = 1 \/ (b \div k) % 2 = 1 THEN k ELSE 0
        byte(k) == bit(k) + bit(2 * k) + bit(4 * k) + bit(8 * k)
                   + bit(16 * k) + bit(32 * k) + bit(64 * k) + bit(128 * k)
    IN  byte(1) + byte(256)

\* enum.h: function codes
WRITE_REGISTER == 6
WRITE_REGISTERS == 8
READ_REGISTERS == 9
READ_INPUT == 10
DO_NOTHING == 12
Codes == 0..12

BitReads == {1, 3, 4, 5}
WordReads == {7, 9, 10, 11}
Singles == {0, 1, 4, 6, 7, 10}      \* these want the answer 1, the others the length

\* The send handlers' results: nothing to send, or refused with the code already set.
Quiet(f) == [f EXCEPT !.code = DO_NOTHING, !.len = 0]
Refused(f, code) == [f EXCEPT !.code = code, !.len = -1]

-----------------------------------------------------------------------------
(* Daikin: three registers per unit, kept in a table and sent whole *)

\* The table as it starts: 0x3761, 0x0103, 25 degrees.  It has 64 rows and 63
\* initializers.
DaikinRow(unit) == IF unit < 63 THEN <<14177, 259, 250>> ELSE <<0, 0, 0>>

\* The value in the four bits from 2^k replaced.
WithNibble(w, k, v) == w - ((w \div k) % 16) * k + v * k

\* get_daikin_hold_register_value; an unknown method gives -1 as a uint16_t.
DaikinValue(method, value, row) ==
    CASE method \in Temperatures -> (value * 10) % WordMod
      [] method = SWING_AUTO -> WithNibble(row[1], 256, 2)
      [] method = SWING_UP_DOWN -> WithNibble(row[1], 256, 4)
      [] method = SWING_LEFT_RIGHT -> WithNibble(row[1], 256, 0)
      [] method = SWING_BOTH -> WithNibble(row[1], 256, 7)
      [] method \in {FAN_AUTO, FAN_MIDDLE} -> WithNibble(row[1], 4096, 3)
      [] method = FAN_HIGH -> WithNibble(row[1], 4096, 5)
      [] method = FAN_LOW -> WithNibble(row[1], 4096, 1)
      [] method = MODE_FANING -> WithNibble(row[2], 1, 0)
      [] method = MODE_HEATING -> WithNibble(row[2], 1, 1)
      [] method = MODE_COOLING -> WithNibble(row[2], 1, 2)
      [] method = MODE_DRYING -> WithNibble(row[2], 1, 7)
      [] method = MODE_AUTOING -> BitOr(WithNibble(row[2], 1, 0), 259)
      [] method = AIR_OFF -> WithNibble(row[1], 1, 0)
      [] method = AIR_ON -> WithNibble(row[1], 1, 1)
      [] OTHER -> WordMod - 1

\* The register of the row a method changes; an unknown method changes none.
DaikinPlace(method) ==
    CASE method \in Temperatures -> 3
      [] method \in MODE_FANING..MODE_AUTOING -> 2
      [] method \in (SWING_AUTO..SWING_BOTH) \cup (FAN_AUTO..FAN_LOW) \cup {AIR_OFF, AIR_ON} -> 1
      [] OTHER -> 0

DaikinOffset == [temperature |-> 2, mode |-> 1, swing |-> 0, fan |-> 0, switch |-> 0]

\* get_daikin_write_register_addr (42001 - 40001)
DaikinRegister(unit) == unit * 3 + 2000

\* daikin_dta116a621_set_temperature, _mode, _swing, _fan and _switch: they differ in
\* the offset, and the mode has no automatic fan.
DaikinSet(m, ha, table, f) ==
    LET value == DaikinValue(m.method, m.value, table[m.unit])
        place == DaikinPlace(m.method)
        quiet == ha = "wait_init" \/ (m.call = "mode" /\ m.method = FAN_AUTO)
        none(frame) == [frame |-> frame, words |-> <<>>, table |-> table]
    IN  CASE quiet -> none(Quiet(f))
          [] ~quiet /\ m.unit > 63 -> none(Refused(f, WRITE_REGISTER))
          [] OTHER ->
                [frame |-> [code |-> WRITE_REGISTER, len |-> 1,
                            reg |-> DaikinRegister(m.unit) + DaikinOffset[m.call]],
                 words |-> <<Swapped(value)>>,
                 table |-> IF place = 0 THEN table
                           ELSE [table EXCEPT ![m.unit][place] = value]]

\* daikin_dta116a621_get_device_info_send
DaikinInfo(ha, f) ==
    CASE ha = "wait_init" -> [code |-> READ_INPUT, len |-> 1, reg |-> 0]
      [] ha = "wait_connect" -> [code |-> READ_REGISTERS, len |-> 4, reg |-> 1]
      [] OTHER -> Quiet(f)

\* The connection map of daikin_dta116a621_get_device_info_handle: bit j of word i is
\* for machine i * j, the test of the bit takes all higher bits with it, and the last
\* (i, j) of a machine prevails.
DaikinConnected(words, old) ==
    [k \in 0..63 |->
       LET at == {i \in 0..3 : \E j \in 0..7 : i * j = k}
           i == CHOOSE i \in at : \A h \in at : h <= i
           j == CHOOSE j \in 0..7 : i * j = k /\ \A h \in 0..7 : i * h = k => h <= j
       IN  IF at = {} THEN old[k] ELSE (words[i + 1] \div (2 ^ j)) # 0]

-----------------------------------------------------------------------------
(* Hitachi: four write registers and six read registers per unit, no table *)

\* The register of the unit and the value of it; none for what it cannot do.
HitachiPlace(method) ==
    CASE method \in 18..30 -> <<1, IF method = 18 THEN 19 ELSE method>>
      [] method \in {FAN_AUTO, FAN_MIDDLE} -> <<3, 2>>
      [] method = FAN_HIGH -> <<3, 1>>
      [] method = FAN_LOW -> <<3, 4>>
      [] method = MODE_FANING -> <<2, 4>>
      [] method = MODE_HEATING -> <<2, 8>>
      [] method = MODE_COOLING -> <<2, 1>>
      [] method \in {MODE_DRYING, MODE_AUTOING} -> <<2, 2>>
      [] method = AIR_OFF -> <<0, 0>>
      [] method = AIR_ON -> <<0, 1>>
      [] OTHER -> <<>>

\* hitachi_vrv_manager_send_package_handle; for three swings it returns 1 with
\* nothing to do, and 0 for the methods it does not know.
HitachiSet(m, f) ==
    LET place == HitachiPlace(m.method)
    IN  CASE m.unit > 127 -> [frame |-> Refused(f, WRITE_REGISTER), words |-> <<>>]
          [] m.unit <= 127 /\ place = <<>> ->
                [frame |-> [Quiet(f) EXCEPT !.len = IF m.method \in 41..43 THEN 1 ELSE 0],
                 words |-> <<>>]
          [] OTHER -> [frame |-> [code |-> WRITE_REGISTER, len |-> 1,
                                  reg |-> 4000 + m.unit * 4 + place[1]],
                       words |-> <<Swapped(place[2])>>]

\* hitachi_vrv_manager_get_device_info_send
HitachiInfo(m) == [code |-> READ_REGISTERS, len |-> 6, reg |-> m.unit * 6]

-----------------------------------------------------------------------------
(* Johnson Controls: a mask of units and two status words, in one write *)

JohnsonRow == <<2, 1049>>                  \* 0x0002, 0x0419

\* The status words a method leaves: bits are only ever added.
JohnsonStatus(method, row) ==
    LET low(v) == <<BitOr(row[1], v), row[2]>>
        high(v) == <<row[1], BitOr(row[2], v)>>
    IN  CASE method \in (18..30) \ {21} -> high(method)
          [] method \in 41..43 -> low(2)
          [] method \in {SWING_BOTH, AIR_OFF} -> row
          [] method = FAN_AUTO -> high(1024)
          [] method = FAN_HIGH -> high(768)
          [] method = FAN_MIDDLE -> high(512)
          [] method = FAN_LOW -> high(256)
          [] method = MODE_FANING -> low(768)
          [] method = MODE_HEATING -> low(1024)
          [] method = MODE_COOLING -> low(256)
          [] method \in {MODE_DRYING, MODE_AUTOING, AIR_ON} -> low(512)
          [] OTHER -> <<>>

\* johnson_controls_vrv_send_package_handle: the mask word of the unit's group keeps
\* what the buffer held, shifted, and the other three are cleared, also for a method
\* that is not known.
JohnsonSet(m, table, buffer, f) ==
    LET group == 3 - (m.unit \div 16)
        mask == [w \in 1..4 |-> IF w = group + 1
                                THEN (buffer[w] * (2 ^ (m.unit % 16))) % WordMod ELSE 0]
        status == JohnsonStatus(m.method, table[m.unit])
    IN  CASE m.unit > 63 ->
                [frame |-> Refused(f, WRITE_REGISTERS), words |-> <<>>, table |-> table]
          [] m.unit <= 63 /\ status = <<>> ->
                [frame |-> Quiet(f), words |-> mask, table |-> table]
          [] OTHER ->
                [frame |-> [code |-> WRITE_REGISTERS, len |-> 6, reg |-> 3000],
                 words |-> mask \o status, table |-> [table EXCEPT ![m.unit] = status]]

\* johnson_controls_vrv_get_device_info_send
JohnsonInfo(m) == [code |-> READ_REGISTERS, len |-> 16, reg |-> m.unit * 16 + 500]
=============================================================================
