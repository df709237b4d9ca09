---------------------------- MODULE DeviceFrames ----------------------------
(***************************************************************************)
(* The codecs of the devices on the general protocol: the Panasonic air    *)
(* conditioner, the Loreley fresh air machine, and the Aoke and Doya       *)
(* curtains.  A send handler gives the frame it leaves in the package      *)
(* buffer, Refuse for an error code, or no bytes at all; a receive handler*)
(* gives what becomes of an answer.  Bytes are 0..255.                     *)
(***************************************************************************)
EXTENDS Methods, Sequences, SequencesExt, Bitwise

Refuse == <<-1>>
Total(s) == FoldSeq(LAMBDA b, sum : b + sum, 0, s)
FitsIn(frame, size) == IF Len(frame) > size THEN Refuse ELSE frame

-----------------------------------------------------------------------------
(* The aa..0d frames of Panasonic and Loreley *)

\* calculate_sum_check: the two's complement of the sum, in a byte.
SumCheck(s) == (256 - (Total(s) % 256)) % 256

\* Mutant: the start byte is summed as well.
AaFrameSumsStart(addr, cid, data) ==
    LET body == <<addr, cid, 96, Len(data)>> \o data
    IN  <<170>> \o body \o <<SumCheck(<<170>> \o body), 13>>

\* The frame of panasonnic_send_package and loreley_send_package: start, address,
\* command, 0x60, length, data, check, end.
AaFrame(addr, cid, data) ==
    LET body == <<addr, cid, 96, Len(data)>> \o data
    IN  <<170>> \o body \o <<SumCheck(body), 13>>

\* air_command_table, rows 0 to 14: the temperature, doubled.
PanasonicTemperature(method) == <<5, 0, 0, 2 * method, 0>>

\* The five bytes of air_command_table for a method, none for one without a command.
PanasonicCommand(method) ==
    CASE method \in 18..30 -> PanasonicTemperature(method)
      [] method \in 41..44 -> <<4, 0, (<<14, 4, 5, 3>>)[method - 40], 0, 0>>
      [] method \in 51..54 -> <<3, 0, (<<160, 112, 80, 48>>)[method - 50], 0, 0>>
      [] method \in 61..65 -> <<2, (<<96, 64, 48, 32, 0>>)[method - 60], 0, 0, 0>>
      [] method \in 71..72 -> <<1, method - 71, 0, 0, 0>>
      [] OTHER -> <<>>

\* panasonnic_send_package_handle: an unknown method gives no bytes.
PanasonicSend(h, size) ==
    LET data == PanasonicCommand(h.method)
    IN  CASE Len(h.address) # 1 -> Refuse
          [] Len(h.address) = 1 /\ h.method = AIR_INFO -> FitsIn(AaFrame(h.address[1], 2, <<>>), size)
          [] Len(h.address) = 1 /\ data # <<>> -> FitsIn(AaFrame(h.address[1], 3, data), size)
          [] OTHER -> <<>>

\* loreley_send_package_handle
LoreleySend(h, size) ==
    CASE Len(h.address) # 1 \/ h.method \notin {FRESH_ON, FRESH_OFF, FRESH_INFO} -> Refuse
      [] Len(h.address) = 1 /\ h.method = FRESH_INFO ->
            FitsIn(AaFrame(h.address[1], 34, <<>>), size)
      [] OTHER ->
            FitsIn(AaFrame(h.address[1], 35, <<1, IF h.method = FRESH_ON THEN 1 ELSE 0, 0, 0, 0>>),
                   size)

\* Mutant: the check is left out.
LoreleyFramed(s) == s[1] = 85 /\ s[Len(s)] = 13

\* Start, end and check of an answer; the check of one shorter than three bytes is made
\* over nothing.
LoreleyIntact(s) ==
    LET n == Len(s)
    IN  s[1] = 85 /\ s[n] = 13 /\ SumCheck(SubSeq(s, 2, n - 2)) = s[n - 1]

\* What loreley_recv_package_handle takes from the information.
LoreleyInfo(s) ==
    [temp |-> s[8], humidity |-> s[10], pm2_5 |-> s[12], error |-> s[15] # 0, runing |-> s[16] # 0]

-----------------------------------------------------------------------------
(* Aoke *)

\* get_check: the start byte is not in it.
XorOf(s) == FoldSeq(LAMBDA b, x : b ^^ x, 0, s)

\* The address aoke_send_package_handle leaves in the message.
AokeAddress(h) == IF h.broadcast THEN <<0, 255, 255>> ELSE h.address

\* aoke_send_package_handle: the information is asked of address 0.
AokeSend(h, size) ==
    LET data == CASE h.method = CURTAIN_OPEN -> AokeAddress(h) \o <<10, 238>>
                  [] h.method = CURTAIN_CLOSE -> AokeAddress(h) \o <<10, 221>>
                  [] h.method = CURTAIN_SET_PERCENT -> AokeAddress(h) \o <<221, h.value>>
                  [] h.method = CURTAIN_INFO -> <<0, 0, 0, 0, 0>>
                  [] OTHER -> <<>>
    IN  IF Len(h.address) # 3 \/ size < 7 \/ data = <<>> THEN Refuse
        ELSE <<154>> \o data \o <<XorOf(data)>>

-----------------------------------------------------------------------------
(* Doya *)

\* An entry of the tables crc_high and crc_low: eight steps of the polynomial 0xA001.
CrcEntry[c \in 0..65535, k \in 0..8] ==
    IF k = 0 THEN c
    ELSE CrcEntry[IF c % 2 = 1 THEN (c \div 2) ^^ 40961 ELSE c \div 2, k - 1]

\* modbus_crc16: low byte, then high byte.
Crc16(s) ==
    LET crc == FoldLeft(LAMBDA c, b : (c \div 256) ^^ CrcEntry[(c % 256) ^^ b, 8], 65535, s)
    IN  <<crc % 256, crc \div 256>>

\* struct package, an address with its low byte first
Package(cmd, address, command, data_addr, data) ==
    [cmd |-> cmd, address |-> address, command |-> command, data_addr |-> data_addr, data |-> data]

\* How many bytes of data a frame has.
DataSize(p) ==
    CASE p.cmd = "command" -> 0
      [] p.cmd \in {"percent", "read"} -> 1
      [] p.cmd = "address" -> 3
      [] p.cmd = "setting" -> IF p.command = 1 THEN 1 ELSE 2

\* send_package and doya_send_package: an address to be set may not have a byte that is 0
\* or 255.
DoyaFrame(p) ==
    LET body == <<85>> \o p.address \o <<p.command, p.data_addr>> \o SubSeq(p.data, 1, DataSize(p))
    IN  IF p.cmd = "address" /\ {p.data[2], p.data[3]} \cap {0, 255} # {} THEN Refuse
        ELSE body \o Crc16(body)

\* command and data_addr for a method; a reset sets neither, and its cmd is COMMAND_OPEN.
DoyaCommand(method) ==
    CASE method = CURTAIN_OPEN -> <<3, 1>>
      [] method = CURTAIN_CLOSE -> <<3, 2>>
      [] method = CURTAIN_SET_PERCENT -> <<3, 4>>
      [] method = CURTAIN_RESET -> <<0, 0>>
      [] method = CURTAIN_INFO -> <<1, 2>>

\* Low and high byte of the address in the frame.
DoyaAddress(h) == IF h.broadcast THEN <<0, 0>> ELSE <<h.address[2], h.address[1]>>

\* doya_send_package_handle: the length in a question is left 0.
DoyaSend(h, size) ==
    LET cmd == CASE h.method = CURTAIN_SET_PERCENT -> "percent"
                 [] h.method = CURTAIN_INFO -> "read"
                 [] OTHER -> "command"
        code == DoyaCommand(h.method)
        value == IF cmd = "percent" THEN h.value ELSE 0
    IN  IF Len(h.address) < 2 \/ h.method \notin 101..105 THEN Refuse
        ELSE FitsIn(DoyaFrame(Package(cmd, DoyaAddress(h), code[1], code[2], <<value>>)), size)

\* open_curtain_no_reply and its like command at once (the second byte of an address to be
\* set is any),
DoyaCommands(what, address, value, garbage) ==
    CASE what = "open" -> Package("command", address, 3, 1, <<>>)
      [] what = "close" -> Package("command", address, 3, 2, <<>>)
      [] what = "stop" -> Package("command", address, 3, 3, <<>>)
      [] what = "percent" -> Package("percent", address, 3, 4, <<value>>)
      [] what = "delete_track" -> Package("command", address, 3, 7, <<>>)
      [] what = "refactory" -> Package("command", address, 3, 8, <<>>)
      [] what = "set_addr" -> Package("address", address, 2, 0, <<2, value, garbage>>)

\* and these set and read; what they leave of their package unset is garbage.
DoyaSettings(what, address, value, garbage) ==
    CASE what = "set_direction" -> Package("setting", address, 2, 3, <<value, garbage>>)
      [] what = "set_handle_enable" -> Package("setting", address, 2, 4, <<value, garbage>>)
      [] what = "set_switch_passive" -> Package("setting", address, 2, 39, <<value, garbage>>)
      [] what = "set_switch_active" -> Package("setting", address, 2, 40, <<garbage, garbage>>)
      [] what = "read_percent" -> Package("read", address, 1, 2, <<garbage>>)
      [] what = "read_version" -> Package("read", address, 1, 254, <<garbage>>)

\* Do the last two bytes hold this check?
EndsIn(s, crc) == SubSeq(s, Len(s) - 1, Len(s)) = crc

=============================================================================
