-------------------------- MODULE GeneralExchange --------------------------
(***************************************************************************)
(* The exchanges of the general protocol, byte by byte: the retry loop of  *)
(* general.c with rs485_send_handle_frame and rs485_recv_handle_frame, the *)
(* codecs of DeviceFrames, the line and the machines on it.  The daemon    *)
(* reads whatever the port has received, once a pass, and nothing throws   *)
(* away what it has not read: an answer may come after the wait for it,    *)
(* come in pieces, or come damaged.                                        *)
(***************************************************************************)
EXTENDS DeviceFrames

CONSTANTS
    Scripts,    \* the messages handled, in order
    Truth,      \* what each machine has to tell: temperature, humidity, pm2_5, percent
    Mtu,        \* glb_config_general_work_package_mtu
    Pieces,     \* sizes of the first piece of an answer that comes in two
    Garbage,    \* what a byte that was never set may be
    Flips,      \* what a damaged byte is changed by
    MaxFaults   \* bound: answers cut or damaged

VARIABLES
    script, at, \* the messages, and the one in hand
    pc,
    handle,     \* its address and except_reply, which send handlers may change
    left,       \* retransmission
    error,
    buffer,     \* package_buffer, package_buffer_len bytes of it
    coming,     \* answers under way, oldest first
    tty,        \* bytes the port has received and the daemon has not read
    info,       \* set_read_device_information of each machine
    frames,     \* frames made for the message in hand (history)
    faults

ivars == <<script, at, handle>>
vars == <<ivars, pc, left, error, buffer, coming, tty, info, frames, faults>>

Msg == script[at]
Commands == {"open", "close", "stop", "percent", "delete_track", "refactory", "set_addr"}
Handle == [Msg EXCEPT !.address = handle.address]

Init ==
    /\ script \in Scripts /\ at = 1 /\ pc = "take"
    /\ handle = [address |-> <<>>, reply |-> FALSE]
    /\ left = 0 /\ error = FALSE /\ buffer = <<>> /\ coming = <<>> /\ tty = <<>>
    /\ info = [m \in DOMAIN Truth |-> <<>>]
    /\ frames = <<>> /\ faults = 0

-----------------------------------------------------------------------------
\* The next message of the queue.
Take ==
    /\ pc = "take" /\ at <= Len(script) /\ Msg.dev # "helper"
    /\ handle' = [address |-> Msg.address, reply |-> Msg.reply]
    /\ left' = Msg.retransmission
    /\ pc' = "send"
    /\ UNCHANGED <<script, at, error, buffer, coming, tty, info, frames, faults>>

\* A helper of doya.c instead, which makes its frame for another address, sends it at once
\* (rs485_send of doya.c lets it go) and looks at no answer.
Direct ==
    /\ pc = "take" /\ at <= Len(script) /\ Msg.dev = "helper"
    /\ \E garbage \in Garbage :
         LET made == IF Msg.method \in Commands
                     THEN DoyaCommands(Msg.method, Msg.address, Msg.value, garbage)
                     ELSE DoyaSettings(Msg.method, Msg.address, Msg.value, garbage)
         IN  frames' = IF DoyaFrame(made) = Refuse THEN <<>> ELSE <<DoyaFrame(made)>>
    /\ pc' = "pop"
    /\ UNCHANGED <<ivars, left, error, buffer, coming, tty, info, faults>>

SendHandle ==
    CASE Msg.dev = "panasonic" -> PanasonicSend(Handle, Mtu)
      [] Msg.dev = "loreley" -> LoreleySend(Handle, Mtu)
      [] Msg.dev = "aoke" -> AokeSend(Handle, Mtu)
      [] Msg.dev = "doya" -> DoyaSend(Handle, Mtu)

\* Mutant: Doya's address bytes are swapped in the message.
TouchedSwapped ==
    [address |-> IF Msg.dev = "doya" /\ Len(handle.address) >= 2 THEN DoyaAddress(Handle)
                 ELSE handle.address,
     reply |-> handle.reply]

\* What the send handlers leave in the message, a refusal or not: Aoke the broadcast
\* address, Doya that nothing answers when the low byte of the address is 0.
Touched ==
    [address |-> IF Msg.dev = "aoke" /\ Len(handle.address) = 3 THEN AokeAddress(Handle)
                 ELSE handle.address,
     reply |-> handle.reply /\ ~(/\ Msg.dev = "doya" /\ Len(handle.address) >= 2
                                 /\ DoyaAddress(Handle)[1] = 0)]

-----------------------------------------------------------------------------
(* The machines: outside the repository, as the receive handlers and the debug answer
   of loreley.c describe them *)

\* The answer of a machine to a frame that has reached it.
Reply(m) ==
    LET t == Truth[m.id]
        aa(cid, data) == LET body == <<m.address[1], cid, 1, Len(data)>> \o data
                         IN  <<85>> \o body \o <<SumCheck(body), 13>>
        crc(body) == body \o Crc16(body)
    IN  CASE m.dev = "loreley" /\ m.method = FRESH_INFO ->
                aa(34, <<1, 1, t.temp, 0, t.humidity, 0, t.pm2_5 \div 256, t.pm2_5 % 256, 0, 0, 0>>)
          [] m.dev = "loreley" /\ m.method # FRESH_INFO -> aa(35, <<>>)
          [] m.dev = "doya" /\ m.method = CURTAIN_INFO ->
                crc(<<85, m.address[2], m.address[1], 1, t.percent>>)
          [] m.dev = "doya" /\ m.method # CURTAIN_INFO ->
                crc(<<85, m.address[2], m.address[1]>> \o DoyaCommand(m.method))
          [] OTHER -> <<154, 0, 0, 0, 0, 0, 0>>

\* An answer, and more of the line's traffic, arrives at the port: whole, its first
\* piece, or with a byte damaged.
Arrive ==
    /\ coming # <<>>
    /\ LET a == Head(coming) IN
       \/ /\ tty' = tty \o a.bytes /\ coming' = Tail(coming)
          /\ UNCHANGED faults
       \/ /\ faults < MaxFaults /\ faults' = faults + 1 /\ ~a.cut
          /\ \E n \in Pieces :
               /\ n < Len(a.bytes)
               /\ tty' = tty \o SubSeq(a.bytes, 1, n)
               /\ coming' = <<[bytes |-> SubSeq(a.bytes, n + 1, Len(a.bytes)),
                               cut |-> TRUE]>> \o Tail(coming)
       \/ /\ faults < MaxFaults /\ faults' = faults + 1 /\ ~a.cut
          /\ \E k \in DOMAIN a.bytes, f \in Flips :
               tty' = tty \o [a.bytes EXCEPT ![k] = @ ^^ f]
          /\ coming' = Tail(coming)
    /\ UNCHANGED <<ivars, pc, left, error, buffer, info, frames>>

-----------------------------------------------------------------------------
\* rs485_send_handle_frame: a refusal gives the message up; otherwise the frame is
\* written, and a machine that hears it answers.
Send ==
    /\ pc = "send"
    /\ LET touched == Touched
           bytes == SendHandle
       IN  /\ handle' = touched
           /\ buffer' = bytes
           /\ IF bytes = Refuse
              THEN pc' = "pop" /\ error' = TRUE /\ UNCHANGED <<coming, frames>>
              ELSE /\ pc' = IF touched.reply THEN "recv" ELSE "end"
                   /\ error' = FALSE
                   /\ frames' = Append(frames, bytes)
                   /\ \/ UNCHANGED coming
                      \/ /\ bytes # <<>> /\ touched.reply
                         /\ coming' = Append(coming, [bytes |-> Reply(Msg), cut |-> FALSE])
    /\ UNCHANGED <<script, at, left, tty, info, faults>>

\* rs485_recv_handle_frame: nothing has arrived in time,
Timeout ==
    /\ pc = "recv" /\ tty = <<>>
    /\ error' = TRUE /\ pc' = "end"
    /\ UNCHANGED <<ivars, left, buffer, coming, tty, info, frames, faults>>

\* or what has arrived is read, as far as the buffer goes.
Read ==
    /\ pc = "recv" /\ tty # <<>>
    /\ LET n == IF Len(tty) < Mtu THEN Len(tty) ELSE Mtu
       IN  /\ buffer' = SubSeq(tty, 1, n)
           /\ tty' = SubSeq(tty, n + 1, Len(tty))
    /\ pc' = "parse"
    /\ UNCHANGED <<ivars, left, error, coming, info, frames, faults>>

\* A receive handler's verdict, and the information that goes with it.
Judged(bad) == pc' = "end" /\ error' = bad /\ UNCHANGED info
Learned(what) == pc' = "end" /\ error' = FALSE /\ info' = [info EXCEPT ![Msg.id] = what]
Parsed == UNCHANGED <<ivars, left, buffer, coming, tty, frames, faults>>

\* loreley_recv_package_handle
ParseLoreley ==
    /\ pc = "parse" /\ Msg.dev = "loreley"
    /\ CASE ~LoreleyIntact(buffer) -> Judged(TRUE)
         [] LoreleyIntact(buffer) /\ Msg.method # FRESH_INFO -> Judged(FALSE)
         [] OTHER -> IF Len(buffer) = 18 THEN Learned(LoreleyInfo(buffer)) ELSE Judged(TRUE)
    /\ Parsed

\* doya_recv_package_handle of a command: the check of a single byte runs off the
\* buffer.  Nothing else of the answer is looked at.
ParseDoyaCommand ==
    /\ pc = "parse" /\ Msg.dev = "doya" /\ Msg.method \in CURTAIN_OPEN..CURTAIN_SET_PERCENT
    /\ IF Len(buffer) = 1 THEN pc' = "crash" /\ UNCHANGED <<error, info>>
       ELSE Judged(~EndsIn(buffer, Crc16(SubSeq(buffer, 1, Len(buffer) - 2))))
    /\ Parsed

\* Of the information: the check compared with is never computed.
ParseDoyaInfo ==
    /\ pc = "parse" /\ Msg.dev = "doya" /\ Msg.method = CURTAIN_INFO
    /\ IF Len(buffer) = 7 /\ EndsIn(buffer, <<0, 0>>) THEN Learned([percent |-> buffer[5]])
       ELSE Judged(TRUE)
    /\ Parsed

\* Doya has no answer to a reset; aoke_recv_package_handle and panasonnic's look at nothing.
ParseOther ==
    /\ pc = "parse"
    /\ \/ Msg.dev = "doya" /\ Msg.method = CURTAIN_RESET /\ Judged(TRUE)
       \/ Msg.dev \in {"aoke", "panasonic"} /\ Judged(FALSE)
    /\ Parsed

\* while (-- retransmission && error)
EndOfPass ==
    /\ pc = "end"
    /\ left' = left - 1
    /\ pc' = IF left' # 0 /\ error THEN "send" ELSE "pop"
    /\ UNCHANGED <<ivars, error, buffer, coming, tty, info, frames, faults>>

\* The message is popped; with the last one the instance ends.
Drop ==
    /\ pc = "pop"
    /\ at' = at + 1 /\ pc' = "take" /\ frames' = <<>>
    /\ UNCHANGED <<script, handle, left, error, buffer, coming, tty, info, faults>>

Next ==
    \/ Take \/ Direct \/ Send \/ Timeout \/ Read \/ Arrive \/ ParseLoreley \/ ParseDoyaCommand
    \/ ParseDoyaInfo \/ ParseOther \/ EndOfPass \/ Drop

Spec == Init /\ [][Next]_vars

-----------------------------------------------------------------------------
(* Properties *)

IsByte(b) == b \in 0..255

\* The documented form of a frame, as a machine that gets it would check it: by the
\* description of the frame in panasonnic.c, the exclusive or of Aoke, and the CRC that
\* Doya's frames end in, which makes the CRC of the whole frame 0.
WellFormed(dev, s) ==
    CASE dev \in {"panasonic", "loreley"} ->
            /\ s[1] = 170 /\ s[4] = 96 /\ Len(s) = 7 + s[5] /\ s[Len(s)] = 13
            /\ Total(SubSeq(s, 2, Len(s) - 1)) % 256 = 0
      [] dev = "aoke" -> Len(s) = 7 /\ s[1] = 154 /\ XorOf(Tail(s)) = 0
      [] dev \in {"doya", "helper"} -> s[1] = 85 /\ Crc16(s) = <<0, 0>>

\* Every frame that is made is well formed, fits the buffer and consists of bytes,
\* for every method and address, in the first pass and in the later ones.
FramesAreWellFormed ==
    \A k \in DOMAIN frames : frames[k] # <<>> =>
        /\ \A b \in DOMAIN frames[k] : IsByte(frames[k][b])
        /\ Len(frames[k]) <= Mtu /\ WellFormed(Msg.dev, frames[k])

\* A message that is sent again is sent as the same frame, although the buffer has held
\* an answer meanwhile and the send handlers write into the message.
RetrySendsSameFrame == \A k \in DOMAIN frames : frames[k] = frames[1]

\* Are these bytes the whole of an intact answer to a message of the script?
Intact(s) == \E k \in DOMAIN script : script[k].reply /\ s = Reply(script[k])

\* What the daemon stores of a Loreley machine comes from a whole, intact answer: one that
\* was cut, damaged, or run together with another on the port is never believed.
BelievesIntact == info' # info /\ Msg.dev = "loreley" => Intact(buffer)
InfoFromIntactAnswer == [][BelievesIntact]_vars
=============================================================================
