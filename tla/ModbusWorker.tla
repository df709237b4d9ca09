---------------------------- MODULE ModbusWorker ----------------------------
(***************************************************************************)
(* The worker thread of the modbus protocol (protocol/modbus/modbus.c) with*)
(* the send and receive handlers of its devices (ModbusDevices) and their  *)
(* tables.  The slaves are outside: a request may be lost, its answer may  *)
(* be lost, or both arrive.  One buffer, taken from malloc, serves all     *)
(* messages; its first words are modelled.                                 *)
(***************************************************************************)
EXTENDS WorkQueue, ModbusDevices

CONSTANTS UintMod,     \* width of retransmission, made small
          Garbage      \* words malloc may leave in the buffer

\* dev: whose handlers the message has; "none" when it has no send handler, "other"
\* for handlers outside the repository, which may ask for another round.
KindType == [dev : {"daikin", "hitachi", "johnson", "other", "none"}, call : STRING,
             method : 0..255, value : -1..255, unit : 0..255,
             retransmission : 0..(UintMod - 1), broadcast : BOOLEAN]

VARIABLES
    left,       \* retransmission of the message in hand
    frame,      \* code, register and length the send handler has given
    done,       \* message->done
    rounds,     \* done_counts
    retval,     \* result of the last library call
    buffer,     \* the first six words of send_recv_buffer
    buffer_len,
    filled,     \* does the buffer hold an answer of this round (history)
    tries,      \* library calls made for the message in hand (history)
    ha,         \* glb_ha_status
    connected,  \* indoor_machine_connect_status
    daikin,     \* glb_daikin_hold_register_value of the units in use
    johnson,    \* indoor_status of the units in use
    wanted,     \* what was last commanded of each Daikin unit (history)
    slaves      \* registers written in the slaves

wvars == <<left, frame, done, rounds, retval, buffer, buffer_len, filled, tries>>
dvars == <<ha, connected, daikin, johnson, wanted>>
vars == <<qvars, pc, wvars, dvars, slaves>>

MTU == 512
MaxRounds == 3                          \* DO_SOMETHINGS_MAX_COUNTS
Units == {k.unit : k \in Kinds} \cap (0..63)

Setting == [power |-> 1, swing |-> 7, fan |-> 3, mode |-> 3, temp |-> 25]

Init ==
    /\ InitQueue
    /\ left = 0 /\ frame = [code |-> 0, len |-> 0, reg |-> 0]
    /\ done = TRUE /\ rounds = 0 /\ retval = 0
    /\ \E g \in Garbage : buffer = [w \in 1..6 |-> g]
    /\ buffer_len = 0 /\ filled = FALSE /\ tries = 0
    /\ ha = "wait_init" /\ connected = [k \in 0..63 |-> FALSE]
    /\ daikin = [u \in Units |-> DaikinRow(u)]
    /\ johnson = [u \in Units |-> JohnsonRow]
    /\ wanted = [u \in Units |-> Setting]
    /\ slaves = <<>>

-----------------------------------------------------------------------------
\* The message in its slot gets the buffer, and is taken to be done in one round.
Peek ==
    /\ Found("package")
    /\ left' = Ask.retransmission
    /\ frame' = [code |-> 0, len |-> 0, reg |-> 0]
    /\ buffer_len' = MTU /\ done' = TRUE /\ rounds' = MaxRounds
    /\ filled' = FALSE /\ tries' = 0 /\ retval' = 0
    /\ UNCHANGED <<buffer, dvars, slaves>>

\* Where message_process goes with a frame.
AfterPackage(f) ==
    /\ frame' = f
    /\ GoTo("package", IF f.len < 0 \/ f.code \notin Codes \ {DO_NOTHING} THEN "round" ELSE "try")
    /\ filled' = FALSE
    /\ UNCHANGED <<left, rounds, retval, buffer_len, tries, slaves>>

\* A round that gives up sets done; one with nothing to do leaves it.
GivesUp(f) == f.len < 0 \/ f.code \notin Codes

\* The buffer with its first words replaced.
Filled(words) == [w \in 1..6 |-> IF w <= Len(words) THEN words[w] ELSE buffer[w]]

\* The setting a method asks of a Daikin unit (history).
Commanded(old, m) ==
    CASE m.method \in Temperatures -> [old EXCEPT !.temp = m.value]
      [] m.method \in 41..44 -> [old EXCEPT !.swing = (<<2, 4, 0, 7>>)[m.method - 40]]
      [] m.method \in 51..54 -> [old EXCEPT !.fan = (<<3, 5, 3, 1>>)[m.method - 50]]
      [] m.method \in 61..65 -> [old EXCEPT !.mode = (<<0, 1, 2, 7, 3>>)[m.method - 60]]
      [] m.method \in 71..72 -> [old EXCEPT !.power = m.method - 71]
      [] OTHER -> old

\* Mutant: the row is kept only when the write is confirmed, which it never is here.
PackageDaikinForgets ==
    /\ pc = "package" /\ Ask.dev = "daikin" /\ Ask.call # "info"
    /\ LET s == DaikinSet(Ask, ha, daikin, frame)
       IN  /\ AfterPackage(s.frame)
           /\ done' = (GivesUp(s.frame) \/ done)
           /\ buffer' = Filled(s.words)
           /\ wanted' = IF s.words = <<>> THEN wanted
                        ELSE [wanted EXCEPT ![Ask.unit] = Commanded(@, Ask)]
    /\ UNCHANGED <<ha, connected, daikin, johnson>>

PackageDaikin ==
    /\ pc = "package" /\ Ask.dev = "daikin" /\ Ask.call # "info"
    /\ LET s == DaikinSet(Ask, ha, daikin, frame)
       IN  /\ AfterPackage(s.frame)
           /\ done' = (GivesUp(s.frame) \/ done)
           /\ buffer' = Filled(s.words)
           /\ daikin' = s.table
           /\ wanted' = IF s.words = <<>> THEN wanted
                        ELSE [wanted EXCEPT ![Ask.unit] = Commanded(@, Ask)]
    /\ UNCHANGED <<ha, connected, johnson>>

PackageJohnson ==
    /\ pc = "package" /\ Ask.dev = "johnson" /\ Ask.call # "info"
    /\ LET s == JohnsonSet(Ask, johnson, buffer, frame)
       IN  /\ AfterPackage(s.frame)
           /\ done' = (GivesUp(s.frame) \/ done)
           /\ buffer' = Filled(s.words)
           /\ johnson' = s.table
    /\ UNCHANGED <<ha, connected, daikin, wanted>>

PackageHitachi ==
    /\ pc = "package" /\ Ask.dev = "hitachi" /\ Ask.call # "info"
    /\ LET s == HitachiSet(Ask, frame)
       IN  /\ AfterPackage(s.frame)
           /\ done' = (GivesUp(s.frame) \/ done)
           /\ buffer' = Filled(s.words)
    /\ UNCHANGED dvars

\* The handlers that ask a device for its state.
PackageInfo ==
    /\ pc = "package" /\ Ask.call = "info" /\ Ask.dev \in {"daikin", "hitachi", "johnson"}
    /\ AfterPackage(CASE Ask.dev = "daikin" -> DaikinInfo(ha, frame)
                      [] Ask.dev = "hitachi" -> HitachiInfo(Ask)
                      [] Ask.dev = "johnson" -> JohnsonInfo(Ask))
    /\ UNCHANGED <<done, buffer, dvars>>

\* Handlers outside the repository give the code and the length that the message's
\* method and value stand for, or an error, and may ask for another round.  Without a
\* send handler the round gives up.
PackageOther ==
    /\ pc = "package" /\ Ask.dev \in {"other", "none"}
    /\ LET f == [code |-> Ask.method, reg |-> 7000,
                 len |-> IF Ask.dev = "none" THEN -1 ELSE Ask.value]
       IN  /\ AfterPackage(f)
           /\ \E again \in BOOLEAN : done' = (GivesUp(f) \/ (done /\ ~again))
    /\ UNCHANGED <<buffer, dvars>>

-----------------------------------------------------------------------------
Want == IF frame.code \in Singles THEN 1 ELSE frame.len
Reads == frame.code \in BitReads \cup WordReads

\* The registers a request of the message in hand writes, as the slave sees them.
Written ==
    CASE frame.code = WRITE_REGISTER -> {<<frame.reg, Swapped(buffer[1])>>}
      [] frame.code = WRITE_REGISTERS ->
            {<<frame.reg + i - 1, buffer[i]>> : i \in 1..(IF frame.len <= 6 THEN frame.len ELSE 6)}
      [] OTHER -> {}

Stored(old, pairs) ==
    [r \in DOMAIN old \cup {q[1] : q \in pairs} |->
        IF \E q \in pairs : q[1] = r THEN (CHOOSE q \in pairs : q[1] = r)[2] ELSE old[r]]

\* The library calls the two loops may have made, when all of them fail, by the end of the
\* round: as many as the message asks for, or all the values of the counter when it asks for
\* none, and all those values again for each further round, which starts at 0.
Budget ==
    (IF Ask.retransmission = 0 THEN UintMod ELSE Ask.retransmission)
    + (MaxRounds - rounds) * UintMod

\* Mutant: the loop looks at the counter alone.
TryAlways ==
    /\ pc = "try"
    /\ tries' = tries + 1 /\ left' = (left - 1) % UintMod
    /\ \E ok \in BOOLEAN :
          /\ retval' = IF ok THEN Want ELSE -1
          /\ GoTo("try", IF left' # 0 THEN "try" ELSE "answer")
          /\ slaves' = IF ok THEN Stored(slaves, Written) ELSE slaves
    /\ UNCHANGED <<frame, done, rounds, buffer, buffer_len, filled, dvars>>

\* Mutant: the counter is looked at before it is decremented.
TryOnceMore ==
    /\ pc = "try"
    /\ tries' = tries + 1 /\ left' = (left - 1) % UintMod
    /\ \E ok \in BOOLEAN :
          /\ retval' = IF ok THEN Want ELSE -1
          /\ GoTo("try", IF left # 0 /\ ~ok THEN "try" ELSE "answer")
    /\ UNCHANGED <<frame, done, rounds, buffer, buffer_len, filled, dvars, slaves>>

\* One library call of the do-while loop: the request reaches the slave or is lost;
\* when it does, the answer comes back or is lost.  A failed call gives -1 and leaves
\* the buffer alone.
Try ==
    /\ pc = "try"
    /\ tries' = tries + 1 /\ left' = (left - 1) % UintMod
    /\ \E reached, ok \in BOOLEAN :
          /\ ok => reached
          /\ retval' = IF ok THEN Want ELSE -1
          /\ GoTo("try", IF left' # 0 /\ ~ok THEN "try" ELSE "answer")
          /\ slaves' = IF reached THEN Stored(slaves, Written) ELSE slaves
          /\ filled' = ((ok /\ Reads) \/ filled)
          /\ IF ok /\ Reads
             THEN \E w \in {0, 1} :
                    buffer' = Filled([i \in 1..(IF Want <= 6 THEN Want ELSE 6) |-> w])
             ELSE UNCHANGED buffer
    /\ UNCHANGED <<frame, done, rounds, buffer_len, dvars>>

\* Mutant: every read is handed over as one that succeeded.
AnswerOne ==
    /\ GoTo("answer", IF Reads /\ ~Ask.broadcast THEN "handle" ELSE "round")
    /\ buffer_len' = IF Reads /\ ~Ask.broadcast THEN 1 ELSE buffer_len
    /\ UNCHANGED <<left, frame, done, rounds, retval, buffer, filled, tries, dvars, slaves>>

\* After the loop a read is handed over, whether it has succeeded or not: single bit
\* reads always with length 1, the others with the library's result.
Answer ==
    /\ GoTo("answer", IF Reads /\ ~Ask.broadcast THEN "handle" ELSE "round")
    /\ buffer_len' = IF ~Reads \/ Ask.broadcast THEN buffer_len
                     ELSE IF frame.code \in {1, 4} THEN 1 ELSE retval
    /\ UNCHANGED <<left, frame, done, rounds, retval, buffer, filled, tries, dvars, slaves>>

\* recv_handle: only the Daikin adapter's does something, and it does not look at the
\* length; there may be no recv_handle.
Handle ==
    /\ GoTo("handle", "round")
    /\ \/ /\ Ask.dev = "daikin" /\ ha = "wait_init"
          /\ ha' = IF buffer[1] = 1 THEN "wait_connect" ELSE ha
          /\ UNCHANGED connected
       \/ /\ Ask.dev = "daikin" /\ ha = "wait_connect"
          /\ ha' = "normal"
          /\ connected' = DaikinConnected(buffer, connected)
       \/ /\ Ask.dev # "daikin" \/ ha = "normal"
          /\ UNCHANGED <<ha, connected>>
    /\ UNCHANGED <<wvars, daikin, johnson, wanted, slaves>>

\* while(!(message->done) && --done_counts)
Round ==
    /\ rounds' = IF done THEN rounds ELSE rounds - 1
    /\ GoTo("round", IF ~done /\ rounds' # 0 THEN "package" ELSE "pop")
    /\ UNCHANGED <<left, frame, done, retval, buffer, buffer_len, filled, tries, dvars, slaves>>

Worker ==
    \/ (Idle /\ UNCHANGED <<wvars, dvars, slaves>>)
    \/ Peek \/ PackageDaikin \/ PackageJohnson \/ PackageHitachi \/ PackageInfo
    \/ PackageOther \/ Try \/ Answer \/ Handle \/ Round

Next == Worker \/ (Producing /\ UNCHANGED <<wvars, dvars, slaves>>)

Spec == Init /\ [][Next]_vars
FairSpec ==
    Spec /\ WF_vars(Worker)
         /\ \A p \in Producers : WF_vars(PostSem(p) /\ UNCHANGED <<wvars, dvars, slaves>>)

-----------------------------------------------------------------------------
(* Properties *)

\* The state has the types the code gives it.
ModbusTypeOK ==
    /\ QueueTypeOK
    /\ left \in 0..(UintMod - 1) /\ rounds \in 0..MaxRounds /\ done \in BOOLEAN
    /\ buffer \in [1..6 -> 0..(WordMod - 1)] /\ buffer_len \in -1..MTU
    /\ ha \in {"wait_init", "wait_connect", "normal"}
    /\ connected \in [0..63 -> BOOLEAN]
    /\ \A u \in Units : \A r \in 1..3 : daikin[u][r] \in 0..(WordMod - 1)

\* A message is sent to its slave no more often than its budget: as often as it asks, if that
\* is once at least.  The handlers of the repository need one round, others up to MaxRounds.
AttemptsBounded ==
    pc \in {"package", "try", "answer", "handle", "round"} =>
        /\ tries <= Budget
        /\ Ask.dev # "other" => rounds = MaxRounds

\* The request is repeated only when the call before it, in the same round, failed.
RepeatIsDue == tries' # tries /\ pc' = "try" => retval' # Want
RepeatsOnlyFailures == [][RepeatIsDue]_vars

\* What a receive handler is told of the length tells it whether the words in the
\* shared buffer are an answer to this message or what an earlier one has left.
LengthTellsFresh ==
    pc = "handle" /\ frame.code \in WordReads => (buffer_len > 0 <=> filled)

\* The register of a Daikin unit, from its documented number: 42001 onwards, three a
\* unit, where 40001 is register 0.
Documented(u) == (42001 - 40001) + 3 * u

\* The registers as the setting describes them.
Described(s) ==
    <<s.fan * 4096 + s.swing * 256 + 96 + s.power, 256 + s.mode, s.temp * 10>>

\* A register write that reaches a Daikin unit brings the unit, for what that register
\* holds, to all that has been commanded of it so far, also by commands whose own
\* write was lost, and touches no other unit.
WriteCatchesUp ==
    slaves' # slaves /\ Ask.dev = "daikin" /\ Ask.method # AIR_RESTART =>
        LET r == frame.reg
            k == r - Documented(Ask.unit) + 1
        IN  k \in 1..3 /\ slaves'[r] = Described(wanted[Ask.unit])[k]
CatchesUp == [][WriteCatchesUp]_vars

=============================================================================
