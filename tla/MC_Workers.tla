----------------------------- MODULE MC_Workers -----------------------------
(***************************************************************************)
(* The protocol workers side by side, for TLC: general, modbus with one    *)
(* Daikin adapter, modbus with machines of all makes, bacnet, the exchanges*)
(* of the general protocol byte by byte, and the thread of a custom bus:   *)
(* one with room in its semaphore for every message, two writers and waits *)
(* that may be interrupted, and one whose semaphore is full after one post,*)
(* with a single writer.  They are threads that share nothing, so a        *)
(* behaviour is one worker's, chosen at the start; variables it does not   *)
(* have stay put.                                                          *)
(***************************************************************************)
EXTENDS ModbusWorker, BacnetRequests, MC_CustomBus, TLC

CONSTANTS
    Unused,             \* no value
    OnlyWriter,         \* the writer of the custom bus whose semaphore is full
    m1, m2, m3, m4      \* the machines of the exchanges

VARIABLES
    worker,
    error, passes,                                                          \* of general
    arg, i, rid, Error_Detected, copied, read_access_data, givenUp,         \* of bacnet
    script, at, handle, coming, tty, info, frames, faults                   \* of the exchanges

-----------------------------------------------------------------------------
(* The messages of the general worker: sends, reply, waits, retransmission *)

Insistent == [sends |-> TRUE, reply |-> TRUE, waits |-> TRUE, retransmission |-> 4]
GeneralKinds == {
    Insistent,
    [Insistent EXCEPT !.reply = FALSE, !.retransmission = 2],
    [Insistent EXCEPT !.waits = FALSE, !.retransmission = 2],
    [Insistent EXCEPT !.sends = FALSE],
    [Insistent EXCEPT !.retransmission = 0]}

(* of modbus *)
Modbus(d, c, m, v, u, r) ==
    [dev |-> d, call |-> c, method |-> m, value |-> v, unit |-> u, retransmission |-> r,
     broadcast |-> FALSE]
DaikinKinds == {
    Modbus("daikin", "info", AIR_INFO, 0, 0, 1),
    Modbus("daikin", "fan", FAN_HIGH, 0, 0, 2),
    Modbus("daikin", "switch", AIR_OFF, 0, 0, 1),
    Modbus("daikin", "mode", MODE_COOLING, 0, 0, 1),
    Modbus("daikin", "temperature", 10, 22, 1, 1)}
MixedKinds == {
    Modbus("daikin", "info", AIR_INFO, 0, 0, 2),
    Modbus("daikin", "switch", AIR_RESTART, 0, 1, 1),
    Modbus("daikin", "swing", SWING_UP_DOWN, 0, 0, 1),
    Modbus("daikin", "mode", FAN_AUTO, 0, 1, 1),
    Modbus("daikin", "fan", FAN_LOW, 0, 70, 1),
    Modbus("hitachi", "set", AIR_ON, 0, 5, 3),
    Modbus("hitachi", "set", SWING_AUTO, 0, 5, 3),
    Modbus("hitachi", "info", AIR_INFO, 0, 5, 0),
    Modbus("johnson", "set", AIR_ON, 0, 17, 1),
    Modbus("johnson", "set", 21, 0, 17, 1),
    Modbus("johnson", "info", AIR_INFO, 0, 17, 1),
    Modbus("other", "any", 1, 1, 0, 2),
    [Modbus("other", "any", 3, 2, 0, 1) EXCEPT !.broadcast = TRUE],
    Modbus("other", "any", 13, 1, 0, 1),
    Modbus("none", "any", 0, 0, 0, 1)}

(* of bacnet *)
Bacnet(c, m, a) == [call |-> c, method |-> m, mac |-> a]
BacnetKinds == {
    Bacnet("set", 18, 17), Bacnet("set", SWING_UP_DOWN, 18), Bacnet("set", FAN_MIDDLE, 17),
    Bacnet("set", MODE_COOLING, 17), Bacnet("set", AIR_ON, 19), Bacnet("set", AIR_RESTART, 17),
    Bacnet("info", AIR_INFO, 17), Bacnet("info", AIR_INFO, 18), Bacnet("info", AIR_INFO, 40),
    Bacnet("none", 0, 17)}

(* and of the exchanges: a make, a machine, a method, an address and a value *)
Msg(d, id, m, a, v) ==
    [dev |-> d, id |-> id, method |-> m, address |-> a, value |-> v, broadcast |-> FALSE,
     reply |-> TRUE, retransmission |-> 2]
BroadcastOrNot(m) == {<<m>>, <<[m EXCEPT !.broadcast = TRUE]>>}
Tells(t, h, p, c) == [temp |-> t, humidity |-> h, pm2_5 |-> p, percent |-> c]
Truths == m1 :> Tells(25, 50, 300, 0) @@ m2 :> Tells(13, 60, 100, 0)
          @@ m3 :> Tells(0, 0, 0, 40) @@ m4 :> Tells(0, 0, 0, 0)

PanasonicScripts ==
    {<<Msg("panasonic", m4, m, <<a>>, 0)>> :
        m \in {18, 25, 30} \cup (41..44) \cup (51..54) \cup (61..65) \cup {10, 71, 72, 73, 81},
        a \in {1, 255}}
AokeScripts ==
    UNION {BroadcastOrNot(Msg("aoke", m4, m, <<3, 254, 9>>, v)) : m \in 101..105, v \in {0, 100}}
DoyaScripts ==
    UNION {BroadcastOrNot(Msg("doya", m3, m, a, v)) :
        m \in 101..106, v \in {0, 100}, a \in {<<254, 254>>, <<3, 0>>, <<7>>}}
HelperScripts ==
    {<<[Msg("helper", m3, h, a, v) EXCEPT !.reply = FALSE]>> :
        h \in {"open", "close", "stop", "percent", "delete_track", "refactory", "set_addr",
               "set_direction", "set_handle_enable", "set_switch_passive",
               "set_switch_active", "read_percent", "read_version"},
        a \in {<<254, 254>>}, v \in {0, 7}}
LoreleyScripts == {<<Msg("loreley", m1, m, <<1>>, 0)>> : m \in 201..204}
PairScripts == {
    <<Msg("loreley", m1, FRESH_INFO, <<1>>, 0), Msg("loreley", m2, FRESH_INFO, <<2>>, 0)>>,
    <<Msg("loreley", m1, FRESH_INFO, <<1>>, 0), Msg("loreley", m1, FRESH_ON, <<1>>, 0)>>,
    <<Msg("loreley", m1, FRESH_OFF, <<1>>, 0), Msg("loreley", m1, FRESH_INFO, <<1>>, 0)>>,
    <<Msg("doya", m3, CURTAIN_INFO, <<254, 1>>, 0), Msg("doya", m3, CURTAIN_OPEN, <<254, 1>>, 0)>>,
    <<Msg("doya", m3, CURTAIN_SET_PERCENT, <<254, 1>>, 40),
      Msg("doya", m3, CURTAIN_INFO, <<254, 1>>, 0)>>}
AllScripts ==
    PanasonicScripts \cup AokeScripts \cup DoyaScripts \cup HelperScripts
    \cup LoreleyScripts \cup PairScripts

-----------------------------------------------------------------------------
Gen == INSTANCE GeneralWorker WITH
    Kinds <- GeneralKinds, MaxMsgs <- 3, MaxRetrans <- 3, UintMod <- 5, MaxInterrupts <- 1
ASSUME GeneralMessagesFit == Gen!MessagesFit

\* "daikin" is the worker this module extends, with Kinds as the .cfg says.
Mixed == INSTANCE ModbusWorker WITH
    Kinds <- MixedKinds, MaxMsgs <- 2, UintMod <- 4, MaxInterrupts <- 1, Garbage <- {1}
Bac == INSTANCE BacnetWorker WITH
    Kinds <- BacnetKinds, UnitIds <- {17, 18}, MaxMsgs <- 2, MaxGivenUp <- 1,
    MaxInterrupts <- 1
ASSUME BacnetMessagesFit == Bac!MessagesFit
X == INSTANCE GeneralExchange WITH
    Scripts <- AllScripts, Truth <- Truths, Mtu <- 20, Pieces <- {1, 6, 12}, Garbage <- {0, 170},
    Flips <- {1, 128}, MaxFaults <- 1

\* "custom" is the bus this module extends.
Full == INSTANCE CustomBus WITH SemMax <- 1, MaxEarly <- 0

generalOnly == <<error, passes, answered>>
modbusOnly == <<frame, done, rounds, buffer_len, filled, tries, dvars, slaves>>
bacnetOnly == <<arg, i, wid, rid, success, Error_Detected, copied, read_access_data, tsm, sent,
                givenUp>>
exchangeOnly == <<script, at, handle, coming, tty, info, frames, faults>>
protocolVars == <<vars, generalOnly, bacnetOnly, exchangeOnly>>
allvars == <<worker, protocolVars, stackvars>>

NoModbus ==
    /\ frame = Unused /\ done = Unused /\ rounds = Unused /\ buffer_len = Unused
    /\ filled = Unused /\ tries = Unused /\ ha = Unused /\ connected = Unused
    /\ daikin = Unused /\ johnson = Unused /\ wanted = Unused /\ slaves = Unused
NoBacnet ==
    /\ arg = Unused /\ i = Unused /\ rid = Unused /\ Error_Detected = Unused
    /\ copied = Unused /\ read_access_data = Unused /\ givenUp = Unused
    /\ NoneOpen
NoExchange ==
    /\ script = Unused /\ at = Unused /\ handle = Unused /\ coming = Unused
    /\ tty = Unused /\ info = Unused /\ frames = Unused /\ faults = Unused
NoQueue ==
    /\ queue = <<>> /\ asks = <<>> /\ posting = {} /\ queue_sem = 0 /\ popped = <<>>
    /\ interrupts = 0

QueueWorkersInit ==
    \/ /\ worker = "general" /\ Gen!Init
       /\ retval = Unused /\ buffer = Unused /\ NoModbus /\ NoBacnet /\ NoExchange
    \/ /\ worker = "daikin" /\ Init
       /\ error = Unused /\ passes = Unused /\ answered = Unused /\ NoBacnet /\ NoExchange
    \/ /\ worker = "mixed" /\ Mixed!Init
       /\ error = Unused /\ passes = Unused /\ answered = Unused /\ NoBacnet /\ NoExchange
    \/ /\ worker = "bacnet" /\ Bac!Init
       /\ left = Unused /\ error = Unused /\ passes = Unused /\ buffer = Unused
       /\ NoModbus /\ NoExchange
    \/ /\ worker = "exchange" /\ X!Init
       /\ passes = Unused /\ answered = Unused /\ retval = Unused
       /\ NoQueue /\ NoModbus /\ NoBacnet
    \/ /\ worker \in {"custom", "full custom"}
       /\ pc = "wait" /\ left = Unused /\ error = Unused /\ passes = Unused
       /\ answered = Unused /\ retval = Unused /\ buffer = Unused
       /\ NoQueue /\ NoModbus /\ NoBacnet /\ NoExchange

WorkersInit == QueueWorkersInit /\ StackInit

Modbusless == UNCHANGED <<modbusOnly, retval, buffer>>
Generalless == UNCHANGED generalOnly

WorkerStep ==
    \/ worker = "general" /\ Gen!Worker /\ Modbusless /\ UNCHANGED <<bacnetOnly, exchangeOnly>>
    \/ worker = "daikin" /\ Worker /\ Generalless /\ UNCHANGED <<bacnetOnly, exchangeOnly>>
    \/ worker = "mixed" /\ Mixed!Worker /\ Generalless /\ UNCHANGED <<bacnetOnly, exchangeOnly>>
    \/ /\ worker = "bacnet" /\ Bac!Worker
       /\ UNCHANGED <<left, error, passes, buffer, modbusOnly, exchangeOnly>>

\* The thread of a custom bus, and a call that has added its node.
BusStep ==
    \/ worker = "custom" /\ BusThread
    \/ worker = "full custom" /\ Full!BusThread
CallEnds(w) ==
    \/ worker = "custom" /\ (Post(w) \/ Undo(w))
    \/ worker = "full custom" /\ (Full!Post(w) \/ Full!Undo(w))
CustomStep ==
    \/ BusStep
    \/ worker = "custom" /\ (WaitSignalled \/ \E w \in Writers : Writer(w))
    \/ worker = "full custom" /\ Full!Writer(OnlyWriter)

\* Only the general worker has more than one producer.
One == CHOOSE p \in Producers : TRUE

\* What the workers do not do: the producers, the stack's timer, and the exchanges,
\* where nothing has to be fair.
ProducerStep(p) ==
    /\ worker # "general" => p = One
    /\ \/ worker = "general" /\ (Gen!Produce(p) \/ Gen!PostSem(p))
       \/ worker = "daikin" /\ (Produce(p) \/ PostSem(p))
       \/ worker = "mixed" /\ (Mixed!Produce(p) \/ Mixed!PostSem(p))
       \/ worker = "bacnet" /\ (Bac!Produce(p) \/ Bac!PostSem(p))
    /\ UNCHANGED <<wvars, dvars, slaves, generalOnly, bacnetOnly, exchangeOnly>>
TimerStep ==
    /\ worker = "bacnet" /\ Bac!TsmGivesUp
    /\ UNCHANGED <<left, error, passes, buffer, modbusOnly, exchangeOnly>>
ExchangeStep ==
    /\ worker = "exchange" /\ X!Next
    /\ UNCHANGED <<qvars, passes, answered, retval, modbusOnly, bacnetOnly>>

WorkersNext ==
    /\ \/ /\ \/ WorkerStep \/ TimerStep \/ ExchangeStep
             \/ \E p \in Producers : ProducerStep(p)
          /\ UNCHANGED stackvars
       \/ CustomStep /\ UNCHANGED protocolVars
    /\ UNCHANGED worker

\* A worker runs when it can, a producer that has put a message posts, and so does a
\* writer of a custom bus, or it takes its node back.
WorkersSpec ==
    /\ WorkersInit /\ [][WorkersNext]_allvars
    /\ WF_allvars(WorkerStep /\ UNCHANGED <<worker, stackvars>>)
    /\ \A p \in Producers :
         WF_allvars(p \in posting /\ ProducerStep(p) /\ UNCHANGED <<worker, stackvars>>)
    /\ WF_allvars(BusStep /\ UNCHANGED <<worker, protocolVars>>)
    /\ \A w \in Writers : WF_allvars(CallEnds(w) /\ UNCHANGED <<worker, protocolVars>>)

-----------------------------------------------------------------------------
\* The bus thread of the custom protocol keeps SemCountsNodes, EmptyListMeansInterrupt,
\* HandlesOldestLiveNode, BusHeldBound, ResendsOnlyFailures, EventuallyFreed and
\* PromiseKept as CustomBus states them.

\* Whichever worker modbus messages go to keeps AttemptsBounded, LengthTellsFresh,
\* RepeatsOnlyFailures and CatchesUp as ModbusWorker states them.

\* The general worker sends a message no more often than its Limit, and again only when an
\* answer was expected and did not come (GeneralWorker).
RetransmitsWithinBounds ==
    [][worker = "general" => Gen!PassesBounded' /\ Gen!RepeatIsDue]_allvars

\* The bookkeeping of BACnet transactions and arguments is as WritesAreAccounted and
\* AsksWhatIsMeant (BacnetRequests) say.  Other workers open no transaction and send no
\* request.

\* The frames of the general protocol and what its answers are taken for
\* (GeneralExchange).
FramesAreWellFormed == worker = "exchange" => X!FramesAreWellFormed
RetrySendsSameFrame == worker = "exchange" => X!RetrySendsSameFrame
InfoFromIntactAnswer == [][worker = "exchange" => X!BelievesIntact]_allvars
=============================================================================
