------------------------- MODULE ModbusWorkerProof -------------------------
(***************************************************************************)
(* Proofs about ModbusWorker, for any number of producers and messages, any*)
(* size of the queue, any width of retransmission and whatever malloc      *)
(* leaves in the buffer: the retry loop, the length the receive handlers   *)
(* are given, and the table that Daikin units are brought up to.           *)
(***************************************************************************)
EXTENDS ModbusWorker, WorkQueueProof

\* What the callers of the modbus driver hand in: the retransmission fits its variable, and
\* handlers outside the repository that read ask for one register at least or fail.
MessagesFit ==
    /\ UintMod \in Nat \ {0} /\ Kinds \subseteq KindType
    /\ \A k \in Kinds : k.dev = "other" => k.value # 0

\* The methods the Daikin driver registers with each of its setters, and units whose row of
\* the table has an initializer (DTA116A621.c:65).
MethodsOf ==
    [temperature |-> Temperatures, mode |-> MODE_FANING..MODE_AUTOING \cup {FAN_AUTO},
     swing |-> SWING_AUTO..SWING_BOTH, fan |-> FAN_AUTO..FAN_LOW,
     switch |-> AIR_OFF..AIR_RESTART]
DaikinMessagesFit ==
    \A k \in Kinds : k.dev = "daikin" =>
        /\ k.call \in DOMAIN MethodsOf \cup {"info"} /\ k.unit # 63
        /\ k.call # "info" => k.method \in MethodsOf[k.call]
        /\ k.call = "temperature" => k.value >= 0

Places == {"wait", "check", "package", "try", "answer", "handle", "round", "pop"}

\* What a send handler leaves for the frame: one that reads words asks for one at least.
GoodFrame(f) ==
    /\ DOMAIN f = {"code", "len", "reg"} /\ f.code \in Int /\ f.len \in Int
    /\ f.code \in WordReads /\ f.len >= 0 => f.code \in Singles \/ f.len >= 1

LoopTypes ==
    /\ left \in 0..(UintMod - 1) /\ done \in BOOLEAN /\ tries \in Nat /\ filled \in BOOLEAN
    /\ GoodFrame(frame)

\* A round is under way as long as a message is handled, and handlers of the repository
\* need but one.
Rounds ==
    /\ rounds \in 0..MaxRounds
    /\ Handling /\ pc # "pop" => rounds >= 1
    /\ Handling /\ Ask.dev # "other" => done /\ rounds = MaxRounds

\* Calls made and calls left stay in the budget, and where the counter starts at 0 there is
\* room for it to wrap.
TriesAddUp ==
    Handling => /\ tries + left <= Budget
                /\ pc \in {"package", "try"} /\ left = 0 => tries + UintMod <= Budget

\* A read of words asks for one at least, and its result is that number or -1.
ReadsSomething ==
    /\ pc = "try" => ~filled /\ frame.len >= 0
    /\ pc \in {"try", "answer"} /\ frame.code \in WordReads => Want >= 1
    /\ pc = "answer" /\ frame.code \in WordReads =>
          (retval = Want /\ filled) \/ (retval = -1 /\ ~filled)

IInv ==
    QueueInv /\ pc \in Places /\ LoopTypes /\ Rounds /\ TriesAddUp /\ ReadsSomething
    /\ LengthTellsFresh

-----------------------------------------------------------------------------
(* The frames of the send handlers *)

LEMMA KindFields ==
    ASSUME MessagesFit, NEW k \in Kinds
    PROVE  /\ k.retransmission \in 0..(UintMod - 1) /\ k.unit \in 0..255
           /\ k.method \in 0..255 /\ k.value \in -1..255 /\ k.broadcast \in BOOLEAN
           /\ k.dev \in {"daikin", "hitachi", "johnson", "other", "none"}
           /\ k.dev = "other" => k.value # 0
  BY DEF MessagesFit, KindType

LEMMA DaikinFrames ==
    ASSUME NEW m, NEW h, NEW table, NEW f, GoodFrame(f)
    PROVE  /\ GoodFrame(DaikinSet(m, h, table, f).frame) /\ GoodFrame(DaikinInfo(h, f))
           /\ DaikinSet(m, h, table, f).frame.code # WRITE_REGISTERS
           /\ DaikinInfo(h, f).code \notin {WRITE_REGISTER, WRITE_REGISTERS}
  BY DEF GoodFrame, DaikinSet, DaikinInfo, Quiet, Refused, WRITE_REGISTER, WRITE_REGISTERS,
         READ_INPUT, READ_REGISTERS, DO_NOTHING, WordReads, Singles

LEMMA HitachiFrames ==
    ASSUME NEW m, NEW f, GoodFrame(f)
    PROVE  GoodFrame(HitachiSet(m, f).frame) /\ GoodFrame(HitachiInfo(m))
  BY DEF GoodFrame, HitachiSet, HitachiInfo, Quiet, Refused, WRITE_REGISTER, READ_REGISTERS,
         DO_NOTHING, WordReads, Singles

LEMMA JohnsonFrames ==
    ASSUME NEW m, NEW table, NEW words, NEW f, GoodFrame(f)
    PROVE  GoodFrame(JohnsonSet(m, table, words, f).frame) /\ GoodFrame(JohnsonInfo(m))
  BY DEF GoodFrame, JohnsonSet, JohnsonInfo, Quiet, Refused, WRITE_REGISTERS, READ_REGISTERS,
         DO_NOTHING, WordReads, Singles

-----------------------------------------------------------------------------
(* The steps of a message *)

Package ==
    \/ PackageDaikin \/ PackageJohnson \/ PackageHitachi \/ PackageInfo \/ PackageOther

\* The budget is a number, and a further round adds all the values of the counter to it.
LEMMA BudgetFacts ==
    ASSUME MessagesFit, Ask \in Kinds, rounds \in 0..MaxRounds
    PROVE  /\ Budget \in Nat
           /\ rounds = MaxRounds =>
                Budget = IF Ask.retransmission = 0 THEN UintMod ELSE Ask.retransmission
           /\ Ask' = Ask /\ rounds' = rounds - 1 => Budget' = Budget + UintMod
  <1> DEFINE first == IF Ask.retransmission = 0 THEN UintMod ELSE Ask.retransmission
  <1>1. first \in Nat /\ UintMod \in Nat
    BY KindFields DEF MessagesFit
  <1>2. MaxRounds - rounds \in 0..3
    BY DEF MaxRounds
  <1>3. CASE rounds = 3
    BY <1>1, <1>3 DEF Budget, MaxRounds
  <1>4. CASE rounds = 2
    BY <1>1, <1>4 DEF Budget, MaxRounds
  <1>5. CASE rounds = 1
    BY <1>1, <1>5 DEF Budget, MaxRounds
  <1>6. CASE rounds = 0
    BY <1>1, <1>6 DEF Budget, MaxRounds
  <1>7. QED
    BY <1>3, <1>4, <1>5, <1>6 DEF MaxRounds

LEMMA InitInvariant == ASSUME MessagesFit, Init PROVE IInv
  <1>1. GoodFrame(frame)
    BY DEF Init, GoodFrame, WordReads
  <1>2. pc = "wait" /\ QueueInv
    BY QueueInit DEF Init, InitQueue
  <1>3. LoopTypes
    <2>1. left = 0 /\ done = TRUE /\ tries = 0 /\ filled = FALSE
      BY DEF Init
    <2>2. 0 \in 0..(UintMod - 1)
      BY DEF MessagesFit
    <2>3. QED BY <1>1, <2>1, <2>2 DEF LoopTypes
  <1>4. QED
    BY <1>2, <1>3
    DEF Init, MaxRounds, IInv, Places, Rounds, TriesAddUp, ReadsSomething, LengthTellsFresh, Handling

LEMMA PeekKeeps == ASSUME MessagesFit, IInv, Peek PROVE IInv'
  <1>1. pc = "check" /\ pc' = "package" /\ queue # <<>> /\ UNCHANGED qvars
        /\ left' = Ask.retransmission /\ done' = TRUE /\ filled' = FALSE /\ tries' = 0
        /\ frame' = [code |-> 0, len |-> 0, reg |-> 0] /\ rounds' = MaxRounds
    BY DEF Peek, Found, GoTo
  <1>2. QueueInv'
    BY <1>1, StepKeepsQueue DEF IInv
  <1>3. Ask' = Ask /\ Ask \in Kinds
    BY <1>1, SameMessage DEF IInv, QueueInv, QueueTypes, InOrder, InHand, Ask
  <1>4. Ask.retransmission \in 0..(UintMod - 1)
    BY <1>3, KindFields
  <1>5. LoopTypes'
    <2>1. GoodFrame(frame')
      BY <1>1 DEF GoodFrame, WordReads
    <2>2. QED BY <1>1, <1>4, <2>1 DEF LoopTypes
  <1>6. Rounds' /\ ReadsSomething' /\ LengthTellsFresh' /\ pc' \in Places
    BY <1>1 DEF MaxRounds, Rounds, ReadsSomething, LengthTellsFresh, Handling, Places
  <1>8. TriesAddUp'
    <2>1. Budget' = IF Ask.retransmission = 0 THEN UintMod ELSE Ask.retransmission
      BY <1>1, <1>3, <1>4 DEF Budget, MaxRounds, MessagesFit
    <2>2. QED BY <1>1, <1>4, <2>1 DEF TriesAddUp, MessagesFit
  <1>7. QED
    BY <1>2, <1>5, <1>6, <1>8 DEF IInv

\* A handler of the repository gives up or leaves done as it was, and what goes on to the
\* library has a length.
PackageLeaves ==
    /\ pc = "package" /\ UNCHANGED <<qvars, left, tries, rounds>> /\ filled' = FALSE
    /\ pc' \in {"round", "try"} /\ (pc' = "try" => frame'.len >= 0)
    /\ done' \in BOOLEAN /\ (Ask.dev # "other" /\ done => done')
    /\ GoodFrame(frame')

LEMMA FrameLeaves ==
    ASSUME NEW f, pc = "package", AfterPackage(f), GoodFrame(f), done' \in BOOLEAN,
           Ask.dev # "other" /\ done => done'
    PROVE  PackageLeaves
  <1>1. frame' = f /\ UNCHANGED <<qvars, left, tries, rounds>> /\ filled' = FALSE
        /\ pc' = IF f.len < 0 \/ f.code \notin Codes \ {DO_NOTHING} THEN "round" ELSE "try"
    BY DEF AfterPackage, GoTo
  <1>2. f.len \in Int
    BY DEF GoodFrame
  <1>3. QED
    BY <1>1, <1>2 DEF PackageLeaves

LEMMA PackageOutcome == ASSUME MessagesFit, IInv, Package PROVE PackageLeaves
  <1>1. ASSUME NEW f, pc = "package", AfterPackage(f), GoodFrame(f),
               done' = (GivesUp(f) \/ done)
        PROVE  PackageLeaves
    <2>1. done' \in BOOLEAN /\ (Ask.dev # "other" /\ done => done')
      BY <1>1
    <2>2. QED BY <1>1, <2>1, FrameLeaves
  <1>2. GoodFrame(frame) /\ done \in BOOLEAN
    BY DEF IInv, LoopTypes
  <1>3. Ask \in Kinds
    <2>1. Handling
      BY DEF Package, PackageDaikin, PackageJohnson, PackageHitachi, PackageInfo, PackageOther,
             Handling
    <2>2. QED BY <2>1, InHandIsNext DEF IInv
  <1>4. CASE PackageDaikin
    <2> DEFINE f == DaikinSet(Ask, ha, daikin, frame).frame
    <2>1. GoodFrame(f)
      BY <1>2, DaikinFrames
    <2>2. pc = "package" /\ AfterPackage(f) /\ done' = (GivesUp(f) \/ done)
      BY <1>4 DEF PackageDaikin
    <2>3. QED BY <1>1, <2>1, <2>2
  <1>5. CASE PackageJohnson
    <2> DEFINE f == JohnsonSet(Ask, johnson, buffer, frame).frame
    <2>1. GoodFrame(f)
      BY <1>2, JohnsonFrames
    <2>2. pc = "package" /\ AfterPackage(f) /\ done' = (GivesUp(f) \/ done)
      BY <1>5 DEF PackageJohnson
    <2>3. QED BY <1>1, <2>1, <2>2
  <1>6. CASE PackageHitachi
    <2> DEFINE f == HitachiSet(Ask, frame).frame
    <2>1. GoodFrame(f)
      BY <1>2, HitachiFrames
    <2>2. pc = "package" /\ AfterPackage(f) /\ done' = (GivesUp(f) \/ done)
      BY <1>6 DEF PackageHitachi
    <2>3. QED BY <1>1, <2>1, <2>2
  <1>7. CASE PackageInfo
    <2> DEFINE f == CASE Ask.dev = "daikin" -> DaikinInfo(ha, frame)
                      [] Ask.dev = "hitachi" -> HitachiInfo(Ask)
                      [] Ask.dev = "johnson" -> JohnsonInfo(Ask)
    <2>1. GoodFrame(f)
      BY <1>2, <1>7, DaikinFrames, HitachiFrames, JohnsonFrames DEF PackageInfo
    <2>2. pc = "package" /\ AfterPackage(f) /\ done' = done
      BY <1>7 DEF PackageInfo
    <2> HIDE DEF f
    <2>3. QED BY <1>2, <2>1, <2>2, FrameLeaves
  <1>8. CASE PackageOther
    <2> DEFINE f == [code |-> Ask.method, reg |-> 7000,
                     len |-> IF Ask.dev = "none" THEN -1 ELSE Ask.value]
    <2>1. Ask.method \in 0..255 /\ Ask.value \in -1..255 /\ (Ask.dev = "other" => Ask.value # 0)
      BY <1>3, KindFields
    <2>2. GoodFrame(f)
      BY <1>8, <2>1 DEF GoodFrame, PackageOther
    <2>3. PICK again \in BOOLEAN :
              pc = "package" /\ AfterPackage(f) /\ done' = (GivesUp(f) \/ (done /\ ~again))
      BY <1>8 DEF PackageOther
    <2>4. Ask.dev # "other" => GivesUp(f)
      BY <1>8 DEF PackageOther, GivesUp
    <2> HIDE DEF f
    <2>5. done' \in BOOLEAN /\ (Ask.dev # "other" => done')
      BY <2>3, <2>4
    <2>6. QED BY <2>2, <2>3, <2>5, FrameLeaves
  <1>9. QED
    BY <1>4, <1>5, <1>6, <1>7, <1>8 DEF Package

LEMMA PackageKeeps == ASSUME MessagesFit, IInv, Package PROVE IInv'
  <1>1. PackageLeaves
    BY PackageOutcome
  <1>2. Handling /\ queue # <<>> /\ Ask \in Kinds
    BY <1>1, InHandIsNext DEF PackageLeaves, Handling, IInv, QueueInv, InHandIsThere
  <1>3. QueueInv'
    BY <1>1, <1>2, StepKeepsQueue DEF PackageLeaves, IInv
  <1>4. Ask' = Ask
    BY <1>1, SameMessage DEF PackageLeaves
  <1>5. LoopTypes' /\ Rounds' /\ pc' \in Places
    BY <1>1, <1>2, <1>4 DEF PackageLeaves, IInv, LoopTypes, Rounds, Places
  <1>6. TriesAddUp'
    <2>1. Budget' = Budget /\ left' = left /\ tries' = tries
      BY <1>1, <1>4 DEF PackageLeaves, Budget
    <2>2. QED BY <1>1, <1>2, <2>1 DEF PackageLeaves, IInv, TriesAddUp
  <1>7. ReadsSomething' /\ LengthTellsFresh'
    BY <1>1 DEF PackageLeaves, ReadsSomething, LengthTellsFresh, GoodFrame, Want
  <1>8. QED
    BY <1>3, <1>5, <1>6, <1>7 DEF IInv

LEMMA Decrement ==
    ASSUME NEW n \in 0..(UintMod - 1), UintMod \in Nat \ {0}
    PROVE  /\ (n - 1) % UintMod \in 0..(UintMod - 1)
           /\ n >= 1 => (n - 1) % UintMod = n - 1
           /\ n = 0 => (n - 1) % UintMod = UintMod - 1
  OBVIOUS

LEMMA TryKeeps == ASSUME MessagesFit, IInv, Try PROVE IInv'
  <1>1. pc = "try" /\ UNCHANGED <<qvars, frame, done, rounds>> /\ tries' = tries + 1
        /\ left' = (left - 1) % UintMod
    BY DEF Try, GoTo
  <1>2. PICK ok \in BOOLEAN :
            /\ retval' = IF ok THEN Want ELSE -1
            /\ pc' = IF left' # 0 /\ ~ok THEN "try" ELSE "answer"
            /\ filled' = ((ok /\ Reads) \/ filled)
    BY DEF Try, GoTo
  <1>3. Handling /\ queue # <<>> /\ Ask \in Kinds
    BY <1>1, InHandIsNext DEF Handling, IInv, QueueInv, InHandIsThere
  <1>4. QueueInv' /\ pc' \in Places
    BY <1>1, <1>2, <1>3, StepKeepsQueue DEF IInv, Places
  <1>5. Ask' = Ask
    BY <1>1, SameMessage
  <1>6. left' \in 0..(UintMod - 1) /\ (left >= 1 => left' = left - 1)
        /\ (left = 0 => left' = UintMod - 1)
    BY <1>1, Decrement DEF IInv, LoopTypes, MessagesFit
  <1>7. LoopTypes' /\ Rounds'
    BY <1>1, <1>2, <1>3, <1>5, <1>6 DEF IInv, LoopTypes, Rounds
  <1>8. TriesAddUp'
    <2>1. Budget' = Budget /\ Budget \in Nat /\ UintMod \in Nat
      BY <1>1, <1>3, <1>5, BudgetFacts DEF Budget, IInv, Rounds, MessagesFit
    <2>2. /\ tries + left <= Budget /\ (left = 0 => tries + UintMod <= Budget)
          /\ tries \in Nat /\ left \in Nat
      BY <1>1, <1>3 DEF IInv, TriesAddUp, LoopTypes
    <2>3. tries' + left' <= Budget
      BY <1>1, <1>6, <2>1, <2>2
    <2>4. pc' \in {"package", "try"} => left' # 0
      BY <1>2
    <2>5. QED BY <2>1, <2>3, <2>4 DEF TriesAddUp
  <1>9. ReadsSomething' /\ LengthTellsFresh'
    <2>1. ~filled /\ frame.len >= 0 /\ (frame.code \in WordReads => Want >= 1)
      BY <1>1 DEF IInv, ReadsSomething
    <2>2. Want' = Want
      BY <1>1 DEF Want
    <2>3. QED BY <1>1, <1>2, <2>1, <2>2 DEF ReadsSomething, LengthTellsFresh, Reads
  <1>10. QED
    BY <1>4, <1>7, <1>8, <1>9 DEF IInv

LEMMA AnswerKeeps == ASSUME MessagesFit, IInv, Answer PROVE IInv'
  <1>1. pc = "answer" /\ UNCHANGED <<qvars, left, frame, done, rounds, retval, filled, tries>>
        /\ pc' \in {"handle", "round"} /\ (pc' = "handle" => Reads /\ ~Ask.broadcast)
        /\ buffer_len' = IF ~Reads \/ Ask.broadcast THEN buffer_len
                         ELSE IF frame.code \in {1, 4} THEN 1 ELSE retval
    BY DEF Answer, GoTo
  <1>2. Handling /\ queue # <<>> /\ Ask \in Kinds
    BY <1>1, InHandIsNext DEF Handling, IInv, QueueInv, InHandIsThere
  <1>3. QueueInv' /\ pc' \in Places
    BY <1>1, <1>2, StepKeepsQueue DEF IInv, Places
  <1>4. Ask' = Ask
    BY <1>1, SameMessage
  <1>5. LoopTypes' /\ Rounds' /\ TriesAddUp' /\ ReadsSomething'
    BY <1>1, <1>2, <1>4 DEF IInv, LoopTypes, Rounds, TriesAddUp, Budget, ReadsSomething
  <1>6. LengthTellsFresh'
    <2> SUFFICES ASSUME pc' = "handle", frame.code \in WordReads
                 PROVE  buffer_len' > 0 <=> filled
      BY <1>1 DEF LengthTellsFresh
    <2>1. buffer_len' = retval
      BY <1>1 DEF WordReads
    <2>2. Want >= 1 /\ ((retval = Want /\ filled) \/ (retval = -1 /\ ~filled))
      BY <1>1 DEF IInv, ReadsSomething
    <2>3. Want \in Int
      BY DEF IInv, LoopTypes, GoodFrame, Want
    <2>4. QED BY <2>1, <2>2, <2>3
  <1>7. QED
    BY <1>3, <1>5, <1>6 DEF IInv

LEMMA HandleKeeps == ASSUME MessagesFit, IInv, Handle PROVE IInv'
  <1>1. pc = "handle" /\ pc' = "round" /\ UNCHANGED <<qvars, wvars>>
    BY DEF Handle, GoTo
  <1>2. Handling /\ queue # <<>>
    BY <1>1 DEF Handling, IInv, QueueInv, InHandIsThere
  <1>3. QueueInv' /\ pc' \in Places
    BY <1>1, <1>2, StepKeepsQueue DEF IInv, Places
  <1>4. Ask' = Ask
    BY <1>1, SameMessage
  <1>5. QED
    BY <1>1, <1>2, <1>3, <1>4
    DEF wvars, IInv, LoopTypes, Rounds, TriesAddUp, Budget, ReadsSomething, LengthTellsFresh

LEMMA RoundKeeps == ASSUME MessagesFit, IInv, Round PROVE IInv'
  <1>1. pc = "round" /\ pc' \in {"package", "pop"} /\ (pc' = "package" => ~done)
        /\ UNCHANGED <<qvars, left, frame, done, filled, tries>>
        /\ rounds' = (IF done THEN rounds ELSE rounds - 1)
        /\ (pc' = "package" => rounds' # 0)
    BY DEF Round, GoTo
  <1>2. Handling /\ queue # <<>> /\ Ask \in Kinds
    BY <1>1, InHandIsNext DEF Handling, IInv, QueueInv, InHandIsThere
  <1>3. QueueInv' /\ pc' \in Places
    BY <1>1, <1>2, StepKeepsQueue DEF IInv, Places
  <1>4. Ask' = Ask
    BY <1>1, SameMessage
  <1>5. LoopTypes' /\ ReadsSomething' /\ LengthTellsFresh'
    BY <1>1, <1>2 DEF IInv, LoopTypes, ReadsSomething, LengthTellsFresh
  <1>6. Rounds'
    BY <1>1, <1>2, <1>4 DEF IInv, Rounds, MaxRounds, Handling
  <1>7. TriesAddUp'
    <2>1. /\ tries + left <= Budget /\ tries \in Nat /\ left \in Nat
          /\ Budget \in Nat /\ UintMod \in Nat
      BY <1>2, BudgetFacts DEF IInv, TriesAddUp, LoopTypes, Rounds, MessagesFit
    <2>2. CASE done
      <3>1. Budget' = Budget
        BY <1>1, <1>4, <2>2 DEF Budget
      <3>2. QED BY <1>1, <2>1, <2>2, <3>1 DEF TriesAddUp
    <2>3. CASE ~done
      <3>1. Budget' = Budget + UintMod
        BY <1>1, <1>2, <1>4, <2>3, BudgetFacts DEF IInv, Rounds
      <3>2. tries' + left' <= Budget' /\ (left' = 0 => tries' + UintMod <= Budget')
        BY <1>1, <2>1, <3>1
      <3>3. QED BY <3>2 DEF TriesAddUp
    <2>4. QED BY <2>2, <2>3 DEF IInv, LoopTypes
  <1>8. QED
    BY <1>3, <1>5, <1>6, <1>7 DEF IInv

LEMMA QueueStepKeeps ==
    ASSUME IInv, Idle \/ Producing, UNCHANGED wvars
    PROVE  IInv'
  <1>1. QueueInv'
    BY QueueStepsKeep DEF IInv
  <1>2. LoopTypes'
    BY DEF IInv, wvars, LoopTypes
  <1>3. CASE Producing
    <2>1. pc' = pc
      BY <1>3 DEF Producing, Produce, PostSem
    <2>2. Handling => Ask' = Ask
      BY <1>3, ProducingSameMessage DEF IInv
    <2>3. QED
      BY <1>1, <1>2, <2>1, <2>2
      DEF IInv, wvars, Rounds, TriesAddUp, Budget, ReadsSomething, LengthTellsFresh, Handling, Want
  <1>4. CASE Idle
    <2>1. pc' \in {"wait", "check"}
      BY <1>4 DEF Idle, Wait, WaitInterrupted, Nothing, Pop
    <2>2. QED
      BY <1>1, <1>2, <2>1
      DEF IInv, wvars, Rounds, TriesAddUp, ReadsSomething, LengthTellsFresh, Handling, Places
  <1>5. QED BY <1>3, <1>4

LEMMA NextKeeps == ASSUME MessagesFit, IInv, [Next]_vars PROVE IInv'
  <1>1. CASE UNCHANGED vars
    <2>1. Ask' = Ask
      BY <1>1, SameMessage DEF vars
    <2>2. QED
      BY <1>1, <2>1
      DEF vars, qvars, wvars, IInv, QueueInv, QueueTypes, InOrder, PostsBounded,
          PostsCoverQueue, InHandIsThere, Handling, LoopTypes, Rounds, TriesAddUp,
          Budget, ReadsSomething, LengthTellsFresh, Want
  <1>2. CASE Next
    BY <1>2, PeekKeeps, PackageKeeps, TryKeeps, AnswerKeeps, HandleKeeps, RoundKeeps,
       QueueStepKeeps DEF Next, Worker, Package
  <1>3. QED BY <1>1, <1>2

LEMMA AlwaysIInv == ASSUME MessagesFit PROVE Spec => []IInv
  <1>1. Init => IInv
    BY InitInvariant
  <1>2. IInv /\ [Next]_vars => IInv'
    BY NextKeeps
  <1>3. QED BY <1>1, <1>2, PTL DEF Spec

-----------------------------------------------------------------------------
\* No message is left in the ring without a post that will bring the modbus worker to it
\* (modbus.c:301).
THEOREM NoMessageForgotten == ASSUME MessagesFit PROVE Spec => []PostsCoverQueue
  <1>1. IInv => PostsCoverQueue
    BY DEF IInv, QueueInv
  <1>2. QED BY AlwaysIInv, <1>1, PTL

\* Messages are popped in the order they were put, each once (modbus.c:333).
THEOREM FirstInFirstOut == ASSUME MessagesFit PROVE Spec => []PoppedInOrder
  <1>1. IInv => PoppedInOrder
    BY QueueFollows DEF IInv
  <1>2. QED BY AlwaysIInv, <1>1, PTL

\* A message is sent to its slave at most as often as it asks (modbus.c:93), and one that asks
\* for none, or a further round that starts at 0, takes all the values of the counter and no
\* more; the handlers of the repository need one round.
THEOREM TriesAreBounded == ASSUME MessagesFit PROVE Spec => []AttemptsBounded
  <1>1. IInv => AttemptsBounded
    <2> SUFFICES ASSUME IInv, pc \in {"package", "try", "answer", "handle", "round"}
                 PROVE  tries <= Budget /\ (Ask.dev # "other" => rounds = MaxRounds)
      BY DEF AttemptsBounded
    <2>1. Handling /\ Ask \in Kinds
      BY InHandIsNext DEF Handling, IInv, QueueInv, InHandIsThere
    <2>2. tries + left <= Budget /\ tries \in Nat /\ left \in Nat /\ Budget \in Nat
      BY <2>1, BudgetFacts DEF IInv, TriesAddUp, LoopTypes, Rounds
    <2>3. QED BY <2>1, <2>2 DEF IInv, Rounds
  <1>2. QED BY AlwaysIInv, <1>1, PTL

\* The length that a receive handler of a word read is given says whether the buffer holds
\* an answer to this message or what an earlier one left (modbus.c:187, :210).
THEOREM LengthIsTelling == ASSUME MessagesFit PROVE Spec => []LengthTellsFresh
  <1>1. IInv => LengthTellsFresh
    BY DEF IInv
  <1>2. QED BY AlwaysIInv, <1>1, PTL

\* A request is repeated only when the call before it failed (modbus.c:93).
THEOREM RepeatsOnlyFailed == ASSUME MessagesFit PROVE Spec => RepeatsOnlyFailures
  <1>1. IInv /\ [Next]_vars => [RepeatIsDue]_vars
    <2> SUFFICES ASSUME IInv, Next, tries' # tries, pc' = "try"
                 PROVE  retval' # Want
      BY DEF RepeatIsDue
    <2>1. Try
      BY DEF Next, Worker, wvars, Peek, Found, PackageDaikin, PackageJohnson, PackageHitachi,
             PackageInfo, PackageOther, AfterPackage, Answer, Handle, Round, GoTo
    <2>2. frame.len >= 0 /\ frame.len \in Int
      BY <2>1 DEF Try, GoTo, IInv, ReadsSomething, LoopTypes, GoodFrame
    <2>3. QED BY <2>1, <2>2 DEF Try, GoTo, Want
  <1>2. QED BY AlwaysIInv, <1>1, PTL DEF Spec, RepeatsOnlyFailures

-----------------------------------------------------------------------------
(* What Daikin units are brought up to *)

\* What was commanded of a unit, in the fields of its registers.
SettingType ==
    [power : 0..1, swing : 0..15, fan : 0..15, mode : 0..15, temp : 0..255]

\* The row of a unit describes all that was commanded of it.
RowsDescribe ==
    \A u \in Units \ {63} :
        wanted[u] \in SettingType /\ daikin[u] = Described(wanted[u])
TablesAreFunctions ==
    /\ DOMAIN daikin = Units /\ DOMAIN wanted = Units
    /\ slaves = [r \in DOMAIN slaves |-> slaves[r]]
    /\ DOMAIN buffer = 1..6

\* A write to a Daikin unit in progress carries one register of its row.
WriteDescribes ==
    pc = "try" /\ Ask.dev = "daikin" =>
        /\ frame.code # WRITE_REGISTERS
        /\ frame.code = WRITE_REGISTER /\ Ask.method # AIR_RESTART =>
            /\ Ask.unit \in Units \ {63}
            /\ \E k \in 1..3 :
                 /\ frame.reg = Documented(Ask.unit) + k - 1
                 /\ buffer[1] = Swapped(Described(wanted[Ask.unit])[k])

DInv == TablesAreFunctions /\ RowsDescribe /\ WriteDescribes

\* The registers of a unit are made of fields that its methods replace one at a time.
\* Replacing one field of a described row leaves the others.
LEMMA Fields ==
    ASSUME NEW s \in SettingType, NEW n \in 0..15
    PROVE  /\ WithNibble(Described(s)[1], 256, n) = s.fan * 4096 + n * 256 + 96 + s.power
           /\ WithNibble(Described(s)[1], 4096, n) = n * 4096 + s.swing * 256 + 96 + s.power
           /\ WithNibble(Described(s)[1], 1, n) = s.fan * 4096 + s.swing * 256 + 96 + n
           /\ WithNibble(Described(s)[2], 1, n) = 256 + n
  <1> DEFINE f == s.fan
             g == s.swing
             p == s.power
             o == s.mode
  <1>1. f \in 0..15 /\ g \in 0..15 /\ p \in 0..1 /\ o \in 0..15
    BY DEF SettingType
  <1>2. Described(s)[1] = f * 4096 + g * 256 + 96 + p /\ Described(s)[2] = 256 + o
    BY DEF Described
  <1> HIDE DEF f, g, p, o
  <1>3. WithNibble(f * 4096 + g * 256 + 96 + p, 256, n) = f * 4096 + n * 256 + 96 + p
    BY <1>1 DEF WithNibble
  <1>4. WithNibble(f * 4096 + g * 256 + 96 + p, 4096, n) = n * 4096 + g * 256 + 96 + p
    BY <1>1 DEF WithNibble
  <1>5. WithNibble(f * 4096 + g * 256 + 96 + p, 1, n) = f * 4096 + g * 256 + 96 + n
    BY <1>1 DEF WithNibble
  <1>6. WithNibble(256 + o, 1, n) = 256 + n
    BY <1>1 DEF WithNibble
  <1>7. QED BY <1>2, <1>3, <1>4, <1>5, <1>6 DEF f, g, p, o

LEMMA Autoing == BitOr(256, 259) = 259
  BY DEF BitOr

\* The value each method writes, arm by arm.
LEMMA MethodValues ==
    ASSUME NEW v, NEW row
    PROVE  /\ DaikinValue(41, v, row) = WithNibble(row[1], 256, 2)
           /\ DaikinValue(42, v, row) = WithNibble(row[1], 256, 4)
           /\ DaikinValue(43, v, row) = WithNibble(row[1], 256, 0)
           /\ DaikinValue(44, v, row) = WithNibble(row[1], 256, 7)
           /\ DaikinValue(51, v, row) = WithNibble(row[1], 4096, 3)
           /\ DaikinValue(52, v, row) = WithNibble(row[1], 4096, 5)
           /\ DaikinValue(53, v, row) = WithNibble(row[1], 4096, 3)
           /\ DaikinValue(54, v, row) = WithNibble(row[1], 4096, 1)
           /\ DaikinValue(61, v, row) = WithNibble(row[2], 1, 0)
           /\ DaikinValue(62, v, row) = WithNibble(row[2], 1, 1)
           /\ DaikinValue(63, v, row) = WithNibble(row[2], 1, 2)
           /\ DaikinValue(64, v, row) = WithNibble(row[2], 1, 7)
           /\ DaikinValue(65, v, row) = BitOr(WithNibble(row[2], 1, 0), 259)
           /\ DaikinValue(71, v, row) = WithNibble(row[1], 1, 0)
           /\ DaikinValue(72, v, row) = WithNibble(row[1], 1, 1)
  <1> USE DEF Temperatures, SWING_AUTO, SWING_UP_DOWN, SWING_LEFT_RIGHT, SWING_BOTH, FAN_AUTO,
              FAN_HIGH, FAN_MIDDLE, FAN_LOW, MODE_FANING, MODE_HEATING, MODE_COOLING,
              MODE_DRYING, MODE_AUTOING, AIR_OFF, AIR_ON
  <1>1. DaikinValue(41, v, row) = WithNibble(row[1], 256, 2)
    BY DEF DaikinValue
  <1>2. DaikinValue(42, v, row) = WithNibble(row[1], 256, 4)
    BY DEF DaikinValue
  <1>3. DaikinValue(43, v, row) = WithNibble(row[1], 256, 0)
    BY DEF DaikinValue
  <1>4. DaikinValue(44, v, row) = WithNibble(row[1], 256, 7)
    BY DEF DaikinValue
  <1>5. DaikinValue(51, v, row) = WithNibble(row[1], 4096, 3)
    BY DEF DaikinValue
  <1>6. DaikinValue(52, v, row) = WithNibble(row[1], 4096, 5)
    BY DEF DaikinValue
  <1>7. DaikinValue(53, v, row) = WithNibble(row[1], 4096, 3)
    BY DEF DaikinValue
  <1>8. DaikinValue(54, v, row) = WithNibble(row[1], 4096, 1)
    BY DEF DaikinValue
  <1>9. DaikinValue(61, v, row) = WithNibble(row[2], 1, 0)
    BY DEF DaikinValue
  <1>10. DaikinValue(62, v, row) = WithNibble(row[2], 1, 1)
    BY DEF DaikinValue
  <1>11. DaikinValue(63, v, row) = WithNibble(row[2], 1, 2)
    BY DEF DaikinValue
  <1>12. DaikinValue(64, v, row) = WithNibble(row[2], 1, 7)
    BY DEF DaikinValue
  <1>13. DaikinValue(65, v, row) = BitOr(WithNibble(row[2], 1, 0), 259)
    BY DEF DaikinValue
  <1>14. DaikinValue(71, v, row) = WithNibble(row[1], 1, 0)
    BY DEF DaikinValue
  <1>15. DaikinValue(72, v, row) = WithNibble(row[1], 1, 1)
    BY DEF DaikinValue
  <1> QED BY <1>1, <1>2, <1>3, <1>4, <1>5, <1>6, <1>7, <1>8,
             <1>9, <1>10, <1>11, <1>12, <1>13, <1>14, <1>15

LEMMA SwappedTwice ==
    ASSUME NEW w \in Nat, w < WordMod
    PROVE  Swapped(Swapped(w)) = w
  BY DEF Swapped, WordMod

LEMMA DescribedIsWords ==
    ASSUME NEW s \in SettingType, NEW k \in 1..3
    PROVE  Described(s)[k] \in Nat /\ Described(s)[k] < WordMod
  <1>1. s.fan \in 0..15 /\ s.swing \in 0..15 /\ s.power \in 0..1 /\ s.mode \in 0..15
        /\ s.temp \in 0..255
    BY DEF SettingType
  <1>2. /\ s.fan * 4096 + s.swing * 256 + 96 + s.power \in Nat
        /\ s.fan * 4096 + s.swing * 256 + 96 + s.power < WordMod
    BY <1>1 DEF WordMod
  <1>3. /\ 256 + s.mode \in Nat /\ 256 + s.mode < WordMod
        /\ s.temp * 10 \in Nat /\ s.temp * 10 < WordMod
    BY <1>1 DEF WordMod
  <1>4. k = 1 \/ k = 2 \/ k = 3
    OBVIOUS
  <1>5. QED BY <1>2, <1>3, <1>4 DEF Described

\* A method that a unit has changes the word of the row that the request is about, as its
\* setting says.
LEMMA ValueDescribes ==
    ASSUME MessagesFit, DaikinMessagesFit, NEW m \in Kinds, m.dev = "daikin", m.call # "info",
           ~(m.call = "mode" /\ m.method = FAN_AUTO), m.method # AIR_RESTART,
           NEW s \in SettingType
    PROVE  LET k == DaikinOffset[m.call] + 1
           IN  /\ k \in 1..3 /\ DaikinPlace(m.method) = k
               /\ Commanded(s, m) \in SettingType
               /\ Described(Commanded(s, m))
                    = [Described(s) EXCEPT ![k] = DaikinValue(m.method, m.value, Described(s))]
  <1> USE DEF SWING_AUTO, SWING_UP_DOWN, SWING_LEFT_RIGHT, SWING_BOTH, FAN_AUTO, FAN_HIGH,
              FAN_MIDDLE, FAN_LOW, MODE_FANING, MODE_HEATING, MODE_COOLING, MODE_DRYING,
              MODE_AUTOING, AIR_OFF, AIR_ON, AIR_RESTART, AIR_INFO
  <1>1. m.method \in 0..255 /\ m.value \in -1..255
    BY KindFields
  <1>2. s.fan \in 0..15 /\ s.swing \in 0..15 /\ s.power \in 0..1 /\ s.mode \in 0..15
        /\ s.temp \in 0..255
        /\ s = [power |-> s.power, swing |-> s.swing, fan |-> s.fan, mode |-> s.mode,
                temp |-> s.temp]
    BY DEF SettingType
  <1>3. CASE m.call = "temperature"
    <2>1. m.method \in Temperatures /\ m.value \in 0..255
      BY <1>1, <1>3 DEF DaikinMessagesFit, MethodsOf
    <2>2. m.method = 10 \/ m.method \in 18..30
      BY <2>1 DEF Temperatures
    <2>3. DaikinPlace(m.method) = 3 /\ DaikinOffset[m.call] = 2
      BY <1>3, <2>1, <2>2 DEF DaikinPlace, DaikinOffset
    <2>4. Commanded(s, m) = [s EXCEPT !.temp = m.value]
      BY <2>1, <2>2 DEF Commanded
    <2>5. DaikinValue(m.method, m.value, Described(s)) = m.value * 10
      <3>1. (m.value * 10) % WordMod = m.value * 10
        BY <2>1 DEF WordMod
      <3>2. QED BY <2>1, <2>2, <3>1 DEF DaikinValue
    <2>6. QED
      BY <1>2, <2>1, <2>3, <2>4, <2>5 DEF Described, SettingType
  <1>4. CASE m.call = "mode"
    <2>1. m.method \in 61..65
      BY <1>4 DEF DaikinMessagesFit, MethodsOf
    <2>2. DaikinPlace(m.method) = 2 /\ DaikinOffset[m.call] = 1
      BY <1>4, <2>1 DEF DaikinPlace, DaikinOffset, Temperatures
    <2> DEFINE v == (<<0, 1, 2, 7, 3>>)[m.method - 60]
    <2>3. Commanded(s, m) = [s EXCEPT !.mode = v] /\ v \in 0..15
      BY <2>1 DEF Commanded, Temperatures
    <2>4. DaikinValue(m.method, m.value, Described(s)) = 256 + v
      <3>1. \A n \in 0..15 : WithNibble(Described(s)[2], 1, n) = 256 + n
        BY Fields
      <3>2. CASE m.method = 65
        BY <3>1, <3>2, MethodValues, Autoing
      <3>3. CASE m.method = 61
        <4>1. v = 0
          BY <3>3
        <4>2. QED BY <3>1, <3>3, <4>1, MethodValues
      <3>4. CASE m.method = 62
        <4>1. v = 1
          BY <3>4
        <4>2. QED BY <3>1, <3>4, <4>1, MethodValues
      <3>5. CASE m.method = 63
        <4>1. v = 2
          BY <3>5
        <4>2. QED BY <3>1, <3>5, <4>1, MethodValues
      <3>6. CASE m.method = 64
        <4>1. v = 7
          BY <3>6
        <4>2. QED BY <3>1, <3>6, <4>1, MethodValues
      <3>7. QED BY <2>1, <3>2, <3>3, <3>4, <3>5, <3>6
    <2> HIDE DEF v
    <2>5. QED
      BY <1>2, <2>2, <2>3, <2>4 DEF Described, SettingType
  <1>5. CASE m.call = "swing"
    <2>1. m.method \in 41..44
      BY <1>5 DEF DaikinMessagesFit, MethodsOf
    <2>2. DaikinPlace(m.method) = 1 /\ DaikinOffset[m.call] = 0
      BY <1>5, <2>1 DEF DaikinPlace, DaikinOffset, Temperatures
    <2> DEFINE v == (<<2, 4, 0, 7>>)[m.method - 40]
    <2>3. Commanded(s, m) = [s EXCEPT !.swing = v] /\ v \in 0..15
      BY <2>1 DEF Commanded, Temperatures
    <2>4. DaikinValue(m.method, m.value, Described(s)) = s.fan * 4096 + v * 256 + 96 + s.power
      <3>1. \A n \in 0..15 :
                WithNibble(Described(s)[1], 256, n) = s.fan * 4096 + n * 256 + 96 + s.power
        BY Fields
      <3>2. v \in 0..15 /\ DaikinValue(m.method, m.value, Described(s))
                             = WithNibble(Described(s)[1], 256, v)
        <4>1. CASE m.method = 41
          <5>1. v = 2
            BY <4>1
          <5>2. QED BY <4>1, <5>1, MethodValues
        <4>2. CASE m.method = 42
          <5>1. v = 4
            BY <4>2
          <5>2. QED BY <4>2, <5>1, MethodValues
        <4>3. CASE m.method = 43
          <5>1. v = 0
            BY <4>3
          <5>2. QED BY <4>3, <5>1, MethodValues
        <4>4. CASE m.method = 44
          <5>1. v = 7
            BY <4>4
          <5>2. QED BY <4>4, <5>1, MethodValues
        <4>5. QED BY <2>1, <4>1, <4>2, <4>3, <4>4
      <3>3. QED BY <3>1, <3>2
    <2> HIDE DEF v
    <2>5. QED
      BY <1>2, <2>2, <2>3, <2>4 DEF Described, SettingType
  <1>6. CASE m.call = "fan"
    <2>1. m.method \in 51..54
      BY <1>6 DEF DaikinMessagesFit, MethodsOf
    <2>2. DaikinPlace(m.method) = 1 /\ DaikinOffset[m.call] = 0
      BY <1>6, <2>1 DEF DaikinPlace, DaikinOffset, Temperatures
    <2> DEFINE v == (<<3, 5, 3, 1>>)[m.method - 50]
    <2>3. Commanded(s, m) = [s EXCEPT !.fan = v] /\ v \in 0..15
      BY <2>1 DEF Commanded, Temperatures
    <2>4. DaikinValue(m.method, m.value, Described(s)) = v * 4096 + s.swing * 256 + 96 + s.power
      <3>1. \A n \in 0..15 :
                WithNibble(Described(s)[1], 4096, n) = n * 4096 + s.swing * 256 + 96 + s.power
        BY Fields
      <3>2. v \in 0..15 /\ DaikinValue(m.method, m.value, Described(s))
                             = WithNibble(Described(s)[1], 4096, v)
        <4>1. CASE m.method = 51
          <5>1. v = 3
            BY <4>1
          <5>2. QED BY <4>1, <5>1, MethodValues
        <4>2. CASE m.method = 52
          <5>1. v = 5
            BY <4>2
          <5>2. QED BY <4>2, <5>1, MethodValues
        <4>3. CASE m.method = 53
          <5>1. v = 3
            BY <4>3
          <5>2. QED BY <4>3, <5>1, MethodValues
        <4>4. CASE m.method = 54
          <5>1. v = 1
            BY <4>4
          <5>2. QED BY <4>4, <5>1, MethodValues
        <4>5. QED BY <2>1, <4>1, <4>2, <4>3, <4>4
      <3>3. QED BY <3>1, <3>2
    <2> HIDE DEF v
    <2>5. QED
      BY <1>2, <2>2, <2>3, <2>4 DEF Described, SettingType
  <1>7. CASE m.call = "switch"
    <2>1. m.method \in 71..72
      BY <1>7 DEF DaikinMessagesFit, MethodsOf
    <2>2. DaikinPlace(m.method) = 1 /\ DaikinOffset[m.call] = 0
      BY <1>7, <2>1 DEF DaikinPlace, DaikinOffset, Temperatures
    <2> DEFINE v == m.method - 71
    <2>3. Commanded(s, m) = [s EXCEPT !.power = v] /\ v \in 0..1
      BY <2>1 DEF Commanded, Temperatures
    <2>4. DaikinValue(m.method, m.value, Described(s))
            = s.fan * 4096 + s.swing * 256 + 96 + v
      <3>1. \A n \in 0..15 :
                WithNibble(Described(s)[1], 1, n) = s.fan * 4096 + s.swing * 256 + 96 + n
        BY Fields
      <3>2. v \in 0..15 /\ DaikinValue(m.method, m.value, Described(s))
                             = WithNibble(Described(s)[1], 1, v)
        <4>1. CASE m.method = 71
          <5>1. v = 0
            BY <4>1
          <5>2. QED BY <4>1, <5>1, MethodValues
        <4>2. CASE m.method = 72
          <5>1. v = 1
            BY <4>2
          <5>2. QED BY <4>2, <5>1, MethodValues
        <4>3. QED BY <2>1, <4>1, <4>2
      <3>3. QED BY <3>1, <3>2
    <2> HIDE DEF v
    <2>5. QED
      BY <1>2, <2>2, <2>3, <2>4 DEF Described, SettingType
  <1>8. m.call \in {"temperature", "mode", "swing", "fan", "switch"}
    BY DEF DaikinMessagesFit, MethodsOf
  <1>9. QED
    BY <1>3, <1>4, <1>5, <1>6, <1>7, <1>8

LEMMA DaikinInit == ASSUME Init PROVE DInv
  <1>1. PICK g \in Garbage : buffer = [w \in 1..6 |-> g]
    BY DEF Init
  <1>2. TablesAreFunctions
    <2>1. slaves = <<>> /\ DOMAIN daikin = Units /\ DOMAIN wanted = Units
      BY DEF Init
    <2>2. QED BY <1>1, <2>1 DEF TablesAreFunctions
  <1>3. RowsDescribe
    <2> SUFFICES ASSUME NEW u \in Units \ {63}
                 PROVE  wanted[u] \in SettingType /\ daikin[u] = Described(wanted[u])
      BY DEF RowsDescribe
    <2>1. u \in 0..62
      BY DEF Units
    <2>2. wanted[u] = Setting /\ daikin[u] = <<14177, 259, 250>>
      <3>1. wanted[u] = Setting /\ daikin[u] = DaikinRow(u)
        BY DEF Init
      <3>2. DaikinRow(u) = <<14177, 259, 250>>
        BY <2>1 DEF DaikinRow
      <3>3. QED BY <3>1, <3>2
    <2>3. QED BY <2>2 DEF Setting, SettingType, Described
  <1>4. WriteDescribes
    BY DEF Init, InitQueue, WriteDescribes
  <1>5. QED BY <1>2, <1>3, <1>4 DEF DInv

\* The word in the buffer, and what stays of it.
LEMMA FilledWords ==
    ASSUME NEW words
    PROVE  /\ DOMAIN Filled(words) = 1..6
           /\ \A v : words = <<v>> => Filled(words)[1] = v
  BY DEF Filled

\* A setter of the Daikin driver changes the row of its unit and what is wanted of it
\* alike, and sends the register it has changed.
LEMMA PackageDaikinDescribes ==
    ASSUME MessagesFit, DaikinMessagesFit, IInv, DInv, PackageDaikin
    PROVE  DInv'
  <1> DEFINE u == Ask.unit
             f == DaikinSet(Ask, ha, daikin, frame).frame
             words == DaikinSet(Ask, ha, daikin, frame).words
             table == DaikinSet(Ask, ha, daikin, frame).table
             quiet == ha = "wait_init" \/ (Ask.call = "mode" /\ Ask.method = FAN_AUTO)
             k == DaikinOffset[Ask.call] + 1
             value == DaikinValue(Ask.method, Ask.value, daikin[u])
  <1>1. /\ pc = "package" /\ Ask.dev = "daikin" /\ Ask.call # "info" /\ AfterPackage(f)
        /\ buffer' = Filled(words) /\ daikin' = table
        /\ wanted' = IF words = <<>> THEN wanted ELSE [wanted EXCEPT ![u] = Commanded(@, Ask)]
    BY DEF PackageDaikin
  <1>2. UNCHANGED <<qvars, slaves>> /\ frame' = f
        /\ (pc' = "try" => f.len >= 0)
        /\ pc' = IF f.len < 0 \/ f.code \notin Codes \ {DO_NOTHING} THEN "round" ELSE "try"
    BY <1>1, DaikinFrames DEF AfterPackage, GoTo, IInv, LoopTypes, GoodFrame
  <1>3. Ask' = Ask /\ Ask \in Kinds
    BY <1>1, <1>2, SameMessage, InHandIsNext DEF Handling, IInv
  <1>4. GoodFrame(frame)
    BY DEF IInv, LoopTypes
  <1>5. CASE quiet \/ u > 63
    <2>1. words = <<>> /\ table = daikin /\ (f = Quiet(frame) \/ f = Refused(frame, WRITE_REGISTER))
      BY <1>5 DEF DaikinSet
    <2>2. pc' = "round"
      <3>1. CASE f = Quiet(frame)
        <4>1. f.code = DO_NOTHING
          BY <1>4, <3>1 DEF Quiet, GoodFrame
        <4>2. QED BY <1>2, <4>1
      <3>2. CASE f = Refused(frame, WRITE_REGISTER)
        <4>1. f.len = -1
          BY <1>4, <3>2 DEF Refused, GoodFrame
        <4>2. QED BY <1>2, <4>1
      <3>3. QED BY <2>1, <3>1, <3>2
    <2>3. TablesAreFunctions'
      BY <1>1, <1>2, <2>1, FilledWords DEF DInv, TablesAreFunctions
    <2>4. RowsDescribe'
      BY <1>1, <2>1 DEF DInv, RowsDescribe
    <2>5. QED BY <2>2, <2>3, <2>4 DEF DInv, WriteDescribes
  <1>6. CASE ~quiet /\ ~(u > 63)
    <2>1. u \in Units \ {63}
      <3>1. u \in {kind.unit : kind \in Kinds} /\ u # 63
        BY <1>1, <1>3 DEF DaikinMessagesFit
      <3>2. u \in 0..255
        BY <1>3, KindFields
      <3>3. QED BY <1>6, <3>1, <3>2 DEF Units
    <2>2. wanted[u] \in SettingType /\ daikin[u] = Described(wanted[u])
      BY <2>1 DEF DInv, RowsDescribe
    <2>3. /\ words = <<Swapped(value)>> /\ words # <<>>
          /\ f = [code |-> WRITE_REGISTER, len |-> 1, reg |-> DaikinRegister(u) + k - 1]
          /\ table = IF DaikinPlace(Ask.method) = 0 THEN daikin
                     ELSE [daikin EXCEPT ![u][DaikinPlace(Ask.method)] = value]
      <3>1. DaikinOffset[Ask.call] \in Int
        BY <1>1, <1>3 DEF DaikinMessagesFit, MethodsOf, DaikinOffset
      <3>2. DaikinRegister(u) \in Int
        BY <1>3, KindFields DEF DaikinRegister
      <3>3. DaikinRegister(u) + k - 1 = DaikinRegister(u) + DaikinOffset[Ask.call]
        BY <3>1, <3>2
      <3>4. QED BY <1>6, <3>3 DEF DaikinSet
    <2>4. frame' = f /\ buffer'[1] = Swapped(value) /\ f.code = WRITE_REGISTER
          /\ WRITE_REGISTER # WRITE_REGISTERS
      BY <1>1, <1>2, <2>3, FilledWords DEF WRITE_REGISTER, WRITE_REGISTERS
    <2>5. DOMAIN wanted = Units /\ DOMAIN daikin = Units
      BY DEF DInv, TablesAreFunctions
    <2>6. wanted' = [wanted EXCEPT ![u] = Commanded(wanted[u], Ask)]
      BY <1>1, <2>3
    <2> HIDE DEF f, words
    <2>7. TablesAreFunctions'
      <3>1. DOMAIN buffer' = 1..6
        BY <1>1, FilledWords
      <3>2. DOMAIN wanted' = Units /\ DOMAIN daikin' = Units
        BY <1>1, <2>3, <2>5, <2>6
      <3>3. QED BY <1>2, <3>1, <3>2 DEF DInv, TablesAreFunctions
    <2>8. CASE Ask.method = AIR_RESTART
      <3>1. Commanded(wanted[u], Ask) = wanted[u] /\ DaikinPlace(Ask.method) = 0
        BY <2>8 DEF Commanded, DaikinPlace, AIR_RESTART, Temperatures, SWING_AUTO, SWING_BOTH,
           FAN_AUTO, FAN_LOW, MODE_FANING, MODE_AUTOING, AIR_OFF, AIR_ON
      <3>2. daikin' = daikin /\ \A v \in Units : wanted'[v] = wanted[v]
        BY <1>1, <2>3, <2>5, <2>6, <3>1
      <3>3. RowsDescribe'
        BY <3>2 DEF DInv, RowsDescribe
      <3>4. WriteDescribes'
        BY <1>3, <2>4, <2>8 DEF WriteDescribes
      <3>5. QED BY <2>7, <3>3, <3>4 DEF DInv
    <2>9. CASE Ask.method # AIR_RESTART
      <3>1. /\ k \in 1..3 /\ DaikinPlace(Ask.method) = k
            /\ Commanded(wanted[u], Ask) \in SettingType
            /\ Described(Commanded(wanted[u], Ask)) = [daikin[u] EXCEPT ![k] = value]
        BY <1>1, <1>3, <1>6, <2>2, <2>9, ValueDescribes
      <3>2. daikin' = [daikin EXCEPT ![u] = [daikin[u] EXCEPT ![k] = value]]
        BY <1>1, <2>3, <3>1
      <3> HIDE DEF k, value
      <3>3. daikin'[u] = Described(wanted'[u]) /\ wanted'[u] \in SettingType
            /\ daikin'[u] = [daikin[u] EXCEPT ![k] = value]
        BY <2>1, <2>5, <2>6, <3>1, <3>2
      <3>4. RowsDescribe'
        <4> SUFFICES ASSUME NEW v \in Units \ {63}
                     PROVE  wanted'[v] \in SettingType /\ daikin'[v] = Described(wanted'[v])
          BY DEF RowsDescribe
        <4>1. CASE v = u
          BY <3>3, <4>1
        <4>2. CASE v # u
          <5>1. wanted'[v] = wanted[v] /\ daikin'[v] = daikin[v]
            BY <2>5, <2>6, <3>2, <4>2
          <5>2. QED BY <5>1 DEF DInv, RowsDescribe
        <4>3. QED BY <4>1, <4>2
      <3>5. Described(wanted'[u])[k] = value
        <4>1. DOMAIN daikin[u] = 1..3
          BY <2>2 DEF Described
        <4>2. QED BY <3>1, <3>3, <4>1
      <3>6. f.reg = Documented(u) + k - 1
        <4>1. DaikinRegister(u) = Documented(u)
          BY <1>3, KindFields DEF DaikinRegister, Documented
        <4>2. QED BY <2>3, <4>1
      <3>7. WriteDescribes'
        BY <1>3, <2>1, <2>4, <3>1, <3>5, <3>6 DEF WriteDescribes
      <3>8. QED BY <2>7, <3>4, <3>7 DEF DInv
    <2>10. QED BY <2>8, <2>9
  <1>7. QED BY <1>5, <1>6

\* The other handlers leave the tables alone, and write no registers of a Daikin unit.
LEMMA OtherPackagesDescribe ==
    ASSUME IInv, DInv, PackageJohnson \/ PackageHitachi \/ PackageInfo \/ PackageOther
    PROVE  DInv'
  <1>1. UNCHANGED <<qvars, slaves, daikin, wanted>>
    BY DEF PackageJohnson, PackageHitachi, PackageInfo, PackageOther, AfterPackage, GoTo, dvars
  <1>2. buffer' = buffer \/ DOMAIN buffer' = 1..6
    <2>1. CASE PackageJohnson
      <3>1. buffer' = Filled(JohnsonSet(Ask, johnson, buffer, frame).words)
        BY <2>1 DEF PackageJohnson
      <3>2. QED BY <3>1, FilledWords
    <2>2. CASE PackageHitachi
      <3>1. buffer' = Filled(HitachiSet(Ask, frame).words)
        BY <2>2 DEF PackageHitachi
      <3>2. QED BY <3>1, FilledWords
    <2>3. CASE PackageInfo \/ PackageOther
      BY <2>3 DEF PackageInfo, PackageOther
    <2>4. QED BY <2>1, <2>2, <2>3
  <1>3. Ask' = Ask
    BY <1>1, SameMessage
  <1>4. TablesAreFunctions' /\ RowsDescribe'
    BY <1>1, <1>2 DEF DInv, TablesAreFunctions, RowsDescribe
  <1>5. WriteDescribes'
    <2> SUFFICES ASSUME Ask.dev = "daikin"
                 PROVE  frame'.code \notin {WRITE_REGISTER, WRITE_REGISTERS}
      BY <1>3 DEF WriteDescribes
    <2>1. frame' = DaikinInfo(ha, frame)
      BY DEF PackageJohnson, PackageHitachi, PackageInfo, PackageOther, AfterPackage
    <2>2. QED BY <2>1, DaikinFrames DEF IInv, LoopTypes
  <1>6. QED BY <1>4, <1>5 DEF DInv

LEMMA StoredIsFunction ==
    ASSUME NEW old, NEW pairs
    PROVE  Stored(old, pairs) = [r \in DOMAIN Stored(old, pairs) |-> Stored(old, pairs)[r]]
  BY DEF Stored

LEMMA TryDescribes == ASSUME IInv, DInv, Try PROVE DInv'
  <1>1. /\ pc = "try" /\ UNCHANGED <<qvars, frame, daikin, wanted>>
        /\ slaves' = slaves \/ slaves' = Stored(slaves, Written)
        /\ buffer' = buffer \/ (Reads /\ \E words : buffer' = Filled(words))
    BY DEF Try, GoTo, dvars
  <1>2. Ask' = Ask
    BY <1>1, SameMessage
  <1>3. TablesAreFunctions' /\ RowsDescribe'
    BY <1>1, FilledWords, StoredIsFunction DEF DInv, TablesAreFunctions, RowsDescribe
  <1>4. WriteDescribes'
    <2>1. frame.code = WRITE_REGISTER => ~Reads
      BY DEF Reads, WRITE_REGISTER, BitReads, WordReads
    <2>2. QED BY <1>1, <1>2, <2>1 DEF DInv, WriteDescribes
  <1>5. QED BY <1>3, <1>4 DEF DInv

\* Every other step leaves the tables, the slaves and a write in progress as they are.
LEMMA RestDescribes ==
    ASSUME IInv, DInv, UNCHANGED <<daikin, wanted, slaves, buffer>>,
           pc' # "try" \/ (pc = "try" /\ Ask' = Ask /\ frame' = frame)
    PROVE  DInv'
  <1>1. TablesAreFunctions' /\ RowsDescribe'
    BY DEF DInv, TablesAreFunctions, RowsDescribe
  <1>2. WriteDescribes'
    BY DEF DInv, WriteDescribes
  <1>3. QED BY <1>1, <1>2 DEF DInv

LEMMA DaikinNext ==
    ASSUME MessagesFit, DaikinMessagesFit, IInv, DInv, [Next]_vars
    PROVE  DInv'
  <1>1. CASE UNCHANGED vars
    <2>1. Ask' = Ask
      BY <1>1, SameMessage DEF vars
    <2>2. QED BY <1>1, <2>1, RestDescribes DEF vars, wvars, dvars
  <1>2. CASE Producing /\ UNCHANGED <<wvars, dvars, slaves>>
    <2>1. pc' = pc /\ (pc = "try" => Ask' = Ask)
      BY <1>2, ProducingSameMessage DEF Producing, Produce, PostSem, Handling, IInv
    <2>2. QED BY <1>2, <2>1, RestDescribes DEF wvars, dvars
  <1>3. CASE Idle /\ UNCHANGED <<wvars, dvars, slaves>>
    <2>1. pc' # "try"
      BY <1>3 DEF Idle, Wait, WaitInterrupted, Nothing, Pop
    <2>2. QED BY <1>3, <2>1, RestDescribes DEF wvars, dvars
  <1>4. CASE Peek \/ Answer \/ Handle \/ Round
    BY <1>4, RestDescribes DEF Peek, Found, Answer, Handle, Round, GoTo, wvars, dvars
  <1>5. CASE Try \/ Package
    BY <1>5, TryDescribes, PackageDaikinDescribes, OtherPackagesDescribe DEF Package
  <1>6. QED BY <1>1, <1>2, <1>3, <1>4, <1>5 DEF Next, Worker, Package

LEMMA AlwaysDInv == ASSUME MessagesFit, DaikinMessagesFit PROVE Spec => []DInv
  <1>1. Init => DInv
    BY DaikinInit
  <1>2. IInv /\ DInv /\ [Next]_vars => DInv'
    BY DaikinNext
  <1>3. QED BY <1>1, <1>2, AlwaysIInv, PTL DEF Spec

\* A register write that reaches a Daikin unit brings the unit, for what that register
\* holds, to all that was commanded of it, also by commands whose own write was lost
\* (DTA116A621.c:201), and touches no register of another unit (DTA116A621.c:174).
THEOREM WritesCatchUp ==
    ASSUME MessagesFit, DaikinMessagesFit
    PROVE  Spec => CatchesUp
  <1>1. IInv /\ DInv /\ [Next]_vars => [WriteCatchesUp]_vars
    <2> SUFFICES ASSUME IInv, DInv, Next, slaves' # slaves, Ask.dev = "daikin",
                        Ask.method # AIR_RESTART
                 PROVE  /\ frame.reg - Documented(Ask.unit) + 1 \in 1..3
                        /\ slaves'[frame.reg]
                             = Described(wanted[Ask.unit])[frame.reg - Documented(Ask.unit) + 1]
      BY DEF WriteCatchesUp
    <2>1. pc = "try" /\ slaves' = Stored(slaves, Written)
      BY DEF Next, Worker, wvars, dvars, Peek, Found, PackageDaikin, PackageJohnson,
             PackageHitachi, PackageInfo, PackageOther, AfterPackage, Try, Answer, Handle,
             Round, GoTo
    <2>2. frame.code = WRITE_REGISTER
      <3>1. ASSUME Written = {} PROVE FALSE
        <4>1. Stored(slaves, {}) = [r \in DOMAIN slaves |-> slaves[r]]
          BY DEF Stored
        <4>2. QED BY <2>1, <3>1, <4>1 DEF DInv, TablesAreFunctions
      <3>2. frame.code # WRITE_REGISTERS
        BY <2>1 DEF DInv, WriteDescribes
      <3>3. QED BY <3>1, <3>2 DEF Written
    <2>3. Ask.unit \in Units \ {63}
      BY <2>1, <2>2 DEF DInv, WriteDescribes
    <2>4. PICK k \in 1..3 : /\ frame.reg = Documented(Ask.unit) + k - 1
                            /\ buffer[1] = Swapped(Described(wanted[Ask.unit])[k])
      BY <2>1, <2>2 DEF DInv, WriteDescribes
    <2> DEFINE word == Described(wanted[Ask.unit])[k]
    <2>5. Swapped(buffer[1]) = word
      BY <2>3, <2>4, DescribedIsWords, SwappedTwice DEF DInv, RowsDescribe
    <2>6. Written = {<<frame.reg, word>>}
      BY <2>2, <2>5 DEF Written, WRITE_REGISTER, WRITE_REGISTERS
    <2> HIDE DEF word
    <2>7. slaves'[frame.reg] = word
      <3>1. \A q \in {<<frame.reg, word>>} : q[1] = frame.reg /\ q[2] = word
        OBVIOUS
      <3>2. (CHOOSE q \in {<<frame.reg, word>>} : q[1] = frame.reg) = <<frame.reg, word>>
        BY <3>1
      <3>3. frame.reg \in {q[1] : q \in {<<frame.reg, word>>}}
            /\ \E q \in {<<frame.reg, word>>} : q[1] = frame.reg
        BY <3>1
      <3>4. Stored(slaves, {<<frame.reg, word>>})[frame.reg] = (<<frame.reg, word>>)[2]
        BY <3>2, <3>3 DEF Stored
      <3>5. QED BY <2>1, <2>6, <3>4
    <2>8. frame.reg - Documented(Ask.unit) + 1 = k
      BY <2>3, <2>4 DEF Documented, Units
    <2>9. QED BY <2>7, <2>8 DEF word
  <1>2. QED BY AlwaysIInv, AlwaysDInv, <1>1, PTL DEF Spec, CatchesUp
=============================================================================
