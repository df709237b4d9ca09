------------------------- MODULE GeneralWorkerProof --------------------------
(***************************************************************************)
(* Proofs about GeneralWorker, for any number of producers and messages,   *)
(* any size of the queue and any width of retransmission.                  *)
(***************************************************************************)
EXTENDS GeneralWorker, WorkQueueProof

Places == {"wait", "check", "send", "recv", "end", "pop"}

WorkerTypes ==
    /\ left \in 0..(UintMod - 1) /\ error \in BOOLEAN /\ passes \in Nat
    /\ answered \subseteq 1..MaxMsgs

-----------------------------------------------------------------------------
(* The retry loop *)

\* Passes made and passes left add up to the limit.
PassesAddUp ==
    /\ pc = "send" => \/ left >= 1 /\ passes + left = Limit
                      \/ left = 0 /\ passes = 0 /\ Ask.retransmission = 0
    /\ pc \in {"recv", "end"} => \/ left >= 1 /\ passes + left = Limit + 1
                                 \/ left = 0 /\ passes = 1 /\ Ask.retransmission = 0
    /\ pc = "pop" => passes <= Limit

\* Outside a message the last one's count stays.
PassesInRange == passes <= UintMod

\* Only messages that were popped have an answer, and the one in hand in its last pass.
AnsweredInv ==
    /\ \A m \in answered : m <= Len(popped) \/ (pc \in {"end", "pop"} /\ m = InHand)
    /\ pc = "send" /\ passes > 0 => error /\ Ask.reply
    /\ pc = "recv" => Ask.reply
    /\ pc = "end" /\ error => Ask.reply /\ InHand \notin answered

IInv == QueueInv /\ pc \in Places /\ WorkerTypes /\ PassesAddUp /\ PassesInRange /\ AnsweredInv

LEMMA KindFields ==
    ASSUME MessagesFit, NEW k \in Kinds
    PROVE  /\ k.sends \in BOOLEAN /\ k.reply \in BOOLEAN /\ k.waits \in BOOLEAN
           /\ k.retransmission \in 0..(UintMod - 1)
  BY DEF MessagesFit, KindType

LEMMA LimitBounds ==
    ASSUME MessagesFit, QueueInv, Handling
    PROVE  /\ Limit \in Nat \ {0} /\ Limit <= UintMod
           /\ Ask.retransmission \in Nat
           /\ Ask.retransmission > 0 => Limit <= MaxRetrans
  <1>1. Ask.retransmission \in 0..(UintMod - 1)
    BY InHandIsNext, KindFields
  <1>2. QED
    BY <1>1 DEF MessagesFit, Limit

LEMMA InitInvariant == ASSUME MessagesFit, Init PROVE IInv
  <1>1. 0 \in 0..(UintMod - 1) /\ 0 <= UintMod
    BY DEF MessagesFit
  <1>2. left = 0 /\ passes = 0 /\ error \in BOOLEAN /\ answered = {} /\ pc = "wait"
    BY DEF Init, InitQueue
  <1>3. WorkerTypes /\ PassesInRange
    BY <1>1, <1>2 DEF WorkerTypes, PassesInRange
  <1>4. PassesAddUp /\ AnsweredInv
    BY <1>2 DEF PassesAddUp, AnsweredInv
  <1>5. QED
    BY <1>2, <1>3, <1>4, QueueInit DEF Init, IInv, Places

\* Down by one from one at least is minus one; from zero it wraps.
LEMMA Decrement ==
    ASSUME NEW n \in 0..(UintMod - 1), UintMod \in Nat \ {0}
    PROVE  /\ n >= 1 => (n - 1) % UintMod = n - 1
           /\ n = 0 => (n - 1) % UintMod = UintMod - 1
  OBVIOUS

LEMMA PeekKeeps ==
    ASSUME MessagesFit, IInv, Peek
    PROVE  IInv'
  <1>1. pc = "check" /\ pc' = "send" /\ queue # <<>> /\ UNCHANGED <<qvars, answered>>
        /\ passes' = 0 /\ error' = FALSE
        /\ left' = IF Ask.retransmission > MaxRetrans THEN MaxRetrans ELSE Ask.retransmission
    BY DEF Peek, Found, GoTo
  <1>2. QueueInv'
    BY <1>1, StepKeepsQueue DEF IInv, Places
  <1>3. Handling' /\ Limit' = Limit /\ Ask' = Ask /\ InHand' = InHand
    BY <1>1, SameMessage DEF Handling, Limit
  <1>4. Ask \in Kinds
    BY <1>1 DEF IInv, QueueInv, QueueTypes, InOrder, InHand, Ask
  <1>5. WorkerTypes'
    <2>1. left' \in 0..(UintMod - 1) /\ passes' \in Nat
      BY <1>1, <1>4, KindFields DEF MessagesFit
    <2>2. error' \in BOOLEAN /\ answered' \subseteq 1..MaxMsgs
      BY <1>1 DEF IInv, WorkerTypes
    <2>3. QED BY <2>1, <2>2 DEF WorkerTypes
  <1>6. PassesAddUp' /\ PassesInRange'
    BY <1>1, <1>3, <1>4, KindFields
    DEF MessagesFit, PassesAddUp, PassesInRange, Limit
  <1>7. AnsweredInv'
    BY <1>1 DEF IInv, AnsweredInv, qvars
  <1>8. QED
    BY <1>1, <1>2, <1>5, <1>6, <1>7 DEF IInv, Places

LEMMA SendKeeps ==
    ASSUME MessagesFit, IInv, Send
    PROVE  IInv'
  <1>1. /\ pc = "send" /\ pc' \in {"pop", "recv", "end"} /\ UNCHANGED <<qvars, left>>
        /\ passes' = passes + 1 /\ error' \in BOOLEAN
        /\ pc' = "recv" => Ask.reply /\ answered' = answered
        /\ pc' = "end" => ~error' /\ answered' = answered \cup {InHand}
        /\ pc' = "pop" => answered' = answered
    BY DEF Send, GoTo
  <1>2. Handling /\ queue # <<>>
    BY <1>1 DEF Handling, IInv, QueueInv, InHandIsThere
  <1>3. QueueInv'
    BY <1>1, <1>2, StepKeepsQueue DEF IInv, Places
  <1>4. Limit' = Limit /\ Ask' = Ask /\ InHand' = InHand
    BY <1>1, SameMessage DEF Limit
  <1>5. Limit \in Nat \ {0} /\ Limit <= UintMod
    BY <1>2, LimitBounds DEF IInv
  <1>6. InHand \in 1..MaxMsgs
    BY <1>2, InHandIsNext, WorkQueueAssumption DEF IInv, QueueInv, QueueTypes
  <1>7. WorkerTypes'
    <2>1. answered' \subseteq 1..MaxMsgs
      BY <1>1, <1>6 DEF IInv, WorkerTypes
    <2>2. left' \in 0..(UintMod - 1) /\ passes' \in Nat
      BY <1>1 DEF IInv, WorkerTypes
    <2>3. QED BY <1>1, <2>1, <2>2 DEF WorkerTypes
  <1>8. PassesAddUp' /\ PassesInRange'
    BY <1>1, <1>4, <1>5
    DEF MessagesFit, IInv, WorkerTypes, PassesAddUp, PassesInRange
  <1>9. AnsweredInv'
    BY <1>1, <1>4 DEF IInv, AnsweredInv, qvars
  <1>10. QED
    BY <1>1, <1>3, <1>7, <1>8, <1>9 DEF IInv, Places

LEMMA RecvKeeps ==
    ASSUME MessagesFit, IInv, Recv
    PROVE  IInv'
  <1>1. /\ pc = "recv" /\ pc' = "end" /\ UNCHANGED <<qvars, left, passes>>
        /\ \/ error' = TRUE /\ answered' = answered
           \/ error' = FALSE /\ answered' = answered \cup {InHand}
    BY DEF Recv, GoTo
  <1>2. Handling /\ queue # <<>>
    BY <1>1 DEF Handling, IInv, QueueInv, InHandIsThere
  <1>3. QueueInv'
    BY <1>1, <1>2, StepKeepsQueue DEF IInv, Places
  <1>4. Limit' = Limit /\ Ask' = Ask /\ InHand' = InHand /\ popped' = popped
    BY <1>1, SameMessage DEF qvars, Limit
  <1>5. InHand = Len(popped) + 1 /\ Len(popped) \in Nat /\ InHand \in 1..MaxMsgs
    BY <1>2, InHandIsNext, WorkQueueAssumption DEF IInv, QueueInv, QueueTypes
  <1>6. WorkerTypes' /\ PassesInRange'
    BY <1>1, <1>5 DEF IInv, WorkerTypes, PassesInRange
  <1>7. PassesAddUp'
    BY <1>1, <1>4 DEF IInv, PassesAddUp
  <1>8. InHand \notin answered
    BY <1>1, <1>5 DEF IInv, AnsweredInv
  <1>9. AnsweredInv'
    BY <1>1, <1>4, <1>8 DEF IInv, AnsweredInv
  <1>10. QED
    BY <1>1, <1>3, <1>6, <1>7, <1>9 DEF IInv, Places

LEMMA EndOfPassKeeps ==
    ASSUME MessagesFit, IInv, EndOfPass
    PROVE  IInv'
  <1>1. /\ pc = "end" /\ pc' = (IF left' # 0 /\ error THEN "send" ELSE "pop")
        /\ UNCHANGED <<qvars, error, passes, answered>> /\ left' = (left - 1) % UintMod
    BY DEF EndOfPass, GoTo
  <1>2. Handling /\ queue # <<>>
    BY <1>1 DEF Handling, IInv, QueueInv, InHandIsThere
  <1>3. QueueInv'
    BY <1>1, <1>2, StepKeepsQueue DEF IInv, Places
  <1>4. Limit' = Limit /\ Ask' = Ask /\ InHand' = InHand /\ popped' = popped
    BY <1>1, SameMessage DEF qvars, Limit
  <1>5. Limit \in Nat \ {0} /\ Limit <= UintMod
        /\ (Ask.retransmission = 0 => Limit = UintMod)
    BY <1>2, LimitBounds DEF IInv, Limit
  <1>6. /\ left >= 1 => left' = left - 1
        /\ left = 0 => left' = UintMod - 1
    BY <1>1, Decrement DEF MessagesFit, IInv, WorkerTypes
  <1>7. WorkerTypes' /\ PassesInRange'
    BY <1>1, <1>6 DEF MessagesFit, IInv, WorkerTypes, PassesInRange
  <1>8. PassesAddUp'
    BY <1>1, <1>4, <1>5, <1>6 DEF MessagesFit, IInv, WorkerTypes, PassesAddUp
  <1>9. AnsweredInv'
    <2>1. CASE pc' = "pop"
      BY <1>1, <1>4, <2>1 DEF IInv, AnsweredInv
    <2>2. CASE pc' = "send"
      BY <1>1, <1>4, <2>2 DEF IInv, AnsweredInv
    <2>3. QED BY <1>1, <2>1, <2>2
  <1>10. QED
    BY <1>1, <1>3, <1>7, <1>8, <1>9 DEF IInv, Places

\* What the producers and the idle worker do changes nothing of the loop's.
LEMMA QueueStepKeeps ==
    ASSUME MessagesFit, IInv, Idle \/ Producing, UNCHANGED wvars
    PROVE  IInv'
  <1>1. QueueInv'
    BY QueueStepsKeep DEF IInv
  <1>2. WorkerTypes' /\ PassesInRange'
    BY DEF IInv, wvars, WorkerTypes, PassesInRange
  <1>3. ASSUME Producing PROVE PassesAddUp' /\ AnsweredInv'
    <2>1. pc' = pc /\ popped' = popped
      BY <1>3 DEF Producing, Produce, PostSem
    <2>2. ASSUME Handling PROVE InHand' = InHand /\ Ask' = Ask /\ Limit' = Limit
      BY <1>3, <2>2, ProducingSameMessage DEF IInv, Limit
    <2>3. PassesAddUp'
      BY <2>1, <2>2 DEF IInv, wvars, PassesAddUp, Handling
    <2>4. AnsweredInv'
      BY <2>1, <2>2 DEF IInv, wvars, AnsweredInv, Handling
    <2>5. QED BY <2>3, <2>4
  <1>4. ASSUME Idle PROVE PassesAddUp' /\ AnsweredInv'
    <2>1. pc' \in {"wait", "check"} /\ (pc = "pop" \/ popped' = popped)
          /\ (pc = "pop" <=> Pop) /\ pc \in {"wait", "check", "pop"}
      BY <1>4 DEF Idle, Wait, WaitInterrupted, Nothing, Pop, qvars
    <2>2. PassesAddUp'
      BY <2>1 DEF PassesAddUp
    <2>3. CASE Pop
      <3>1. InHand = Len(popped) + 1 /\ Len(popped') = Len(popped) + 1 /\ Len(popped) \in Nat
        BY <2>3, InHandIsNext DEF Pop, Handling, IInv, QueueInv, QueueTypes
      <3>2. \A m \in answered : m \in Nat
        BY DEF IInv, WorkerTypes
      <3>3. \A m \in answered : m <= Len(popped')
        BY <3>1, <3>2 DEF IInv, AnsweredInv
      <3>4. QED
        BY <2>1, <2>2, <3>3 DEF wvars, AnsweredInv
    <2>4. CASE ~Pop
      <3>1. pc \in {"wait", "check"} /\ popped' = popped
        BY <2>1, <2>4
      <3>2. \A m \in answered : m <= Len(popped')
        BY <3>1 DEF IInv, AnsweredInv
      <3>3. QED
        BY <2>1, <2>2, <3>2 DEF wvars, AnsweredInv
    <2>5. QED BY <2>3, <2>4
  <1>5. QED
    BY <1>1, <1>2, <1>3, <1>4
    DEF IInv, Places, Idle, Producing, Produce, PostSem, Wait, WaitInterrupted, Nothing, Pop

LEMMA NextKeeps ==
    ASSUME MessagesFit, IInv, [Next]_vars
    PROVE  IInv'
  <1>1. CASE UNCHANGED vars
    BY <1>1 DEF vars, qvars, wvars, IInv, QueueInv, QueueTypes, InOrder, PostsBounded,
       PostsCoverQueue, InHandIsThere, Handling, WorkerTypes, PassesAddUp, PassesInRange,
       AnsweredInv, Limit, Ask, InHand
  <1>2. CASE Next
    BY <1>2, PeekKeeps, SendKeeps, RecvKeeps, EndOfPassKeeps, QueueStepKeeps DEF Next, Worker
  <1>3. QED BY <1>1, <1>2

LEMMA AlwaysIInv == ASSUME MessagesFit PROVE Spec => []IInv
  BY InitInvariant, NextKeeps, PTL DEF Spec

-----------------------------------------------------------------------------
LEMMA TypesFollow == ASSUME MessagesFit, IInv PROVE TypeOK
  BY QueueFollows DEF MessagesFit, IInv, WorkerTypes, PassesInRange, TypeOK, Places

\* The worker's state keeps the types the code gives it.
THEOREM TypeCorrect == ASSUME MessagesFit PROVE Spec => []TypeOK
  BY AlwaysIInv, TypesFollow, PTL

\* No message is left in the ring without a post that will bring the worker to it, although
\* interrupted waits bring it there without one (general.c:97).
THEOREM NoMessageForgotten == ASSUME MessagesFit PROVE Spec => []PostsCoverQueue
  <1>1. IInv => PostsCoverQueue
    BY DEF IInv, QueueInv
  <1>2. QED
    BY AlwaysIInv, <1>1, PTL

\* Messages are popped in the order they were put, each once (general.c:150).
THEOREM FirstInFirstOut == ASSUME MessagesFit PROVE Spec => []PoppedInOrder
  <1>1. IInv => PoppedInOrder
    BY DEF IInv, QueueInv, QueueTypes, InOrder, PoppedInOrder
  <1>2. QED
    BY AlwaysIInv, <1>1, PTL

\* A message takes at most the passes it asks for and at most BUS_MAX_RETRANSMISSION, and one
\* that asks for none takes all the values of retransmission and no more (general.c:145).
THEOREM PassesAreBounded == ASSUME MessagesFit PROVE Spec => []PassesBounded
  <1>1. IInv => PassesBounded
    <2> SUFFICES ASSUME IInv, Handling
                 PROVE  passes <= Limit
      BY DEF PassesBounded
    <2>1. Limit \in Nat \ {0}
      BY LimitBounds DEF IInv
    <2>2. pc \in {"send", "recv", "end", "pop"}
      BY DEF Handling, IInv, Places
    <2>3. QED
      BY <2>1, <2>2 DEF IInv, PassesAddUp, WorkerTypes
  <1>2. QED
    BY AlwaysIInv, <1>1, PTL

\* A frame is sent again only if an answer was expected and did not come (general.c:145).
THEOREM NeverRepeatsAnswered == ASSUME MessagesFit PROVE Spec => [][RepeatIsDue]_vars
  <1>1. IInv /\ [Next]_vars => [RepeatIsDue]_vars
    <2> SUFFICES ASSUME IInv, Next, passes' = passes + 1, passes > 0
                 PROVE  error /\ Ask.reply /\ InHand \notin answered
      BY DEF RepeatIsDue
    <2>1. passes \in Nat
      BY DEF IInv, WorkerTypes
    <2>2. pc = "send"
      BY <2>1 DEF Next, Worker, wvars, Peek, Send, Recv, EndOfPass, GoTo
    <2>3. InHand = Len(popped) + 1 /\ Len(popped) \in Nat
      BY <2>2, InHandIsNext DEF Handling, IInv, QueueInv, QueueTypes
    <2>4. QED
      BY <2>2, <2>3 DEF IInv, AnsweredInv
  <1>2. QED
    BY AlwaysIInv, <1>1, PTL DEF Spec
=============================================================================
