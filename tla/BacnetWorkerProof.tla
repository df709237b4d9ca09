-------------------------- MODULE BacnetWorkerProof --------------------------
(***************************************************************************)
(* Proofs about BacnetWorker, for any number of producers and messages, any*)
(* size of the queue and of the pool of transactions, any set of units that*)
(* can be found, and any number of transactions the stack gives up.        *)
(***************************************************************************)
EXTENDS BacnetWorker, WorkQueueProof, SequenceTheorems

Places == {"wait", "check", "write", "loop", "receive", "finish", "read", "request", "pop"}
InWrite == {"loop", "receive", "finish"}

Flags ==
    /\ success \in BOOLEAN /\ Error_Detected \in BOOLEAN /\ copied \in BOOLEAN
    /\ answered \in BOOLEAN

WorkerTypes ==
    /\ pc \in Places /\ i \in 0..2 /\ (pc \in {"loop", "receive"} => i < 2)
    /\ wid \in Ids \cup {0} /\ rid \in Ids \cup {0} /\ retval \in {-1, 0}
    /\ tsm \in [Ids -> {"free", "write", "read", "failed"}]
    /\ Flags

\* The transaction of a write is the one whose id is kept, and kept in the write loop only.
OneWrite ==
    /\ wid # 0 => pc \in InWrite
    /\ \A id \in Ids : tsm[id] = "write" => id = wid

\* Until the loop finds the transaction closed there is no success; closed it is by its
\* answer, for the stack's timer does not free it.
ClosedByAnswer ==
    /\ pc \in {"loop", "receive"} => ~success
    /\ pc \in {"loop", "receive"} /\ wid # 0 /\ tsm[wid] = "free" => answered
    /\ pc = "finish" /\ success => answered /\ \A id \in Ids : tsm[id] # "write"

\* What is in hand is packed from the message, and the one list of objects ever copied
\* is the same for every message.
Packed ==
    /\ pc \in {"write"} \cup InWrite =>
         Ask.call = "set" /\ YorkRows(Ask.method) # <<>> /\ arg = YorkWrite(Ask)
    /\ pc \in {"read", "request"} => arg = YorkInfo(Ask)
    /\ copied => read_access_data = YorkRead
    /\ pc = "request" => copied

\* The last request is of the message in hand.
SentFor(request, m) ==
    /\ request.service = "read" => request.device = YorkDevice(m.mac) /\ request.asks = YorkRead
    /\ request.service = "write" => /\ YorkRows(m.method) # <<>>
                                    /\ request = Unfilled(YorkWrite(m))
SentIsMeant == Handling => SentFor(sent, Ask)

IInv == QueueInv /\ WorkerTypes /\ OneWrite /\ ClosedByAnswer /\ Packed /\ SentIsMeant

-----------------------------------------------------------------------------
(* The worker *)

\* A method of the table is packed as a write; any other is not sent.
LEMMA Packing ==
    ASSUME NEW m
    PROVE  /\ YorkRows(m.method) # <<>> => YorkWrite(m).service = "write"
           /\ YorkRows(m.method) = <<>> => YorkWrite(m) = NoRequest
           /\ YorkInfo(m).service = "read" /\ YorkInfo(m).asks = YorkRead
           /\ YorkInfo(m).device = YorkDevice(m.mac)
  BY DEF YorkWrite, YorkInfo, NoRequest

LEMMA NoRequestIsFor == ASSUME NEW m PROVE SentFor(NoRequest, m)
  BY DEF SentFor, NoRequest

LEMMA InitInvariant == ASSUME MessagesFit, Init PROVE IInv
  <1>1. pc = "wait" /\ wid = 0 /\ copied = FALSE /\ tsm = [d \in Ids |-> "free"]
    BY DEF Init, InitQueue, NoneOpen
  <1>2. WorkerTypes
    <2>1. Flags
      BY DEF Init, NoneOpen, Flags
    <2>2. QED
      BY <2>1 DEF Init, InitQueue, NoneOpen, WorkerTypes, Places
  <1>3. OneWrite /\ ClosedByAnswer
    BY <1>1 DEF OneWrite, ClosedByAnswer
  <1>4. Packed /\ SentIsMeant
    BY <1>1 DEF Packed, SentIsMeant, Handling, InWrite
  <1>5. QED
    BY <1>2, <1>3, <1>4, QueueInit DEF Init, IInv

\* Between the peek and the pop the queue and the message in hand stay.
LEMMA MiddleStep ==
    ASSUME IInv, UNCHANGED qvars, Handling, pc' # "wait"
    PROVE  QueueInv' /\ Ask' = Ask
  <1>1. queue # <<>> /\ pc # "wait"
    BY DEF IInv, QueueInv, InHandIsThere, Handling
  <1>2. QED
    BY <1>1, StepKeepsQueue, SameMessage DEF IInv

LEMMA PackageKeeps == ASSUME MessagesFit, IInv, Package PROVE IInv'
  <1>1. /\ pc = "check" /\ queue # <<>> /\ UNCHANGED qvars
        /\ pc' = IF arg'.service = "none" THEN "pop" ELSE arg'.service
        /\ sent' = NoRequest
        /\ UNCHANGED <<i, wid, rid, success, Error_Detected, copied, read_access_data, retval,
                       tsm>>
    BY DEF Package, Found, GoTo
  <1>2. arg' = CASE Ask.call = "set" -> YorkWrite(Ask)
                 [] Ask.call = "info" -> YorkInfo(Ask)
                 [] OTHER -> NoRequest
    BY DEF Package
  <1>3. \/ /\ pc' = "write" /\ Ask.call = "set" /\ YorkRows(Ask.method) # <<>>
           /\ arg' = YorkWrite(Ask)
        \/ pc' = "read" /\ arg' = YorkInfo(Ask)
        \/ pc' = "pop"
    <2>1. CASE Ask.call = "set"
      <3>1. arg' = YorkWrite(Ask)
        BY <1>2, <2>1
      <3>2. CASE YorkRows(Ask.method) # <<>>
        BY <1>1, <2>1, <3>1, <3>2, Packing
      <3>3. CASE YorkRows(Ask.method) = <<>>
        BY <1>1, <3>1, <3>3, Packing DEF NoRequest
      <3>4. QED
        BY <3>2, <3>3
    <2>2. CASE Ask.call # "set" /\ Ask.call = "info"
      <3>1. arg' = YorkInfo(Ask)
        BY <1>2, <2>2
      <3>2. QED
        BY <1>1, <3>1, Packing
    <2>3. CASE Ask.call # "set" /\ Ask.call # "info"
      BY <1>1, <1>2, <2>3 DEF NoRequest
    <2>4. QED
      BY <2>1, <2>2, <2>3
  <1>4. QueueInv' /\ Ask' = Ask
    BY <1>1, <1>3, StepKeepsQueue, SameMessage DEF IInv
  <1>5. WorkerTypes'
    <2>1. Flags'
      BY <1>1, <1>3 DEF Package, IInv, WorkerTypes, Flags
    <2>2. QED
      BY <1>1, <1>3, <2>1 DEF IInv, WorkerTypes, Places
  <1>6. OneWrite' /\ ClosedByAnswer'
    BY <1>1, <1>3 DEF IInv, OneWrite, ClosedByAnswer, InWrite
  <1>7. Packed'
    BY <1>1, <1>3, <1>4 DEF IInv, Packed, InWrite
  <1>8. SentIsMeant'
    BY <1>1, NoRequestIsFor DEF SentIsMeant
  <1>9. QED
    BY <1>4, <1>5, <1>6, <1>7, <1>8 DEF IInv

LEMMA WriteBindKeeps == ASSUME MessagesFit, IInv, WriteBind PROVE IInv'
  <1>1. /\ pc = "write" /\ UNCHANGED <<qvars, arg, wid, rid, Error_Detected, copied,
                                       read_access_data, tsm, answered, sent>>
        /\ \/ pc' = "loop" /\ i' = 0 /\ success' = FALSE /\ retval' = retval
           \/ pc' = "pop" /\ retval' = -1 /\ i' = i /\ success' = success
    BY DEF WriteBind, GoTo
  <1>2. QueueInv' /\ Ask' = Ask
    BY <1>1, MiddleStep DEF Handling
  <1>3. WorkerTypes'
    <2>1. Flags'
      BY <1>1 DEF IInv, WorkerTypes, Flags
    <2>2. QED
      BY <1>1, <2>1 DEF IInv, WorkerTypes, Places
  <1>4. OneWrite' /\ ClosedByAnswer'
    BY <1>1 DEF IInv, OneWrite, ClosedByAnswer, InWrite
  <1>5. Packed' /\ SentIsMeant'
    BY <1>1, <1>2 DEF IInv, Packed, SentIsMeant, InWrite, Handling
  <1>6. QED
    BY <1>2, <1>3, <1>4, <1>5 DEF IInv

LEMMA WriteSendKeeps == ASSUME MessagesFit, IInv, WriteSend PROVE IInv'
  <1>1. /\ pc = "loop" /\ pc' = "receive" /\ wid = 0
        /\ UNCHANGED <<qvars, arg, i, rid, success, Error_Detected, copied, read_access_data,
                       retval, answered>>
    BY DEF WriteSend, GoTo
  <1>2. QueueInv' /\ Ask' = Ask
    BY <1>1, MiddleStep DEF Handling
  <1>3. /\ YorkRows(Ask.method) # <<>> /\ arg = YorkWrite(Ask) /\ arg.service = "write"
    BY <1>1, Packing DEF IInv, Packed, InWrite
  <1>4. \/ \E id \in Ids : /\ wid' = id /\ tsm[id] = "free"
                           /\ tsm' = [tsm EXCEPT ![id] = "write"] /\ sent' = Unfilled(arg)
        \/ wid' = 0 /\ UNCHANGED <<tsm, sent>>
    <2>1. Unfilled(arg).service = "write"
      BY <1>3 DEF Unfilled, YorkWrite
    <2>2. QED
      BY <2>1 DEF WriteSend, Sends
  <1>5. WorkerTypes'
    <2>1. Flags'
      BY <1>1, <1>4 DEF IInv, WorkerTypes, Flags
    <2>2. QED
      BY <1>1, <1>4, <2>1 DEF IInv, WorkerTypes, Places
  <1>6. \A id \in Ids : tsm[id] # "write"
    BY <1>1 DEF MessagesFit, IInv, OneWrite
  <1>7. OneWrite' /\ ClosedByAnswer'
    BY <1>1, <1>4, <1>6 DEF MessagesFit, IInv, WorkerTypes, OneWrite, ClosedByAnswer, InWrite
  <1>8. Packed'
    BY <1>1, <1>2 DEF IInv, Packed, InWrite
  <1>9. SentIsMeant'
    <2>1. SentFor(Unfilled(arg), Ask)
      BY <1>3 DEF SentFor, Unfilled, YorkWrite
    <2>2. SentFor(sent, Ask)
      BY <1>1 DEF IInv, SentIsMeant, Handling
    <2>3. QED
      BY <1>2, <1>4, <2>1, <2>2 DEF SentIsMeant
  <1>10. QED
    BY <1>2, <1>5, <1>7, <1>8, <1>9 DEF IInv

LEMMA WriteLookKeeps == ASSUME MessagesFit, IInv, WriteLook PROVE IInv'
  <1>1. /\ pc = "loop" /\ wid # 0
        /\ UNCHANGED <<qvars, arg, i, wid, rid, copied, read_access_data, retval, answered,
                       sent>>
        /\ \/ tsm[wid] = "free" /\ success' = TRUE /\ pc' = "finish"
              /\ UNCHANGED <<Error_Detected, tsm>>
           \/ /\ tsm' = [tsm EXCEPT ![wid] = "free"] /\ Error_Detected' = TRUE
              /\ pc' = "finish" /\ success' = success
           \/ pc' = "receive" /\ tsm[wid] = "write"
              /\ UNCHANGED <<success, Error_Detected, tsm>>
    BY DEF WriteLook, GoTo
  <1>2. QueueInv' /\ Ask' = Ask
    BY <1>1, MiddleStep DEF Handling
  <1>3. WorkerTypes'
    <2>1. Flags'
      BY <1>1 DEF IInv, WorkerTypes, Flags
    <2>2. QED
      BY <1>1, <2>1 DEF IInv, WorkerTypes, Places
  <1>4. OneWrite'
    BY <1>1 DEF IInv, WorkerTypes, OneWrite, InWrite
  <1>5. ClosedByAnswer'
    BY <1>1 DEF IInv, WorkerTypes, OneWrite, ClosedByAnswer
  <1>6. Packed' /\ SentIsMeant'
    BY <1>1, <1>2 DEF IInv, Packed, SentIsMeant, InWrite, Handling
  <1>7. QED
    BY <1>2, <1>3, <1>4, <1>5, <1>6 DEF IInv

LEMMA ReceiveKeeps == ASSUME MessagesFit, IInv, Receive PROVE IInv'
  <1>1. /\ pc = "receive" /\ pc' = (IF i' < 2 THEN "loop" ELSE "finish") /\ i' = i + 1
        /\ UNCHANGED <<qvars, arg, wid, rid, success, Error_Detected, copied,
                       read_access_data, retval, sent>>
        /\ \/ UNCHANGED <<tsm, answered>>
           \/ \E id \in Ids : /\ tsm' = [tsm EXCEPT ![id] = "free"]
                              /\ answered' = (answered \/ id = wid)
    BY DEF Receive, GoTo
  <1>2. QueueInv' /\ Ask' = Ask
    BY <1>1, MiddleStep DEF Handling
  <1>3. WorkerTypes'
    <2>1. Flags'
      BY <1>1 DEF IInv, WorkerTypes, Flags
    <2>2. QED
      BY <1>1, <2>1 DEF IInv, WorkerTypes, Places
  <1>4. OneWrite'
    BY <1>1 DEF IInv, WorkerTypes, OneWrite, InWrite
  <1>5. ClosedByAnswer'
    BY <1>1 DEF IInv, WorkerTypes, OneWrite, ClosedByAnswer
  <1>6. Packed' /\ SentIsMeant'
    BY <1>1, <1>2 DEF IInv, Packed, SentIsMeant, InWrite, Handling
  <1>7. QED
    BY <1>2, <1>3, <1>4, <1>5, <1>6 DEF IInv

LEMMA FinishKeeps == ASSUME MessagesFit, IInv, Finish PROVE IInv'
  <1>1. /\ pc = "finish" /\ pc' = "pop" /\ wid' = 0 /\ retval' \in {-1, 0}
        /\ tsm' = IF ~success /\ wid # 0 THEN [tsm EXCEPT ![wid] = "free"] ELSE tsm
        /\ UNCHANGED <<qvars, arg, i, rid, success, Error_Detected, copied, read_access_data,
                       answered, sent>>
    BY DEF Finish, GoTo
  <1>2. QueueInv' /\ Ask' = Ask
    BY <1>1, MiddleStep DEF Handling
  <1>3. WorkerTypes'
    <2>1. Flags'
      BY <1>1 DEF IInv, WorkerTypes, Flags
    <2>2. QED
      BY <1>1, <2>1 DEF IInv, WorkerTypes, Places
  <1>4. OneWrite' /\ ClosedByAnswer'
    <2>1. \A id \in Ids : tsm'[id] # "write"
      BY <1>1 DEF MessagesFit, IInv, WorkerTypes, OneWrite, ClosedByAnswer
    <2>2. QED
      BY <1>1, <2>1 DEF OneWrite, ClosedByAnswer, InWrite
  <1>5. Packed' /\ SentIsMeant'
    BY <1>1, <1>2 DEF IInv, Packed, SentIsMeant, InWrite, Handling
  <1>6. QED
    BY <1>2, <1>3, <1>4, <1>5 DEF IInv

LEMMA ReadCopyKeeps == ASSUME MessagesFit, IInv, ReadCopy PROVE IInv'
  <1>1. /\ pc = "read" /\ pc' = "request" /\ copied' = TRUE
        /\ read_access_data' = IF copied THEN read_access_data ELSE arg.asks
        /\ UNCHANGED <<qvars, arg, i, wid, rid, success, Error_Detected, retval, tsm, answered,
                       sent>>
    BY DEF ReadCopy, GoTo
  <1>2. QueueInv' /\ Ask' = Ask
    BY <1>1, MiddleStep DEF Handling
  <1>3. WorkerTypes'
    <2>1. Flags'
      BY <1>1 DEF IInv, WorkerTypes, Flags
    <2>2. QED
      BY <1>1, <2>1 DEF IInv, WorkerTypes, Places
  <1>4. OneWrite' /\ ClosedByAnswer'
    BY <1>1 DEF IInv, OneWrite, ClosedByAnswer, InWrite
  <1>5. arg = YorkInfo(Ask) /\ arg.asks = YorkRead
    BY <1>1, Packing DEF IInv, Packed
  <1>6. Packed' /\ SentIsMeant'
    BY <1>1, <1>2, <1>5 DEF IInv, Packed, SentIsMeant, InWrite, Handling
  <1>7. QED
    BY <1>2, <1>3, <1>4, <1>6 DEF IInv

LEMMA ReadSendKeeps == ASSUME MessagesFit, IInv, ReadSend PROVE IInv'
  <1> DEFINE request == [arg EXCEPT !.asks = read_access_data]
  <1>1. /\ pc = "request" /\ pc' = "pop"
        /\ UNCHANGED <<qvars, arg, i, wid, success, Error_Detected, copied, read_access_data,
                       retval, answered>>
        /\ \/ rid' \in {0, rid} /\ UNCHANGED <<tsm, sent>>
           \/ \E id \in Ids : /\ rid' = id
                              /\ tsm' = [tsm EXCEPT ![id] = request.service]
                              /\ sent' = request
    BY DEF ReadSend, GoTo, Sends
  <1>2. QueueInv' /\ Ask' = Ask
    BY <1>1, MiddleStep DEF Handling
  <1>3. arg = YorkInfo(Ask) /\ read_access_data = YorkRead
    BY <1>1 DEF IInv, Packed
  <1>4. /\ request.service = "read" /\ request.device = YorkDevice(Ask.mac)
        /\ request.asks = YorkRead
    BY <1>3 DEF YorkInfo
  <1> HIDE DEF request
  <1>5. WorkerTypes'
    <2>1. Flags'
      BY <1>1, <1>4 DEF IInv, WorkerTypes, Flags
    <2>2. QED
      BY <1>1, <1>4, <2>1 DEF IInv, WorkerTypes, Places
  <1>6. OneWrite' /\ ClosedByAnswer'
    BY <1>1, <1>4 DEF IInv, WorkerTypes, OneWrite, ClosedByAnswer, InWrite
  <1>7. Packed'
    BY <1>1 DEF IInv, Packed, InWrite
  <1>8. SentIsMeant'
    <2>1. SentFor(request, Ask)
      BY <1>4 DEF SentFor
    <2>2. SentFor(sent, Ask)
      BY <1>1 DEF IInv, SentIsMeant, Handling
    <2>3. QED
      BY <1>1, <1>2, <2>1, <2>2 DEF SentIsMeant
  <1>9. QED
    BY <1>2, <1>5, <1>6, <1>7, <1>8 DEF IInv

LEMMA TsmGivesUpKeeps == ASSUME MessagesFit, IInv, TsmGivesUp PROVE IInv'
  <1>1. UNCHANGED <<qvars, pc, arg, i, wid, rid, success, Error_Detected, copied,
                    read_access_data, retval, answered, sent>>
    BY DEF TsmGivesUp
  <1>2. PICK id \in Ids : tsm' = [tsm EXCEPT ![id] = "failed"]
    BY DEF TsmGivesUp
  <1>3. QueueInv' /\ Ask' = Ask
    BY <1>1, SameMessage
    DEF IInv, qvars, QueueInv, QueueTypes, InOrder, PostsBounded, PostsCoverQueue,
        InHandIsThere, Handling
  <1>4. WorkerTypes'
    <2>1. Flags'
      BY <1>1, <1>2 DEF IInv, WorkerTypes, Flags
    <2>2. QED
      BY <1>1, <1>2, <2>1 DEF IInv, WorkerTypes
  <1>5. OneWrite' /\ ClosedByAnswer'
    BY <1>1, <1>2 DEF IInv, WorkerTypes, OneWrite, ClosedByAnswer
  <1>6. Packed' /\ SentIsMeant'
    BY <1>1, <1>3 DEF IInv, Packed, SentIsMeant, Handling
  <1>7. QED
    BY <1>3, <1>4, <1>5, <1>6 DEF IInv

\* What the producers and the idle worker do changes nothing of the worker's.
LEMMA QueueStepKeeps ==
    ASSUME MessagesFit, IInv, Idle \/ Producing, UNCHANGED bvars
    PROVE  IInv'
  <1>1. QueueInv'
    BY QueueStepsKeep DEF IInv
  <1>2. CASE Producing
    <2>1. pc' = pc
      BY <1>2 DEF Producing, Produce, PostSem
    <2>2. Handling => Ask' = Ask
      BY <1>2, ProducingSameMessage DEF IInv
    <2>3. WorkerTypes' /\ OneWrite' /\ ClosedByAnswer'
      BY <2>1 DEF IInv, bvars, tvars, WorkerTypes, Flags, OneWrite, ClosedByAnswer
    <2>4. Packed' /\ SentIsMeant'
      BY <2>1, <2>2 DEF IInv, bvars, tvars, Packed, SentIsMeant, Handling, InWrite
    <2>5. QED
      BY <1>1, <2>3, <2>4 DEF IInv
  <1>3. CASE Idle
    <2>1. pc \in {"wait", "check", "pop"} /\ pc' \in {"wait", "check"}
      BY <1>3 DEF Idle, Wait, WaitInterrupted, Nothing, Pop
    <2>2. WorkerTypes'
      BY <2>1 DEF IInv, bvars, tvars, WorkerTypes, Flags, Places
    <2>3. OneWrite' /\ ClosedByAnswer'
      BY <2>1 DEF IInv, bvars, tvars, OneWrite, ClosedByAnswer, InWrite
    <2>4. Packed' /\ SentIsMeant'
      BY <2>1 DEF IInv, bvars, tvars, Packed, SentIsMeant, Handling, InWrite
    <2>5. QED
      BY <1>1, <2>2, <2>3, <2>4 DEF IInv
  <1>4. QED
    BY <1>2, <1>3

LEMMA NextKeeps == ASSUME MessagesFit, IInv, [Next]_vars PROVE IInv'
  <1>1. CASE UNCHANGED vars
    <2>1. UNCHANGED qvars /\ UNCHANGED pc /\ UNCHANGED bvars
      BY <1>1 DEF vars
    <2>2. QueueInv' /\ Ask' = Ask
      BY <2>1, SameMessage
      DEF IInv, qvars, QueueInv, QueueTypes, InOrder, PostsBounded, PostsCoverQueue,
          InHandIsThere, Handling
    <2>3. WorkerTypes' /\ OneWrite' /\ ClosedByAnswer'
      BY <2>1 DEF IInv, bvars, tvars, WorkerTypes, Flags, OneWrite, ClosedByAnswer
    <2>4. Packed' /\ SentIsMeant'
      BY <2>1, <2>2 DEF IInv, bvars, tvars, Packed, SentIsMeant, Handling
    <2>5. QED
      BY <2>2, <2>3, <2>4 DEF IInv
  <1>2. CASE Next
    BY <1>2, PackageKeeps, WriteBindKeeps, WriteSendKeeps, WriteLookKeeps, ReceiveKeeps,
       FinishKeeps, ReadCopyKeeps, ReadSendKeeps, TsmGivesUpKeeps, QueueStepKeeps
    DEF Next, Worker
  <1>3. QED
    BY <1>1, <1>2

LEMMA AlwaysIInv == ASSUME MessagesFit PROVE Spec => []IInv
  BY InitInvariant, NextKeeps, PTL DEF Spec

-----------------------------------------------------------------------------
(* The tables of the York driver *)

LEMMA FirstTwo ==
    ASSUME NEW a, NEW b, NEW c
    PROVE  SubSeq(<<a, b, c>>, 1, 2) = <<a, b>>
  <1> DEFINE S == {a, b, c}
             s == <<a, b, c>>
             t == SubSeq(s, 1, 2)
  <1>1. s \in Seq(S) /\ Len(s) = 3 /\ s[1] = a /\ s[2] = b
    OBVIOUS
  <1>2. <<a, b>> \in Seq(S) /\ Len(<<a, b>>) = 2
    OBVIOUS
  <1> HIDE DEF s, S
  <1>3. t \in Seq(S) /\ Len(t) = 2 /\ \A j \in 1..2 : t[j] = s[j]
    BY <1>1, SubSeqProperties
  <1> HIDE DEF t
  <1>4. t[1] = a /\ t[2] = b
    BY <1>1, <1>3
  <1>5. \A j \in 1..Len(t) : t[j] = <<a, b>>[j]
    BY <1>3, <1>4
  <1>6. t = <<a, b>>
    BY <1>2, <1>3, <1>5, SeqEqual
  <1>7. QED
    BY <1>6 DEF t, s

\* The methods of the table, and the rows each takes its object and its value from.
LEMMA RowsOf ==
    ASSUME NEW k \in Nat, YorkRows(k) # <<>>
    PROVE  \/ k \in 18..30 /\ YorkRows(k) = <<k - 18, k - 18>>
           \/ k \in 41..44 /\ YorkRows(k) = <<k - 25, k - 25>>
           \/ k \in 51..54 /\ YorkRows(k) = <<k - 31, k - 31>>
           \/ k \in 61..65 /\ YorkRows(k) = <<k - 37, k - 27>>
           \/ k \in 71..72 /\ YorkRows(k) = <<k - 42, k - 42>>
  <1>1. CASE k \in 18..30
    <2>1. k \notin 41..44 /\ k \notin 51..54 /\ k \notin 61..65 /\ k \notin 71..72
      BY <1>1
    <2>2. QED
      BY <1>1, <2>1, Zenon DEF YorkRows
  <1>2. CASE k \in 41..44
    <2>1. k \notin 18..30 /\ k \notin 51..54 /\ k \notin 61..65 /\ k \notin 71..72
          /\ k - 41 + 16 = k - 25
      BY <1>2
    <2>2. QED
      BY <1>2, <2>1, Zenon DEF YorkRows
  <1>3. CASE k \in 51..54
    <2>1. k \notin 18..30 /\ k \notin 41..44 /\ k \notin 61..65 /\ k \notin 71..72
          /\ k - 51 + 20 = k - 31
      BY <1>3
    <2>2. QED
      BY <1>3, <2>1, Zenon DEF YorkRows
  <1>4. CASE k \in 61..65
    <2>1. k \notin 18..30 /\ k \notin 41..44 /\ k \notin 51..54 /\ k \notin 71..72
          /\ k - 61 + 24 = k - 37 /\ k - 51 + 24 = k - 27
      BY <1>4
    <2>2. QED
      BY <1>4, <2>1, Zenon DEF YorkRows
  <1>5. CASE k \in 71..72
    <2>1. k \notin 18..30 /\ k \notin 41..44 /\ k \notin 51..54 /\ k \notin 61..65
          /\ k - 71 + 29 = k - 42
      BY <1>5
    <2>2. QED
      BY <1>5, <2>1, Zenon DEF YorkRows
  <1>6. QED
    BY <1>1, <1>2, <1>3, <1>4, <1>5 DEF YorkRows

\* Each group of rows has one object, and its values follow one another.
LEMMA ObjectRows ==
    ASSUME NEW r \in Nat
    PROVE  /\ r \in 0..12 => YorkObject(r) = <<2, 0, 18 + r>>
           /\ r \in 16..19 => YorkObject(r) = <<14, 2, r - 16>>
           /\ r \in 20..23 => YorkObject(r) = <<14, 1, (<<0, 1, 3, 2>>)[r - 19]>>
           /\ r \in 24..28 => YorkObject(r) = <<14, 0, r - 24>>
           /\ r \in 29..30 => YorkObject(r) = <<5, 0, r - 29>>
  <1>1. CASE r \in 0..12
    BY <1>1 DEF YorkObject
  <1>2. CASE r \in 16..19
    BY <1>2 DEF YorkObject
  <1>3. CASE r \in 20..23
    BY <1>3 DEF YorkObject
  <1>4. CASE r \in 24..28
    BY <1>4 DEF YorkObject
  <1>5. CASE r \in 29..30
    BY <1>5 DEF YorkObject
  <1>6. QED
    BY <1>1, <1>2, <1>3, <1>4, <1>5

LEMMA MethodIsByte == ASSUME NEW m \in KindType PROVE m.method \in Nat
  BY DEF KindType

\* The object of a method is that of its first row.
LEMMA RowsAreMeant ==
    ASSUME NEW k \in Nat, YorkRows(k) # <<>>
    PROVE  <<YorkObject(YorkRows(k)[1])[1], YorkObject(YorkRows(k)[1])[2]>> = ObjectOf(k)
  <1> DEFINE one == YorkRows(k)[1]
  <1>1. CASE k \in 18..30 /\ YorkRows(k) = <<k - 18, k - 18>>
    <2>1. one = k - 18 /\ k - 18 \in 0..12 /\ 18 + (k - 18) = k
      BY <1>1
    <2>2. YorkObject(one) = <<2, 0, k>>
      BY <2>1, ObjectRows
    <2>3. k \notin 41..44 /\ k \notin 51..54 /\ k \notin 61..65 /\ k \notin 71..72
      BY <1>1
    <2>4. ObjectOf(k) = <<2, 0>>
      BY <1>1, <2>3, Zenon DEF ObjectOf
    <2>5. QED
      BY <2>2, <2>4
  <1>2. CASE k \in 41..44 /\ YorkRows(k) = <<k - 25, k - 25>>
    <2>1. one = k - 25 /\ k - 25 \in 16..19 /\ (k - 25) - 16 = k - 41
      BY <1>2
    <2>2. YorkObject(one) = <<14, 2, k - 41>>
      BY <2>1, ObjectRows
    <2>3. k \notin 18..30 /\ k \notin 51..54 /\ k \notin 61..65 /\ k \notin 71..72
      BY <1>2
    <2>4. ObjectOf(k) = <<14, 2>>
      BY <1>2, <2>3, Zenon DEF ObjectOf
    <2>5. QED
      BY <2>2, <2>4
  <1>3. CASE k \in 51..54 /\ YorkRows(k) = <<k - 31, k - 31>>
    <2>1. one = k - 31 /\ k - 31 \in 20..23 /\ (k - 31) - 19 = k - 50
      BY <1>3
    <2>2. YorkObject(one) = <<14, 1, (<<0, 1, 3, 2>>)[k - 50]>>
      BY <2>1, ObjectRows
    <2>3. k \notin 18..30 /\ k \notin 41..44 /\ k \notin 61..65 /\ k \notin 71..72
      BY <1>3
    <2>4. ObjectOf(k) = <<14, 1>>
      BY <1>3, <2>3, Zenon DEF ObjectOf
    <2>5. QED
      BY <2>2, <2>4
  <1>4. CASE k \in 61..65 /\ YorkRows(k) = <<k - 37, k - 27>>
    <2>1. one = k - 37 /\ k - 37 \in 24..28
      BY <1>4
    <2>2. YorkObject(one) = <<14, 0, (k - 37) - 24>>
      BY <2>1, ObjectRows
    <2>3. k \notin 18..30 /\ k \notin 41..44 /\ k \notin 51..54 /\ k \notin 71..72
      BY <1>4
    <2>4. ObjectOf(k) = <<14, 0>>
      BY <1>4, <2>3, Zenon DEF ObjectOf
    <2>5. QED
      BY <1>4, <2>2, <2>4
  <1>5. CASE k \in 71..72 /\ YorkRows(k) = <<k - 42, k - 42>>
    <2>1. one = k - 42 /\ k - 42 \in 29..30 /\ (k - 42) - 29 = k - 71
      BY <1>5
    <2>2. YorkObject(one) = <<5, 0, k - 71>>
      BY <2>1, ObjectRows
    <2>3. k \notin 18..30 /\ k \notin 41..44 /\ k \notin 51..54 /\ k \notin 61..65
      BY <1>5
    <2>4. ObjectOf(k) = <<5, 0>>
      BY <1>5, <2>3, Zenon DEF ObjectOf
    <2>5. QED
      BY <2>2, <2>4
  <1>6. QED
    BY <1>1, <1>2, <1>3, <1>4, <1>5, RowsOf

\* What is sent for a message whose method is in the table.
LEMMA WriteIsMeant ==
    ASSUME NEW m \in KindType, YorkRows(m.method) # <<>>
    PROVE  /\ Unfilled(YorkWrite(m)).device = YorkDevice(m.mac)
           /\ SubSeq(Unfilled(YorkWrite(m)).asks, 1, 2) = ObjectOf(m.method)
  <1> DEFINE first == YorkObject(YorkRows(m.method)[1])[1]
             second == YorkObject(YorkRows(m.method)[1])[2]
             third == YorkObject(YorkRows(m.method)[2])[3]
  <1>1. YorkWrite(m) = [device |-> YorkDevice(m.mac), service |-> "write",
                        asks |-> <<first, second, third>>]
    BY DEF YorkWrite
  <1>2. <<first, second>> = ObjectOf(m.method)
    BY MethodIsByte, RowsAreMeant
  <1> HIDE DEF first, second, third
  <1>3. /\ Unfilled(YorkWrite(m)).device = YorkDevice(m.mac)
        /\ Unfilled(YorkWrite(m)).asks = <<first, second, NullValue>>
    BY <1>1 DEF Unfilled
  <1>4. SubSeq(<<first, second, NullValue>>, 1, 2) = <<first, second>>
    BY FirstTwo
  <1>5. QED
    BY <1>2, <1>3, <1>4

-----------------------------------------------------------------------------
\* The worker's state keeps the types the code gives it.
THEOREM TypeCorrect == ASSUME MessagesFit PROVE Spec => []BacnetTypeOK
  <1>1. IInv => BacnetTypeOK
    <2> SUFFICES ASSUME IInv PROVE BacnetTypeOK
      OBVIOUS
    <2>1. QueueTypeOK
      BY QueueFollows DEF IInv
    <2>2. \A flag \in {success, Error_Detected, copied, answered} : flag \in BOOLEAN
      BY Zenon DEF IInv, WorkerTypes, Flags
    <2>3. QED
      BY <2>1, <2>2 DEF IInv, WorkerTypes, BacnetTypeOK
  <1>2. QED
    BY AlwaysIInv, <1>1, PTL

\* No message is left in the ring without a post that will bring the worker to it, although
\* interrupted waits bring it there without one (bacnet.c:150).
THEOREM NoMessageForgotten == ASSUME MessagesFit PROVE Spec => []PostsCoverQueue
  <1>1. IInv => PostsCoverQueue
    BY DEF IInv, QueueInv
  <1>2. QED
    BY AlwaysIInv, <1>1, PTL

\* Messages are popped in the order they were put, each once (bacnet.c:210).
THEOREM FirstInFirstOut == ASSUME MessagesFit PROVE Spec => []PoppedInOrder
  <1>1. IInv => PoppedInOrder
    BY DEF IInv, QueueInv, QueueTypes, InOrder, PoppedInOrder
  <1>2. QED
    BY AlwaysIInv, <1>1, PTL

\* A write frees its transaction whatever became of it, and is taken for a success only if
\* it was answered (write_property.c:113, 136).
THEOREM WritesAreSettled == ASSUME MessagesFit PROVE Spec => []WritesAreAccounted
  <1>1. ASSUME MessagesFit, IInv PROVE WritesAreAccounted
    <2>1. WritesLeaveNoTransaction
      <3> SUFFICES ASSUME pc \in {"wait", "check", "pop"}
                   PROVE  wid = 0 /\ \A id \in Ids : tsm[id] # "write"
        BY DEF WritesLeaveNoTransaction
      <3>1. wid = 0
        BY <1>1 DEF IInv, OneWrite, InWrite
      <3>2. QED
        BY <1>1, <3>1 DEF MessagesFit, IInv, OneWrite
    <2>2. SuccessIsAnswered
      BY <1>1 DEF IInv, ClosedByAnswer, SuccessIsAnswered
    <2>3. QED
      BY <2>1, <2>2 DEF WritesAreAccounted
  <1>2. QED
    BY AlwaysIInv, <1>1, PTL

\* A read asks the message's device for all objects, although only the first read's
\* arguments are ever copied, and a write goes to the device and the object of its message
\* (read_property.c:123, york.c:161).  The value it carries is not the message's.
THEOREM RequestsAreMeant == ASSUME MessagesFit PROVE Spec => []AsksWhatIsMeant
  <1>1. ASSUME MessagesFit, IInv PROVE AsksWhatIsMeant
    <2>1. ReadsWhatIsAsked
      BY <1>1, Packing DEF IInv, SentIsMeant, SentFor, ReadsWhatIsAsked
    <2>2. WritesItsObject
      <3> SUFFICES ASSUME Handling, sent.service = "write"
                   PROVE  /\ sent.device = YorkDevice(Ask.mac)
                          /\ SubSeq(sent.asks, 1, 2) = ObjectOf(Ask.method)
        BY DEF WritesItsObject
      <3>1. YorkRows(Ask.method) # <<>> /\ sent = Unfilled(YorkWrite(Ask))
        BY <1>1 DEF IInv, SentIsMeant, SentFor
      <3>2. Ask \in KindType
        BY <1>1, InHandIsNext DEF IInv, MessagesFit
      <3>3. QED
        BY <3>1, <3>2, WriteIsMeant
    <2>3. QED
      BY <2>1, <2>2 DEF AsksWhatIsMeant
  <1>2. QED
    BY AlwaysIInv, <1>1, PTL
=============================================================================
