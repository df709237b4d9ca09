---------------------------- MODULE BacnetWorker ----------------------------
(***************************************************************************)
(* The worker thread of the BACnet protocol (protocol/bacnet/bacnet.c) and *)
(* the property services it calls (write_property.c, read_property.c).  The*)
(* BACnet stack is outside: a pool of transactions that it opens when a    *)
(* request is sent, closes when an answer is received, and may give up by  *)
(* its timer.  Nothing but the write service receives.                     *)
(***************************************************************************)
EXTENDS BacnetRequests

CONSTANTS UnitIds,     \* MAC addresses whose device answers the address binding
          MaxGivenUp   \* bound: transactions the stack's timer gives up

\* call: one of the setters, the information handler, or no send handler at all.
KindType == [call : {"set", "info", "none"}, method : 0..255, mac : 0..255]

\* The fields of a message are bytes, and no transaction has the id that stands for none.
MessagesFit == Kinds \subseteq KindType /\ 0 \notin Ids

VARIABLES
    arg,        \* write_arg or read_arg of the message in hand
    i,          \* iterations of the write loop
    rid,        \* Request_Invoke_ID of read_property.c
    Error_Detected,
    copied,     \* init of memcpy_read_args
    read_access_data,
    retval,     \* result of the last bacnet_write_property
    givenUp

bvars == <<tvars, arg, i, rid, Error_Detected, copied, read_access_data, retval, givenUp>>
vars == <<qvars, pc, bvars>>

Init ==
    /\ InitQueue /\ NoneOpen /\ answered = FALSE
    /\ arg = NoRequest /\ i = 0 /\ rid = 0
    /\ Error_Detected = FALSE /\ copied = FALSE
    /\ read_access_data = <<>> /\ retval = 0 /\ givenUp = 0

-----------------------------------------------------------------------------
(* bacnet_work_thread_function up to the service *)

\* Ringbuf_Peek and the send handler: without one, or when it fails, the message is
\* dropped.
Package ==
    /\ pc = "check" /\ queue # <<>>
    /\ arg' = CASE Ask.call = "set" -> YorkWrite(Ask)
                [] Ask.call = "info" -> YorkInfo(Ask)
                [] OTHER -> NoRequest
    /\ Found(IF arg'.service = "none" THEN "pop" ELSE arg'.service)
    /\ answered' = FALSE /\ sent' = NoRequest
    /\ UNCHANGED <<i, wid, rid, success, Error_Detected, copied, read_access_data, retval,
                   tsm, givenUp>>

\* The devices address_bind_request may find.
Known(device) == \E mac \in UnitIds : YorkDevice(mac) = device

\* A request opens a transaction, if one is free; 0 says it was not sent.
Sends(id, request) ==
    \/ /\ tsm[id] = "free"
       /\ tsm' = [tsm EXCEPT ![id] = request.service]
       /\ sent' = request

NoneFree == \A d \in Ids : tsm[d] # "free"

-----------------------------------------------------------------------------
(* bacnet_write_property *)

WriteBind ==
    /\ \/ /\ Known(arg.device)
          /\ GoTo("write", "loop")
          /\ i' = 0 /\ success' = FALSE /\ UNCHANGED retval
       \/ /\ GoTo("write", "pop")
          /\ retval' = -1 /\ UNCHANGED <<i, success>>
    /\ UNCHANGED <<arg, wid, rid, Error_Detected, copied, read_access_data, tsm, answered,
                   sent, givenUp>>

\* Target_Object_Property_Value[0] is never filled: the parse of the arguments' value is
\* compiled out, so what goes into the request is the zeroed static, a NULL.
Unfilled(request) ==
    [request EXCEPT !.asks = <<request.asks[1], request.asks[2], NullValue>>]

\* No request out yet: send one; the stack may have no transaction left.
WriteSend ==
    /\ wid = 0
    /\ GoTo("loop", "receive")
    /\ \/ \E id \in Ids : wid' = id /\ Sends(id, Unfilled(arg))
       \/ NoneFree /\ wid' = 0 /\ UNCHANGED <<tsm, sent>>
    /\ UNCHANGED <<arg, i, rid, success, Error_Detected, copied, read_access_data, retval,
                   answered, givenUp>>

\* The transaction is closed, has failed, or is still open.
WriteLook ==
    /\ pc = "loop" /\ wid # 0
    /\ \/ /\ tsm[wid] = "free"
          /\ success' = TRUE
          /\ GoTo("loop", "finish")
          /\ UNCHANGED <<Error_Detected, tsm>>
       \/ /\ tsm[wid] = "failed"
          /\ tsm' = [tsm EXCEPT ![wid] = "free"]
          /\ Error_Detected' = TRUE
          /\ GoTo("loop", "finish")
          /\ UNCHANGED success
       \/ /\ tsm[wid] = "write"
          /\ GoTo("loop", "receive")
          /\ UNCHANGED <<success, Error_Detected, tsm>>
    /\ UNCHANGED <<arg, i, wid, rid, copied, read_access_data, retval, answered, sent,
                   givenUp>>

\* datalink_receive and npdu_handler: nothing in time, or traffic that is no answer; or
\* an answer, of whichever kind, that closes the transaction it is for.
Receive ==
    /\ i' = i + 1
    /\ GoTo("receive", IF i' < 2 THEN "loop" ELSE "finish")
    /\ \/ UNCHANGED <<tsm, answered>>
       \/ \E id \in Ids : /\ tsm[id] \in {"write", "read"}
                          /\ tsm' = [tsm EXCEPT ![id] = "free"]
                          /\ answered' = (answered \/ id = wid)
    /\ UNCHANGED <<arg, wid, rid, success, Error_Detected, copied, read_access_data, retval,
                   sent, givenUp>>

\* Mutant: the transaction of a write without an answer is left open.
FinishKeepsTransaction ==
    /\ GoTo("finish", "pop")
    /\ tsm' = IF ~success /\ wid = 0 THEN [tsm EXCEPT ![wid] = "free"] ELSE tsm
    /\ wid' = 0
    /\ retval' = IF Error_Detected THEN -1 ELSE 0
    /\ UNCHANGED <<arg, i, rid, success, Error_Detected, copied, read_access_data, answered,
                   sent, givenUp>>

\* An unfinished transaction is freed, and the id forgotten.
Finish ==
    /\ GoTo("finish", "pop")
    /\ tsm' = IF ~success /\ wid # 0 THEN [tsm EXCEPT ![wid] = "free"] ELSE tsm
    /\ wid' = 0
    /\ retval' = IF Error_Detected THEN -1 ELSE 0
    /\ UNCHANGED <<arg, i, rid, success, Error_Detected, copied, read_access_data, answered,
                   sent, givenUp>>

-----------------------------------------------------------------------------
(* bacnet_read_property *)

\* Mutant: the flag is set, and the list ended, with the first object.
ReadCopiesOne ==
    /\ GoTo("read", "request")
    /\ read_access_data' = IF copied THEN read_access_data ELSE <<Head(arg.asks)>>
    /\ copied' = TRUE
    /\ UNCHANGED <<arg, i, wid, rid, success, Error_Detected, retval, tsm, answered, sent,
                   givenUp>>

\* memcpy_read_args: only the first read's arguments are ever copied.
ReadCopy ==
    /\ GoTo("read", "request")
    /\ read_access_data' = IF copied THEN read_access_data ELSE arg.asks
    /\ copied' = TRUE
    /\ UNCHANGED <<arg, i, wid, rid, success, Error_Detected, retval, tsm, answered, sent,
                   givenUp>>

\* The request is sent; its answer is not waited for, nor its transaction freed.
ReadSend ==
    /\ pc = "request"
    /\ \/ GoTo("request", "pop") /\ UNCHANGED <<rid, tsm, sent>>   \* no such device
       \/ /\ Known(arg.device) /\ GoTo("request", "pop")
          /\ \/ \E id \in Ids :
                   rid' = id /\ Sends(id, [arg EXCEPT !.asks = read_access_data])
             \/ NoneFree /\ rid' = 0 /\ UNCHANGED <<tsm, sent>>
    /\ UNCHANGED <<arg, i, wid, success, Error_Detected, copied, read_access_data, retval,
                   answered, givenUp>>

-----------------------------------------------------------------------------
\* The stack's timer gives a transaction up: a request that was sent again until its
\* retries were used.
TsmGivesUp ==
    /\ givenUp < MaxGivenUp
    /\ givenUp' = givenUp + 1
    /\ \E id \in Ids : /\ tsm[id] \in {"write", "read"}
                       /\ tsm' = [tsm EXCEPT ![id] = "failed"]
    /\ UNCHANGED <<qvars, pc, arg, i, wid, rid, success, Error_Detected, copied,
                   read_access_data, retval, answered, sent>>

Worker ==
    \/ (Idle /\ UNCHANGED bvars)
    \/ Package \/ WriteBind \/ WriteSend \/ WriteLook \/ Receive \/ Finish
    \/ ReadCopy \/ ReadSend

Next == Worker \/ TsmGivesUp \/ (Producing /\ UNCHANGED bvars)

Spec == Init /\ [][Next]_vars
FairSpec ==
    Spec /\ WF_vars(Worker) /\ \A p \in Producers : WF_vars(PostSem(p) /\ UNCHANGED bvars)

-----------------------------------------------------------------------------
(* Properties *)

\* The state has the types the code gives it.
BacnetTypeOK ==
    /\ QueueTypeOK
    /\ i \in 0..2 /\ {wid, rid} \subseteq Ids \cup {0} /\ retval \in {-1, 0}
    /\ tsm \in [Ids -> {"free", "write", "read", "failed"}]
    /\ \A flag \in {success, Error_Detected, copied, answered} : flag \in BOOLEAN
=============================================================================
