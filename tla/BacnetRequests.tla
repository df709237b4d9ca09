--------------------------- MODULE BacnetRequests ---------------------------
(***************************************************************************)
(* What the BACnet worker asks of the bus: the handlers of its device, the *)
(* York air conditioner (york.c), which make a request of a message, the   *)
(* transactions requests are sent with, and what both have to be.  How the *)
(* worker goes about it is BacnetWorker.                                   *)
(***************************************************************************)
EXTENDS WorkQueue

CONSTANT Ids    \* invoke ids of the transaction pool, without 0

VARIABLES
    wid,        \* Request_Invoke_ID of write_property.c
    success,    \* has the loop of write_property.c found its transaction closed
    tsm,        \* the transactions: what each is for, "free" or "failed"
    answered,   \* was the write in hand answered (history)
    sent        \* the last request sent (history)

tvars == <<wid, success, tsm, answered, sent>>

Nowhere == -1
NullValue == -1     \* a value tagged NULL
NoRequest == [device |-> Nowhere, service |-> "none", asks |-> <<>>]

\* No transaction is open and nothing has been sent.
NoneOpen ==
    /\ wid = 0 /\ success = FALSE /\ tsm = [d \in Ids |-> "free"]
    /\ sent = NoRequest

-----------------------------------------------------------------------------
(* york.c *)

\* york_air_condition_object: object type, instance and value of a row.
YorkObject(r) ==
    CASE r \in 0..14 -> <<2, 0, 18 + r>>
      [] r = 15 -> <<2, 1, 60>>
      [] r \in 16..19 -> <<14, 2, r - 16>>
      [] r \in 20..23 -> <<14, 1, (<<0, 1, 3, 2>>)[r - 19]>>
      [] r \in 24..28 -> <<14, 0, r - 24>>
      [] r \in 29..30 -> <<5, 0, r - 29>>
      [] r \in 31..54 -> <<5, (r - 29) \div 2, r % 2>>

\* york_air_condition_read_property: object types and instances
YorkRead == <<<<0, 0>>, <<0, 1>>, <<0, 2>>, <<0, 3>>, <<0, 4>>, <<0, 5>>, <<3, 1>>>>

\* The rows get_air_york_write_args takes the object and the value from; they differ
\* for a mode.
YorkRows(method) ==
    CASE method \in 18..30 -> <<method - 18, method - 18>>
      [] method \in 41..44 -> <<method - 41 + 16, method - 41 + 16>>
      [] method \in 51..54 -> <<method - 51 + 20, method - 51 + 20>>
      [] method \in 61..65 -> <<method - 61 + 24, method - 51 + 24>>
      [] method \in 71..72 -> <<method - 71 + 29, method - 71 + 29>>
      [] OTHER -> <<>>

\* get_air_york_instance; an error becomes a device id nobody has.
YorkDevice(mac) == IF mac \in 17..31 THEN 10001 + mac - 17 ELSE Nowhere

\* york_kelong_set_temperature, _mode, _swing, _fan and _switch: the arguments, or
\* none for a method that has no row.
YorkWrite(m) ==
    LET rows == YorkRows(m.method)
    IN  IF rows = <<>> THEN NoRequest
        ELSE [device |-> YorkDevice(m.mac), service |-> "write",
              asks |-> <<YorkObject(rows[1])[1], YorkObject(rows[1])[2], YorkObject(rows[2])[3]>>]

\* york_kelong_get_device_info_send
YorkInfo(m) == [device |-> YorkDevice(m.mac), service |-> "read", asks |-> YorkRead]

-----------------------------------------------------------------------------
(* Properties *)

\* Whatever became of a write, answered, given up or never answered, none of the pool's
\* transactions is still its own when the next message is taken.
WritesLeaveNoTransaction ==
    pc \in {"wait", "check", "pop"} => wid = 0 /\ \A id \in Ids : tsm[id] # "write"

\* A write is taken for a success only if its own answer was received.
SuccessIsAnswered == pc = "finish" /\ success => answered

\* The bookkeeping of a write's transaction (write_property.c:113): it is freed whatever
\* became of it, and was answered if it is taken for a success.
WritesAreAccounted == WritesLeaveNoTransaction /\ SuccessIsAnswered

\* Every read asks its device for all that its message wants, although the arguments
\* are copied for the first one only: they are the same for every device there is.
ReadsWhatIsAsked ==
    Handling /\ sent.service = "read" =>
        sent.asks = YorkInfo(Ask).asks /\ sent.device = YorkDevice(Ask.mac)

\* The object a method is about: type and instance.
ObjectOf(method) ==
    CASE method \in 18..30 -> <<2, 0>>
      [] method \in 41..44 -> <<14, 2>>
      [] method \in 51..54 -> <<14, 1>>
      [] method \in 61..65 -> <<14, 0>>
      [] method \in 71..72 -> <<5, 0>>

\* A write goes to the device of the message's address and to the object its method is
\* about.  (The value it carries is not the method's: write_property.c never fills it in.)
WritesItsObject ==
    Handling /\ sent.service = "write" =>
        /\ sent.device = YorkDevice(Ask.mac)
        /\ SubSeq(sent.asks, 1, 2) = ObjectOf(Ask.method)

\* What is sent is what the message in hand asks for (york.c:161, read_property.c:123).
AsksWhatIsMeant == ReadsWhatIsAsked /\ WritesItsObject
=============================================================================
