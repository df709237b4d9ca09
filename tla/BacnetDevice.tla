---------------------------- MODULE BacnetDevice ----------------------------
(***************************************************************************)
(* The BACnet device object of the daemon (protocol/bacnet/device-client.c)*)
(* and its start (bacnet_service_init in handle_property.c).  The object is*)
(* changed by calls of the daemon, and its properties are read over the bus*)
(* when a worker runs the stack: the two are different threads.  A client  *)
(* on the bus keeps what it has read and looks at the database revision to *)
(* learn that something has changed.  The stack and the client are outside *)
(* the repository.                                                         *)
(***************************************************************************)
EXTENDS Integers, FiniteSets

CONSTANTS
    Instances,              \* instance numbers calls ask for
    BACNET_MAX_INSTANCE,
    Configured,             \* glb_config_bacnet_object_instance, in one start or another
    Names,                  \* names calls ask for, the one of Device_Init among them
    DefaultName, NoName,
    PointerSize,            \* sizeof(char *)
    RevisionMod,            \* 2^32
    MaxCalls                \* bound: calls, over all starts

VARIABLES
    Object_Instance_Number, My_Object_Name, System_Status, Database_Revision,
    calling,    \* what the call in hand has still to do
    serving,    \* the handlers are installed
    crashed,
    cached,     \* the client's copy: id, revision, name
    exempt,     \* the copy is older than a change that is not told by the revision (history)
    calls

object == <<Object_Instance_Number, My_Object_Name, System_Status, Database_Revision>>
devicevars == <<object, calling, serving, crashed, cached, exempt, calls>>

Unread == -1
Nothing == [id |-> Unread, revision |-> Unread, name |-> NoName]
AnyIndex == -1      \* BACNET_ARRAY_ALL

Defaults ==
    /\ Object_Instance_Number = 260001 /\ My_Object_Name = NoName
    /\ System_Status = "operational" /\ Database_Revision = 0
    /\ calling = "idle" /\ serving = FALSE /\ crashed = FALSE

DeviceInit == Defaults /\ cached = Nothing /\ exempt = FALSE /\ calls = 0

-----------------------------------------------------------------------------
(* The object list: the device itself *)

Object_Table == <<"device">>
Device_Object_List_Count == 1

\* Device_Object_List_Identifier; an index of zero is the length, so invalid.
Device_Object_List_Identifier(index) ==
    IF index \in 1..Device_Object_List_Count
    THEN <<Object_Table[1], Object_Instance_Number>> ELSE <<>>

\* Device_Objects_Find_Functions and Device_Valid_Object_Id
Device_Valid_Object_Id(type, instance) == type = "device" /\ instance = Object_Instance_Number

\* Device_Valid_Object_Name: the object of a name, or none.
Device_Valid_Object_Name(name) ==
    IF name = My_Object_Name THEN Device_Object_List_Identifier(1) ELSE <<>>

Failure(code) == [code |-> code, value |-> <<>>]
Success(value) == [code |-> "ok", value |-> value]

\* What has the same value all the time, or the stack's.
Constants == {"object_type", "description", "vendor_name", "vendor_identifier", "model_name",
    "firmware_revision", "application_software_version", "location", "protocol_version",
    "protocol_revision", "protocol_services_supported", "protocol_object_types_supported",
    "max_apdu_length_accepted", "segmentation_supported", "apdu_timeout",
    "number_of_apdu_retries", "device_address_binding", "max_info_frames", "max_master",
    "active_cov_subscriptions"}

\* Device_Read_Property_Local: only the object list is an array.
ReadLocal(property, index) ==
    CASE property = "object_list" /\ index = 0 -> Success(Device_Object_List_Count)
      [] property = "object_list" /\ index = AnyIndex -> Success(Device_Object_List_Identifier(1))
      [] property = "object_list" /\ index \notin {0, AnyIndex} ->
            IF Device_Object_List_Identifier(index) = <<>> THEN Failure("invalid array index")
            ELSE Success(Device_Object_List_Identifier(index))
      [] property \notin Constants \cup {"object_list", "object_identifier", "object_name",
                                         "system_status", "database_revision"} ->
            Failure("unknown property")
      [] OTHER ->
            IF index # AnyIndex THEN Failure("property is not an array")
            ELSE Success(CASE property = "object_identifier" -> <<"device", Object_Instance_Number>>
                           [] property = "object_name" -> My_Object_Name
                           [] property = "system_status" -> System_Status
                           [] property = "database_revision" -> Database_Revision
                           [] OTHER -> property)

\* Device_Read_Property
Device_Read_Property(type, instance, property, index) ==
    IF Device_Valid_Object_Id(type, instance) THEN ReadLocal(property, index)
    ELSE Failure("unknown object")

-----------------------------------------------------------------------------
(* The calls of the daemon *)

Call ==
    /\ calling = "idle" /\ ~crashed
    /\ calls < MaxCalls /\ calls' = calls + 1

\* bacnet_service_init, first half: Device_Set_Object_Instance_Number.
ServiceInit ==
    /\ Call
    /\ \E n \in Configured : Object_Instance_Number' = n
    /\ calling' = "increment, initialize"
    /\ UNCHANGED <<My_Object_Name, System_Status, Database_Revision, serving, crashed,
                   cached, exempt>>

\* Second half: Device_Init, which names the object, and the handlers.
Device_Init ==
    /\ calling = "initialize"
    /\ My_Object_Name' = DefaultName
    /\ serving' = TRUE /\ calling' = "idle"
    /\ exempt' = (exempt \/ My_Object_Name # DefaultName)
    /\ UNCHANGED <<Object_Instance_Number, System_Status, Database_Revision, crashed,
                   cached, calls>>

\* Device_Set_Object_Instance_Number: too large a number is refused.
SetInstance(n) ==
    /\ Call /\ n <= BACNET_MAX_INSTANCE
    /\ Object_Instance_Number' = n /\ calling' = "increment"
    /\ UNCHANGED <<My_Object_Name, System_Status, Database_Revision, serving, crashed,
                   cached, exempt>>

\* Mutant: the revision is updated before the change.
SetNameTooEarly(name) ==
    \/ /\ Call /\ name # My_Object_Name
       /\ Database_Revision' = (Database_Revision + 1) % RevisionMod
       /\ calling' = name
       /\ UNCHANGED <<Object_Instance_Number, My_Object_Name, System_Status, serving, crashed,
                      cached, exempt>>
    \/ /\ calling = name
       /\ My_Object_Name' = name /\ calling' = "idle"
       /\ UNCHANGED <<Object_Instance_Number, System_Status, Database_Revision, serving,
                      crashed, cached, exempt, calls>>

\* Device_Set_Object_Name: the name it has already is no change.
SetName(name) ==
    /\ Call /\ name # My_Object_Name
    /\ My_Object_Name' = name /\ calling' = "increment"
    /\ UNCHANGED <<Object_Instance_Number, System_Status, Database_Revision, serving, crashed,
                   cached, exempt>>

\* Device_Inc_Database_Revision, the end of these calls.
Increment ==
    /\ calling \in {"increment", "increment, initialize"}
    /\ Database_Revision' = (Database_Revision + 1) % RevisionMod
    /\ calling' = IF calling = "increment" THEN "idle" ELSE "initialize"
    /\ UNCHANGED <<Object_Instance_Number, My_Object_Name, System_Status, serving, crashed,
                   cached, exempt, calls>>

\* Device_Set_Database_Revision
SetRevision(r) ==
    /\ Call /\ Database_Revision' = r
    /\ exempt' = TRUE
    /\ UNCHANGED <<Object_Instance_Number, My_Object_Name, System_Status, calling, serving,
                   crashed, cached>>

\* Device_Set_System_Status: what is not allowed changes nothing.
SetStatus(status, local) ==
    /\ Call
    /\ status \in {"operational", "read only", "non operational"}
          \cup (IF local THEN {"download required", "download in progress"} ELSE {})
    /\ System_Status' = status
    /\ UNCHANGED <<Object_Instance_Number, My_Object_Name, Database_Revision, calling, serving,
                   crashed, cached, exempt>>

\* Device_Set_Model_Name, _Application_Software_Version, _Description and _Location: what
\* is shorter than a pointer is written over a string literal; the rest is refused.
SetText(length) ==
    /\ Call /\ length < PointerSize
    /\ crashed' = TRUE
    /\ UNCHANGED <<object, calling, serving, cached, exempt>>

\* The daemon is started again, with nothing kept.
Restart ==
    /\ calls < MaxCalls /\ calls' = calls + 1
    /\ Object_Instance_Number' = 260001 /\ My_Object_Name' = NoName
    /\ System_Status' = "operational" /\ Database_Revision' = 0
    /\ calling' = "idle" /\ serving' = FALSE /\ crashed' = FALSE
    /\ exempt' = TRUE /\ UNCHANGED cached

-----------------------------------------------------------------------------
(* The client *)

Served == serving /\ ~crashed
Reads == UNCHANGED <<object, calling, serving, crashed, calls>>

\* Who-Is, answered by I-Am.
Discover ==
    /\ Served
    /\ cached' = [Nothing EXCEPT !.id = Object_Instance_Number]
    /\ exempt' = FALSE
    /\ Reads

Answer(property) == Device_Read_Property("device", cached.id, property, AnyIndex)

\* A new revision makes it forget the rest; an error, all.
ReadRevision ==
    /\ Served /\ cached.id # Unread
    /\ cached' = CASE Answer("database_revision").code # "ok" -> Nothing
                   [] Answer("database_revision") = Success(cached.revision) -> cached
                   [] OTHER -> [cached EXCEPT !.revision = Answer("database_revision").value,
                                              !.name = NoName]
    /\ exempt' = (exempt /\ cached' = cached)
    /\ Reads

ReadName ==
    /\ Served /\ cached.revision # Unread
    /\ cached' = IF Answer("object_name").code # "ok" THEN Nothing
                 ELSE [cached EXCEPT !.name = Answer("object_name").value]
    /\ UNCHANGED exempt
    /\ Reads

DeviceNext ==
    \/ ServiceInit \/ Device_Init \/ Increment
    \/ \E n \in Instances : SetInstance(n)
    \/ \E name \in Names : SetName(name)
    \/ \E r \in 0..1 : SetRevision(r)
    \/ \E status \in {"operational", "download required", "backup in progress"},
          local \in BOOLEAN : SetStatus(status, local)
    \/ \E length \in {1, PointerSize} : SetText(length)
    \/ Restart
    \/ Discover \/ ReadRevision \/ ReadName

DeviceSpec == DeviceInit /\ [][DeviceNext]_devicevars

-----------------------------------------------------------------------------
(* Properties *)

\* A client that finds the revision it has kept may go on using the name it has kept: every
\* change is told by the revision once its call is over, whenever the client has read
\* (device-client.c:202).  A start of the daemon, a second bacnet_service_init after a change
\* of the name, and Device_Set_Database_Revision are exempt: they do not tell.
CacheIsGood ==
    /\ Served /\ calling = "idle" /\ ~exempt /\ cached.name # NoName
    /\ Answer("database_revision").code = "ok"
    /\ Answer("database_revision").value = cached.revision
    => /\ cached.name = My_Object_Name
       /\ Device_Valid_Object_Name(cached.name) = <<"device", cached.id>>
=============================================================================
