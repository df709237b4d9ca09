------------------------------ MODULE MC_Parts ------------------------------
(***************************************************************************)
(* The parts the protocols are built on side by side, for TLC: the ring    *)
(* buffer, the list head of a custom bus (klist), the message queue, the   *)
(* timer, the id table and the daemon of the SDK, its configuration tool,  *)
(* the serial ports and the BACnet device object.  They share no state, so *)
(* a behaviour is one part's, chosen at the start, and the variables of    *)
(* the others stay put: those of the modules extended as they start.       *)
(***************************************************************************)
EXTENDS RingBuf, CustomList, MessageQueue, Timer, IdTable, Daemon, SerialPorts, BacnetDevice,
        RepoConfig

VARIABLES
    part,
    outer, entries, parents,                                      \* of a menu
    user, new, chosen, curr, changed, swallowed                   \* of the configuration

Profile(baud, size, stops, parity) ==
    [baud_rate |-> baud, data_bits |-> size, stop_bits |-> stops, parity |-> parity]
PortProfiles ==
    {Profile(9600, 8, 1, "none"), Profile(4800, 7, 2, "odd"), Profile(76800, 9, 0, "even")}
AsSetUp == {Cooked}

Menu == INSTANCE KconfigMenu WITH
    TypeOf <- EntryTypes, Outer <- MenuConditions, Deps <- EntryConditions,
    Conds <- PromptConditions, Symbols <- Entries, NoPrompt <- None, Top <- None
Config == INSTANCE KconfigSymbols WITH
    TypeOf <- FileTypes, Order <- FileOrder, Config <- Files, Numbers <- {1, 3},
    Edited <- {"DEPTH", "P_1S"}

menuOnly == <<outer, entries, parents>>
configOnly == <<user, new, chosen, curr, changed, swallowed>>
sdk == <<vars, listvars, mqvars, itvars, dvars, timervars>>
kconfig == <<menuOnly, configOnly>>
allvars == <<part, sdk, pvars, devicevars, kconfig>>

MenuUnused == outer = None /\ entries = None /\ parents = None
ConfigUnused ==
    /\ user = None /\ new = None /\ chosen = None /\ curr = None /\ changed = None
    /\ swallowed = None
KconfigUnused == MenuUnused /\ ConfigUnused

PartsInit ==
    /\ Init /\ ListInit /\ QueueInit /\ TimerInit /\ TableInit /\ PortsInit /\ DeviceInit
    /\ \/ /\ part \in {"ring buffer", "list", "message queue", "timer", "id table", "daemon",
                     "serial ports", "device"}
          /\ KconfigUnused
       \/ part = "menu" /\ Menu!Init /\ ConfigUnused
       \/ part = "configuration" /\ Config!Init /\ MenuUnused
    /\ DaemonInit /\ (part # "daemon" => \A p \in Processes : single[p])

SdkNext ==
    \/ part = "ring buffer" /\ Next /\ UNCHANGED <<listvars, mqvars, itvars, dvars, timervars>>
    \/ part = "list" /\ ListNext /\ UNCHANGED <<vars, mqvars, itvars, dvars, timervars>>
    \/ part = "message queue" /\ QueueNext /\ UNCHANGED <<vars, listvars, itvars, dvars, timervars>>
    \/ part = "id table" /\ TableNext /\ UNCHANGED <<vars, listvars, mqvars, dvars, timervars>>
    \/ part = "daemon" /\ DaemonNext /\ UNCHANGED <<vars, listvars, mqvars, itvars, timervars>>
    \/ part = "timer" /\ TimerNext /\ UNCHANGED <<vars, listvars, mqvars, itvars, dvars>>

PartsNext ==
    /\ \/ SdkNext /\ UNCHANGED <<pvars, devicevars, kconfig>>
       \/ part = "serial ports" /\ PortsNext /\ UNCHANGED <<sdk, devicevars, kconfig>>
       \/ part = "device" /\ DeviceNext /\ UNCHANGED <<sdk, pvars, kconfig>>
       \/ part = "menu" /\ Menu!Next /\ UNCHANGED <<sdk, pvars, devicevars, configOnly>>
       \/ part = "configuration" /\ Config!Next /\ UNCHANGED <<sdk, pvars, devicevars, menuOnly>>
    /\ UNCHANGED part

PartsSpec == PartsInit /\ [][PartsNext]_allvars

-----------------------------------------------------------------------------
\* The properties of the list of a custom bus, the message queue, the timer, the id table, the
\* daemon and the BACnet device are those of their modules: ListIsSound (CustomList), OwnedOnce
\* and SleepersAreAccounted (MessageQueue), CalledOnTime (Timer), KeepsElementsApart (IdTable),
\* PidFileNamesTheDaemon (Daemon) and CacheIsGood (BacnetDevice).  The serial ports have a run
\* of their own.

\* The conditions of a menu's entries mean what was written, however they are rewritten,
\* and an entry that can be seen is under one that can be seen or is set (KconfigMenu).
MenuShowsWhatIsMeant ==
    part = "menu" => Menu!ConditionsMeanWhatTheySay /\ Menu!SubmenusFollow

\* The values of the configuration are those that its files and the user's choices call
\* for, and no older ones (KconfigSymbols).
ValuesAreRight == part = "configuration" => Config!ValuesAreCurrent /\ Config!ValuesFitTogether

\* Saving and reading the configuration keeps the values (KconfigSymbols).
SaveKeepsValues == part = "configuration" => Config!SaveKeepsValues
=============================================================================
