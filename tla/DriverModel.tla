----------------------------- MODULE DriverModel -----------------------------
(***************************************************************************)
(* The driver model: buses, drivers and devices as core/core.c and         *)
(* core/mdev.c keep them on top of sdk/framework/bus (bus.c,               *)
(* device_driver.c, device.c) and sdk/module/list/wlist.c.  One thread     *)
(* (main) makes all the calls; each action is one call of core.c.          *)
(*                                                                         *)
(* A driver is a static structure of its module: registering it on a       *)
(* second bus overwrites its bus and its driver_private pointer.  A bus is *)
(* identified by its port.  A step that would use freed memory, follow a   *)
(* null pointer, free twice or never return sets fault and ends the run.   *)
(***************************************************************************)
EXTENDS Integers, Sequences, FiniteSets, SequencesExt

CONSTANTS
    Buses, Drivers, Devices,
    None,            \* the null pointer
    DriverName,      \* driver->name
    Names,           \* what a device's info.match_driver may say
    TableSize,       \* RS485_DEVICE_MAX_NUMBERS
    MaxPriv,         \* bound: driver_private structures ever allocated
    Callers          \* what the callers may do: the <<driver, bus>> pairs they register,
                     \* the drivers and buses they unregister, the devices they create
                     \* and the devices they destroy

Privs == 1..MaxPriv
NoId == -1                         \* -EPERM, what a full table answers
Ids == NoId..(TableSize - 1)

ASSUME DriverModelAssumption ==
    /\ None \notin Buses \cup Drivers \cup Devices \cup Privs
    /\ DriverName \in [Drivers -> Names]
    /\ TableSize \in Nat \ {0} /\ MaxPriv \in Nat
    /\ \A c \in Callers : c.registers \subseteq Drivers \X Buses

VARIABLES
    bus,        \* [Buses -> "none" | "live" | "gone"]
    drvList,    \* bus->p->wlist_drivers, per bus, as driver_privates
    devList,    \* bus->p->wlist_devices, per bus
    made,       \* number of driver_privates allocated so far
    owner,      \* priv->driver, None once freed (or not yet allocated)
    privOn,     \* priv->wnode_bus.n_wlist
    bound,      \* priv->wlist_devices
    drvP,       \* driver->driver.p
    registered, \* successful registrations per driver, less the unregistrations
    device,     \* [Devices -> "none" | "live" | "freed"]
    wants,      \* device->info.match_driver
    devBus,     \* device->dev.bus
    devOn,      \* device->dev.wnode_bus.n_wlist
    devDriver,  \* device->dev.driver
    devAt,      \* device->dev.wnode_driver.n_wlist
    id,         \* device->id
    table,      \* rs485_device_table, and the word below it
    fault,      \* "none", or what went wrong
    callers     \* the callers of this run, the same throughout

busVars    == <<bus, drvList, devList>>
driverVars == <<made, owner, privOn, bound, drvP, registered>>
deviceVars == <<device, wants, devBus, devOn, devDriver, devAt, id, table>>
vars == <<busVars, driverVars, deviceVars, fault, callers>>

Init ==
    /\ bus = [b \in Buses |-> "none"]
    /\ drvList = [b \in Buses |-> <<>>]
    /\ devList = [b \in Buses |-> <<>>]
    /\ made = 0
    /\ owner = [p \in Privs |-> None]
    /\ privOn = [p \in Privs |-> None]
    /\ bound = [p \in Privs |-> <<>>]
    /\ drvP = [d \in Drivers |-> None]
    /\ registered = [d \in Drivers |-> 0]
    /\ device = [v \in Devices |-> "none"]
    /\ wants = [v \in Devices |-> None]
    /\ devBus = [v \in Devices |-> None]
    /\ devOn = [v \in Devices |-> None]
    /\ devDriver = [v \in Devices |-> None]
    /\ devAt = [v \in Devices |-> None]
    /\ id = [v \in Devices |-> 0]
    /\ table = [i \in Ids |-> None]
    /\ fault = "none"
    /\ callers \in Callers

Running == fault = "none"

Fails(what) ==
    /\ fault' = what
    /\ UNCHANGED <<busVars, driverVars, deviceVars>>

\* A sequence without its i-th entry, or as it is when there is none.
Without(s, i) == IF i \in 1..Len(s) THEN RemoveAt(s, i) ELSE s

\* Mutant: the entry the iteration stopped at is taken off.
LeftoverCurrent(s, i) == i

\* The list node an iteration that stopped at entry i leaves as its current one:
\* bus_for_each_drv fetches the next entry before it looks at the result, and
\* wlist_iter_exit then takes that entry off the list.
Leftover(s, i) == IF i > 0 THEN i + 1 ELSE 0

\* The node wlist_iter_exit unlinks, as a set.
Unlinked(s, i) == IF Leftover(s, i) \in 1..Len(s) THEN {s[Leftover(s, i)]} ELSE {}

\* The first of some indexes, 0 when there is none.
FirstOf(hits) == IF hits = {} THEN 0 ELSE CHOOSE i \in hits : \A j \in hits : i <= j

\* The entries of a sequence that are in a set, in their order.
Selected(s, set) ==
    LET F[i \in 0..Len(s)] ==
            IF i = 0 THEN <<>>
            ELSE IF s[i] \in set THEN Append(F[i - 1], s[i]) ELSE F[i - 1]
    IN  F[Len(s)]

\* rs485_device_match answers 0 for the driver the device asks for, and
\* driver_probe_device goes on to the probe when the answer is not 0.
Offered(d, name) == DriverName[d] # name

-----------------------------------------------------------------------------
(* Buses *)

\* bus_initcalls -> custom_init -> rs485_bus_register; a port in use, a failing
\* probe, bus_register or pthread_create leave nothing behind.
BusRegister(b) ==
    /\ Running /\ bus[b] = "none"
    /\ bus' = [bus EXCEPT ![b] = "live"]
    /\ UNCHANGED <<drvList, devList, driverVars, deviceVars, fault>>

\* bus_exitcalls -> custom_exit -> rs485_bus_unregister: the bus goes, with the
\* two lists its drivers and devices are linked into.
BusUnregister(b) ==
    /\ Running /\ bus[b] = "live" /\ b \in callers.unregisters
    /\ bus' = [bus EXCEPT ![b] = "gone"]
    /\ UNCHANGED <<drvList, devList, driverVars, deviceVars, fault>>

-----------------------------------------------------------------------------
(* Drivers *)

\* driver_find stops at a driver of that name, and costs the list the entry after.
DriverExists(d, b, at) ==
    /\ drvList' = [drvList EXCEPT ![b] = Without(@, Leftover(@, at))]
    /\ privOn' = [p \in Privs |->
                    IF p \in Unlinked(drvList[b], at) THEN None ELSE privOn[p]]
    /\ UNCHANGED <<bus, devList, made, owner, bound, drvP, registered, deviceVars,
                   fault>>

\* Mutant: driver_attach also offers the driver the devices that have one.
DriverAddSteals(d, b, accept) ==
    LET p == made + 1
        taken == {v \in accept : devOn[v] = b /\ Offered(d, wants[v])}
    IN  /\ made < MaxPriv
        /\ made' = p
        /\ owner' = [owner EXCEPT ![p] = d]
        /\ drvP' = [drvP EXCEPT ![d] = p]
        /\ bound' = [bound EXCEPT ![p] = Selected(devList[b], taken)]
        /\ devDriver' = [v \in Devices |-> IF v \in taken THEN d ELSE devDriver[v]]
        /\ devAt' = [v \in Devices |-> IF v \in taken THEN p ELSE devAt[v]]
        /\ drvList' = [drvList EXCEPT ![b] = Append(@, p)]
        /\ privOn' = [privOn EXCEPT ![p] = b]
        /\ registered' = [registered EXCEPT ![d] = @ + 1]
        /\ UNCHANGED <<bus, devList, device, wants, devBus, devOn, id, table, fault>>

\* bus_add_driver: a new driver_private, driver_attach over the bus's devices
\* (accept: those the driver's probe succeeds on), then the tail of the list.
DriverAdd(d, b, accept) ==
    LET p == made + 1
        taken == {v \in accept : devOn[v] = b /\ devDriver[v] = None /\ Offered(d, wants[v])}
    IN  /\ made < MaxPriv
        /\ made' = p
        /\ owner' = [owner EXCEPT ![p] = d]
        /\ drvP' = [drvP EXCEPT ![d] = p]
        /\ bound' = [bound EXCEPT ![p] = Selected(devList[b], taken)]
        /\ devDriver' = [v \in Devices |-> IF v \in taken THEN d ELSE devDriver[v]]
        /\ devAt' = [v \in Devices |-> IF v \in taken THEN p ELSE devAt[v]]
        /\ drvList' = [drvList EXCEPT ![b] = Append(@, p)]
        /\ privOn' = [privOn EXCEPT ![p] = b]
        /\ registered' = [registered EXCEPT ![d] = @ + 1]
        /\ UNCHANGED <<bus, devList, device, wants, devBus, devOn, id, table, fault>>

\* rs485_driver_register on the bus of that name (-ENODEV when there is none).
DriverRegister(d, b) ==
    LET at == FirstOf({i \in 1..Len(drvList[b]) :
                          DriverName[owner[drvList[b][i]]] = DriverName[d]})
    IN  /\ Running /\ <<d, b>> \in callers.registers /\ bus[b] = "live"
        /\ IF at > 0 THEN DriverExists(d, b, at)
           ELSE \E accept \in SUBSET Devices : DriverAdd(d, b, accept)

\* wlist_remove, driver_detach and free(drv->p).
DriverRemove(d, p) ==
    /\ drvList' = [drvList EXCEPT ![privOn[p]] = Selected(@, Privs \ {p})]
    /\ privOn' = [privOn EXCEPT ![p] = None]
    /\ devDriver' = [v \in Devices |-> IF devAt[v] = p THEN None ELSE devDriver[v]]
    /\ devAt' = [v \in Devices |-> IF devAt[v] = p THEN None ELSE devAt[v]]
    /\ bound' = [bound EXCEPT ![p] = <<>>]
    /\ owner' = [owner EXCEPT ![p] = None]
    /\ registered' = [registered EXCEPT ![d] = @ - 1]
    /\ UNCHANGED <<bus, devList, made, drvP, device, wants, devBus, devOn, id, table,
                   fault>>

\* rs485_driver_unregister -> bus_remove_driver.  drv->p may be gone (it was freed
\* by an earlier call), may not be linked any more, or be linked to a freed bus;
\* driver_detach spins on a device of its list that belongs to another driver.
DriverUnregister(d) ==
    LET p == drvP[d]
    IN  /\ Running /\ registered[d] > 0 /\ d \in callers.unregisters
        /\ \/ owner[p] = None /\ Fails("use after free")
           \/ owner[p] # None /\ privOn[p] = None /\ Fails("null pointer")
           \/ owner[p] # None /\ privOn[p] # None /\ bus[privOn[p]] = "gone"
                /\ Fails("use after free")
           \/ /\ owner[p] # None /\ privOn[p] # None /\ bus[privOn[p]] # "gone"
              /\ IF \E i \in 1..Len(bound[p]) : devDriver[bound[p][i]] # d
                 THEN Fails("endless loop")
                 ELSE DriverRemove(d, p)

-----------------------------------------------------------------------------
(* Devices *)

\* get_device_id: the lowest free index, from 1 on.
NextId ==
    LET free == {i \in 1..(TableSize - 1) : table[i] = None}
    IN  IF free = {} THEN NoId ELSE FirstOf(free)

\* device_attach -> bus_for_each_drv over the bus's drivers: the first one offered
\* whose probe succeeds (it is in accept) takes the device.
Taker(b, name, accept) ==
    FirstOf({i \in 1..Len(drvList[b]) :
                LET d == owner[drvList[b][i]] IN Offered(d, name) /\ d \in accept})

\* The taker has the device on the list of the driver_private its structure points
\* to now; the driver after it falls off the bus's list.  lists: bound, before that.
Attach(v, b, name, accept, lists) ==
    LET at == Taker(b, name, accept)
        d  == IF at = 0 THEN None ELSE owner[drvList[b][at]]
    IN  /\ bound' = IF at = 0 THEN lists ELSE [lists EXCEPT ![drvP[d]] = Append(@, v)]
        /\ devDriver' = [devDriver EXCEPT ![v] = d]
        /\ devAt' = [devAt EXCEPT ![v] = IF at = 0 THEN None ELSE drvP[d]]
        /\ drvList' = [drvList EXCEPT ![b] = Without(@, Leftover(@, at))]
        /\ privOn' = [p \in Privs |->
                        IF p \in Unlinked(drvList[b], at) THEN None ELSE privOn[p]]

\* The taker's driver_private has been freed.
AttachFaults(b, name, accept) ==
    LET at == Taker(b, name, accept)
    IN  at > 0 /\ owner[drvP[owner[drvList[b][at]]]] = None

\* No free id: get_device_id still stores the pointer, at the index -EPERM, and
\* rs485_device_create frees the device.
CreateFull(v) ==
    /\ table' = [table EXCEPT ![NoId] = v]
    /\ device' = [device EXCEPT ![v] = "freed"]
    /\ id' = [id EXCEPT ![v] = NoId]
    /\ UNCHANGED <<busVars, driverVars, wants, devBus, devOn, devDriver, devAt, fault>>

\* The id is taken, the device filled in, attached, and put on the bus's list.
CreateAttached(v, b, name, accept) ==
    /\ table' = [table EXCEPT ![NextId] = v]
    /\ id' = [id EXCEPT ![v] = NextId]
    /\ device' = [device EXCEPT ![v] = "live"]
    /\ wants' = [wants EXCEPT ![v] = name]
    /\ devBus' = [devBus EXCEPT ![v] = b]
    /\ Attach(v, b, name, accept, bound)
    /\ devOn' = [devOn EXCEPT ![v] = b]
    /\ devList' = [devList EXCEPT ![b] = Append(@, v)]
    /\ UNCHANGED <<bus, made, owner, drvP, registered, fault>>

\* rs485_device_create (-ENODEV when no bus has the name).
DeviceCreate(v, b) ==
    /\ Running /\ device[v] = "none" /\ v \in callers.creates /\ bus[b] = "live"
    /\ IF NextId = NoId
       THEN CreateFull(v)
       ELSE \E name \in Names, accept \in SUBSET Drivers :
               IF AttachFaults(b, name, accept)
               THEN Fails("use after free")
               ELSE CreateAttached(v, b, name, accept)

\* rs485_device_destroy: device_unregister ends in dev->release, which frees the
\* device; the id is then read from freed memory, and the device freed again.
DeviceDestroy(v) ==
    /\ Running /\ device[v] = "live" /\ v \in callers.destroys
    /\ IF devOn[v] # None /\ bus[devOn[v]] = "gone"
       THEN Fails("use after free")
       ELSE Fails("double free")

\* device_reprobe: device_release_driver when the device has one, then device_attach.
DeviceReprobe(v) ==
    LET b == devBus[v]
        released == IF devDriver[v] = None THEN bound
                    ELSE [bound EXCEPT ![devAt[v]] = Selected(@, Devices \ {v})]
    IN  /\ Running /\ device[v] = "live" /\ bus[b] = "live"
        /\ \E accept \in SUBSET Drivers :
              IF AttachFaults(b, wants[v], accept)
              THEN Fails("use after free")
              ELSE /\ Attach(v, b, wants[v], accept, released)
                   /\ UNCHANGED <<bus, devList, made, owner, drvP, registered, device,
                                  wants, devBus, devOn, id, table, fault>>

\* Mutant: wlist_release leaves n_wlist set.
DeviceFindHalf(v) ==
    /\ Running /\ device[v] = "live" /\ devOn[v] # None /\ bus[devBus[v]] = "live"
    /\ devList' = [devList EXCEPT ![devBus[v]] = Selected(@, Devices \ {v})]
    /\ UNCHANGED <<bus, drvList, driverVars, deviceVars, fault>>

\* bus_find_device_by_name stops at the device, and takes it off the bus's list.
DeviceFind(v) ==
    LET b == devBus[v]
    IN  /\ Running /\ device[v] = "live" /\ devOn[v] # None /\ bus[b] = "live"
        /\ devList' = [devList EXCEPT ![b] = Selected(@, Devices \ {v})]
        /\ devOn' = [devOn EXCEPT ![v] = None]
        /\ UNCHANGED <<bus, drvList, driverVars, device, wants, devBus, devDriver, devAt,
                       id, table, fault>>

-----------------------------------------------------------------------------
Call ==
    \/ \E b \in Buses : BusRegister(b) \/ BusUnregister(b)
    \/ \E d \in Drivers, b \in Buses : DriverRegister(d, b)
    \/ \E d \in Drivers : DriverUnregister(d)
    \/ \E v \in Devices, b \in Buses : DeviceCreate(v, b)
    \/ \E v \in Devices : DeviceDestroy(v) \/ DeviceReprobe(v) \/ DeviceFind(v)

Next == Call /\ UNCHANGED callers

Spec == Init /\ [][Next]_vars

-----------------------------------------------------------------------------
(* Properties *)

\* The state of the driver model has the types of the structures it models; in
\* particular get_device_id answers an index of the table, or -EPERM.
TypeOK ==
    /\ bus \in [Buses -> {"none", "live", "gone"}]
    /\ drvList \in [Buses -> Seq(Privs)] /\ devList \in [Buses -> Seq(Devices)]
    /\ made \in 0..MaxPriv
    /\ owner \in [Privs -> Drivers \cup {None}]
    /\ privOn \in [Privs -> Buses \cup {None}]
    /\ bound \in [Privs -> Seq(Devices)]
    /\ drvP \in [Drivers -> Privs \cup {None}]
    /\ registered \in [Drivers -> 0..MaxPriv]
    /\ device \in [Devices -> {"none", "live", "freed"}]
    /\ wants \in [Devices -> Names \cup {None}]
    /\ devBus \in [Devices -> Buses \cup {None}]
    /\ devOn \in [Devices -> Buses \cup {None}]
    /\ devDriver \in [Devices -> Drivers \cup {None}]
    /\ devAt \in [Devices -> Privs \cup {None}]
    /\ id \in [Devices -> Ids]
    /\ table \in [Ids -> Devices \cup {None}]
    /\ callers \in Callers

Elems(s) == {s[i] : i \in 1..Len(s)}
Once(s) == \A i, j \in 1..Len(s) : s[i] = s[j] => i = j

\* A node is on the list its n_wlist names, once, and on no other: wlist_del of any
\* node that says it is attached is sound (wlist.c, bus_remove_device).
ListsAgree ==
    /\ \A b \in Buses :
         /\ Once(drvList[b]) /\ Elems(drvList[b]) = {p \in Privs : privOn[p] = b}
         /\ Once(devList[b]) /\ Elems(devList[b]) = {v \in Devices : devOn[v] = b}
    /\ \A p \in Privs :
         Once(bound[p]) /\ Elems(bound[p]) = {v \in Devices : devAt[v] = p}

\* driver_register keeps the names on a bus's list apart (device_driver.c:296), also
\* when the search itself takes drivers off the list.
OneDriverPerName ==
    \A b \in Buses : \A i, j \in 1..Len(drvList[b]) :
       DriverName[owner[drvList[b][i]]] = DriverName[owner[drvList[b][j]]] => i = j

\* A device that has a driver is on the list of a driver_private of that driver that
\* has not been freed: the loop of driver_detach, which goes on until the list is
\* empty and removes only the driver's own devices, always ends.
BoundAgree ==
    \A v \in Devices :
       /\ (devDriver[v] = None) <=> (devAt[v] = None)
       /\ devAt[v] # None => owner[devAt[v]] = devDriver[v]

\* The three together: what wlist_del, driver_register and driver_detach rely on,
\* whatever is searched, unregistered and destroyed meanwhile.
BusListsAgree == ListsAgree /\ OneDriverPerName /\ BoundAgree

\* A bound device loses its driver only when that driver is unregistered or the device
\* is probed again (bus.c, device_driver.c): no registration takes it away.
BindingsStay ==
    [][\A v \in Devices :
         (devDriver[v] # None /\ devDriver'[v] # devDriver[v]) =>
            DriverUnregister(devDriver[v]) \/ DeviceReprobe(v)]_vars

\* No call uses freed memory, a null pointer, or runs for ever.
NoFault == fault = "none"

\* "Must be called when done iterating over list, as it decrements the refcount of
\* the current node" (wlist.c:190): iterating changes nothing, so a driver whose
\* registration succeeded stays on its bus's list until it is unregistered.
DriverStaysListed ==
    Running => \A d \in {e \in Drivers : registered[e] > 0} :
       owner[drvP[d]] = d /\ privOn[drvP[d]] # None

\* The callers register one driver on a bus, unregister only drivers that they register on
\* one bus, and take down neither a bus nor a device.  main, which registers one driver on
\* several buses and takes nothing down (main.c:63), keeps to it.
KeepApart(c) ==
    /\ \A r, s \in c.registers : r[2] = s[2] => r[1] = s[1]
    /\ \A r, s \in c.registers : r[1] = s[1] /\ r[1] \in c.unregisters => r[2] = s[2]
    /\ c.unregisters \cap Buses = {} /\ c.destroys = {}

\* Used like that, no call of the driver model faults, and a registered driver stays on
\* its bus (core.c, bus.c, device_driver.c, wlist.c).
SoundWhenApart == KeepApart(callers) => NoFault /\ DriverStaysListed
=============================================================================
