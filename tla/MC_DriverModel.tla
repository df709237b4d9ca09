--------------------------- MODULE MC_DriverModel ---------------------------
(***************************************************************************)
(* Instances of DriverModel for TLC.  A behaviour is of one kind of        *)
(* callers.                                                                *)
(***************************************************************************)
EXTENDS DriverModel

CONSTANTS d1, d2, b1, b2, v1, v2

\* Every driver is called by its own name.
OwnName == [d \in Drivers |-> d]

\* Every driver on every bus; nothing is taken down.
Registering ==
    [registers |-> Drivers \X Buses, unregisters |-> {}, creates |-> Devices, destroys |-> {}]

\* The same, with drivers, devices and the first bus taken down again.
Everything ==
    [registers |-> Drivers \X Buses, unregisters |-> {d1, d2, b1},
     creates |-> {v1, v2}, destroys |-> {v1, v2}]

\* One bus per driver, one driver per bus, and more devices.
Apart ==
    [registers |-> {<<d1, b1>>, <<d2, b2>>}, unregisters |-> Drivers,
     creates |-> Devices, destroys |-> {}]

\* One driver on every bus, as main.c does; nothing is taken down.
AsMain ==
    [registers |-> {d1} \X Buses, unregisters |-> {}, creates |-> Devices, destroys |-> {}]

OnlyRegistering == {Registering}
AllWays == {Everything, Apart, AsMain}
=============================================================================
