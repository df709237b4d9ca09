------------------------------ MODULE CustomBus ------------------------------
(***************************************************************************)
(* One bus of the custom protocol (protocol/custom/custom.c): the threads  *)
(* that call custom_bus_write, the list and the semaphore of the bus's     *)
(* rs485_custom_stack, and the bus's own thread custom_stack_handle with   *)
(* the retransmission loop of do_bus_message.                              *)
(*                                                                         *)
(* Grain of atomicity: a list_add, a traversal and a list_del are one step *)
(* each.  The source has no lock that makes them so; the module CustomList *)
(* models them pointer by pointer and shows what that costs.               *)
(*                                                                         *)
(* A node is named by the rank of its list_add, so "older" is "smaller".   *)
(* The history variables begun and waited count the passes of the loop and *)
(* the time spent waiting for replies within one message.                  *)
(***************************************************************************)
EXTENDS Integers, Sequences, FiniteSets

CONSTANTS
    Writers,      \* threads that call custom_bus_write
    MaxAdded,     \* bound: number of nodes ever added
    SemMax,       \* SEM_VALUE_MAX, where sem_post fails with EOVERFLOW
    MaxEarly,     \* bound: number of waits that end without a post
    UnsignedMod,  \* 2^(width of unsigned int): the modulus of --retransmission
    RetransMax,   \* CUSTOM_DATA_RETRANSMISSION_MAX
    TimeoutMax,   \* CUSTOM_DATA_TIMEOUT_MAX
    Profiles      \* driver descriptions a message's device may be bound to

Null == 0                       \* the NULL pointer: no node has rank 0
Nodes == 1..MaxAdded

Profile == [get : BOOLEAN, put : BOOLEAN, broadcast : BOOLEAN,
            retransmission : 0..(UnsignedMod - 1), timeout : Nat]

ASSUME ConstantsAssumption ==
    /\ IsFiniteSet(Writers)
    /\ MaxAdded \in Nat /\ SemMax \in Nat /\ MaxEarly \in Nat
    /\ RetransMax \in Nat \ {0} /\ TimeoutMax \in Nat
    /\ UnsignedMod \in Nat /\ RetransMax < UnsignedMod
    /\ Profiles \subseteq Profile

VARIABLES
    added,        \* number of nodes put on the list so far
    list,         \* stack->list, from the head's next to the head's prev
    sem,          \* value of stack->sem
    alive,        \* nodes calloc'ed and not yet freed
    early,        \* waits that sem_wait ended without a post (history)
    wpc, wnode,   \* per writer: where it is in custom_bus_write, and its node
    bpc,          \* where custom_stack_handle is
    target,       \* the node it works on
    driver,       \* device->driver as do_bus_message found it
    remaining,    \* retransmission
    outcome,      \* retval: "neg", "zero" or "pos"
    broadcast,    \* the flag driver->get sets
    begun,        \* passes of the loop begun for this message (history)
    waited        \* receive timeouts granted for this message (history)

queueVars  == <<added, list, sem, alive, early>>
writerVars == <<wpc, wnode>>
loopVars   == <<driver, remaining, outcome, broadcast, begun, waited>>
stackvars == <<queueVars, writerVars, bpc, target, loopVars>>

NoDriver == [get |-> FALSE, put |-> FALSE, broadcast |-> FALSE,
             retransmission |-> 0, timeout |-> 0]

Lesser(a, b) == IF a < b THEN a ELSE b

\* The fault of a walk over an empty list ends the process, callers included.
Up == bpc # "fault"

Linked(n) == \E i \in 1..Len(list) : list[i] = n

\* list_del: the sequence without the node; nothing to unlink if it is absent.
ListDel(n) ==
    IF Linked(n)
    THEN LET at == CHOOSE i \in 1..Len(list) : list[i] = n
         IN  list' = [i \in 1..(Len(list) - 1) |->
                         IF i < at THEN list[i] ELSE list[i + 1]]
    ELSE UNCHANGED list

-----------------------------------------------------------------------------
\* Mutant: sem_init(&stack->sem, 0, 1).
StackInitPosted ==
    /\ added = 0 /\ list = <<>> /\ sem = 1 /\ alive = {} /\ early = 0
    /\ wpc = [w \in Writers |-> "idle"] /\ wnode = [w \in Writers |-> Null]
    /\ bpc = "wait" /\ target = Null /\ driver = NoDriver /\ remaining = 0
    /\ outcome = "zero" /\ broadcast = FALSE /\ begun = 0 /\ waited = 0

StackInit ==
    /\ added = 0
    /\ list = <<>>
    /\ sem = 0
    /\ alive = {}
    /\ early = 0
    /\ wpc = [w \in Writers |-> "idle"]
    /\ wnode = [w \in Writers |-> Null]
    /\ bpc = "wait"
    /\ target = Null
    /\ driver = NoDriver
    /\ remaining = 0
    /\ outcome = "zero"
    /\ broadcast = FALSE
    /\ begun = 0
    /\ waited = 0

-----------------------------------------------------------------------------
(* custom_bus_write.  The early returns (no stack, wrong length, calloc    *)
(* fails) leave no trace and are stuttering steps.                         *)

\* Mutant: list_add_tail.
AddTail(w) ==
    /\ Up /\ wpc[w] = "idle" /\ added < MaxAdded
    /\ added' = added + 1
    /\ alive' = alive \cup {added + 1}
    /\ list' = Append(list, added + 1)
    /\ wpc' = [wpc EXCEPT ![w] = "post"]
    /\ wnode' = [wnode EXCEPT ![w] = added + 1]
    /\ UNCHANGED <<sem, early, bpc, target, loopVars>>

\* calloc, memcpy, list_add at the head.
Add(w) ==
    /\ Up /\ wpc[w] = "idle"
    /\ added < MaxAdded
    /\ added' = added + 1
    /\ alive' = alive \cup {added + 1}
    /\ list' = <<added + 1>> \o list
    /\ wpc' = [wpc EXCEPT ![w] = "post"]
    /\ wnode' = [wnode EXCEPT ![w] = added + 1]
    /\ UNCHANGED <<sem, early, bpc, target, loopVars>>

\* Mutant: the call that announces the node is forgotten.
PostForgotten(w) ==
    /\ Up /\ wpc[w] = "post"
    /\ wpc' = [wpc EXCEPT ![w] = "idle"]
    /\ UNCHANGED <<added, list, sem, alive, early, wnode, bpc, target, loopVars>>

\* Mutant: if(!retval) goto sem_post_fail.
PostInverted(w) ==
    /\ Up /\ wpc[w] = "post"
    /\ sem' = Lesser(sem + 1, SemMax)
    /\ wpc' = [wpc EXCEPT ![w] = IF sem < SemMax THEN "undo" ELSE "idle"]
    /\ UNCHANGED <<added, list, alive, early, wnode, bpc, target, loopVars>>

Post(w) ==
    /\ Up /\ wpc[w] = "post"
    /\ \/ /\ sem < SemMax
          /\ sem' = sem + 1
          /\ wpc' = [wpc EXCEPT ![w] = "idle"]
       \/ /\ sem = SemMax
          /\ wpc' = [wpc EXCEPT ![w] = "undo"]
          /\ UNCHANGED sem
    /\ UNCHANGED <<added, list, alive, early, wnode, bpc, target, loopVars>>

\* sem_post_fail: list_del, free, return the error.
Undo(w) ==
    /\ Up /\ wpc[w] = "undo"
    /\ ListDel(wnode[w])
    /\ alive' = alive \ {wnode[w]}
    /\ wpc' = [wpc EXCEPT ![w] = "idle"]
    /\ UNCHANGED <<added, sem, early, wnode, bpc, target, loopVars>>

-----------------------------------------------------------------------------
(* custom_stack_handle and do_bus_message. *)

SemWait ==
    /\ bpc = "wait"
    /\ sem > 0
    /\ sem' = sem - 1
    /\ bpc' = "traverse"
    /\ UNCHANGED <<added, list, alive, early, writerVars, target, loopVars>>

\* A wait that ends without a post, interrupted by a signal: its result is not looked at.
WaitSignalled ==
    /\ bpc = "wait"
    /\ early < MaxEarly
    /\ early' = early + 1
    /\ bpc' = "traverse"
    /\ UNCHANGED <<added, list, sem, alive, writerVars, target, loopVars>>

\* Mutant: the first entry of the list instead of the last.
TraverseFirst ==
    /\ bpc = "traverse"
    /\ target' = IF list = <<>> THEN Null ELSE list[1]
    /\ bpc' = IF list = <<>> THEN "fault" ELSE "lookup"
    /\ UNCHANGED <<queueVars, writerVars, loopVars>>

\* list_for_each to the last entry.  On an empty list target stays NULL, list_entry(NULL)
\* is not NULL, so the test that follows does not help, and do_bus_message reads there.
Traverse ==
    /\ bpc = "traverse"
    /\ target' = IF list = <<>> THEN Null ELSE list[Len(list)]
    /\ bpc' = IF list = <<>> THEN "fault" ELSE "lookup"
    /\ UNCHANGED <<queueVars, writerVars, loopVars>>

\* No such device, or a device without driver: the message is dropped.
LookupNone ==
    /\ bpc = "lookup"
    /\ bpc' = "unlink"
    /\ UNCHANGED <<queueVars, writerVars, target, loopVars>>

\* Mutant: retransmission is not clamped.
LookupUnclamped ==
    /\ bpc = "lookup"
    /\ driver' \in Profiles
    /\ remaining' = driver'.retransmission
    /\ outcome' = "zero" /\ broadcast' = FALSE /\ begun' = 1 /\ waited' = 0
    /\ bpc' = "get"
    /\ UNCHANGED <<queueVars, writerVars, target>>

LookupDriver ==
    /\ bpc = "lookup"
    /\ driver' \in Profiles
    /\ remaining' = Lesser(driver'.retransmission, RetransMax)
    /\ outcome' = "zero"
    /\ broadcast' = FALSE
    /\ begun' = 1
    /\ waited' = 0
    /\ bpc' = "get"
    /\ UNCHANGED <<queueVars, writerVars, target>>

\* driver->get fills the frame (or fails); a driver without get only listens.
\* retval is then the frame's length: "zero" is an empty frame.
Get ==
    /\ bpc = "get"
    /\ IF driver.get
       THEN /\ outcome' \in {"neg", "zero", "pos"}
            /\ broadcast' \in BOOLEAN
            /\ bpc' = IF outcome' = "neg" THEN "unlink" ELSE "send"
       ELSE /\ bpc' = "cast"
            /\ UNCHANGED <<outcome, broadcast>>
    /\ UNCHANGED <<queueVars, writerVars, target, driver, remaining, begun, waited>>

\* write(): a byte count or an error; only 0 lets the loop go on.
Send ==
    /\ bpc = "send"
    /\ outcome' \in {"neg", outcome}
    /\ bpc' = IF outcome' = "zero" THEN "cast" ELSE "unlink"
    /\ UNCHANGED <<queueVars, writerVars, target, driver, remaining, broadcast,
                   begun, waited>>

\* Nobody answers a broadcast.
Cast ==
    /\ bpc = "cast"
    /\ bpc' = IF driver.broadcast \/ broadcast THEN "unlink" ELSE "recv"
    /\ UNCHANGED <<queueVars, writerVars, target, loopVars>>

\* Mutant: while(--retransmission), whatever the pass ended with.
EndOfPassAlways(result) ==
    /\ outcome' = result
    /\ remaining' = (remaining - 1) % UnsignedMod
    /\ IF remaining' # 0
       THEN bpc' = "get" /\ begun' = begun + 1
       ELSE bpc' = "unlink" /\ UNCHANGED begun

\* while(--retransmission && retval), retval being the value the pass ends with.
EndOfPass(result) ==
    /\ outcome' = result
    /\ remaining' = (remaining - 1) % UnsignedMod
    /\ IF remaining' # 0 /\ result # "zero"
       THEN bpc' = "get" /\ begun' = begun + 1
       ELSE bpc' = "unlink" /\ UNCHANGED begun

\* select and read: a reply for driver->put, whose result may be any int, or a timeout, an
\* error, nothing.
Recv ==
    /\ bpc = "recv"
    /\ waited' = waited + Lesser(driver.timeout, TimeoutMax)
    /\ \/ \E failure \in {"neg", "zero"} : EndOfPass(failure)
       \/ driver.put /\ \E result \in {"neg", "zero", "pos"} : EndOfPass(result)
       \/ ~driver.put /\ bpc' = "unlink" /\ outcome' = "pos" /\ UNCHANGED <<remaining, begun>>
    /\ UNCHANGED <<queueVars, writerVars, target, driver, broadcast>>

\* Mutant: the node is freed without list_del.
UnlinkForgotten ==
    /\ bpc = "unlink"
    /\ bpc' = "free"
    /\ UNCHANGED <<queueVars, writerVars, target, loopVars>>

Unlink ==
    /\ bpc = "unlink"
    /\ ListDel(target)
    /\ bpc' = "free"
    /\ UNCHANGED <<added, sem, alive, early, writerVars, target, loopVars>>

Free ==
    /\ bpc = "free"
    /\ alive' = alive \ {target}
    /\ target' = Null
    /\ bpc' = "wait"
    /\ UNCHANGED <<added, list, sem, early, writerVars, loopVars>>

-----------------------------------------------------------------------------
Writer(w) == Add(w) \/ Post(w) \/ Undo(w)

BusThread == \/ SemWait \/ Traverse \/ LookupNone \/ LookupDriver
             \/ Get \/ Send \/ Cast \/ Recv \/ Unlink \/ Free

StackNext == BusThread \/ WaitSignalled \/ \E w \in Writers : Writer(w)

StackSpec == StackInit /\ [][StackNext]_stackvars

\* The bus thread is scheduled, and so is a caller inside custom_bus_write;
\* nobody has to call it, and no signal has to come.  Every receive ends: select has a
\* timeout.
StackFairness == WF_stackvars(BusThread) /\ \A w \in Writers : WF_stackvars(Post(w) \/ Undo(w))

StackFairSpec == StackSpec /\ StackFairness
-----------------------------------------------------------------------------
(* Properties *)

StackTypeOK ==
    /\ added \in 0..MaxAdded
    /\ list \in Seq(Nodes)
    /\ sem \in 0..SemMax
    /\ alive \subseteq Nodes
    /\ wpc \in [Writers -> {"idle", "post", "undo"}]
    /\ wnode \in [Writers -> Nodes \cup {Null}]
    /\ bpc \in {"wait", "traverse", "lookup", "get", "send", "cast", "recv",
               "unlink", "free", "fault"}
    /\ early \in 0..MaxEarly
    /\ target \in Nodes \cup {Null}
    /\ driver \in Profiles \cup {NoDriver}
    /\ remaining \in 0..(UnsignedMod - 1)
    /\ outcome \in {"neg", "zero", "pos"}
    /\ broadcast \in BOOLEAN
    /\ begun \in Nat /\ waited \in Nat

InMessage == bpc \in {"lookup", "get", "send", "cast", "recv", "unlink"}

Unposted == {w \in Writers : wpc[w] # "idle"}

\* One wait has been passed and its node not taken off the list yet.
Admitted == IF InMessage \/ bpc \in {"traverse", "fault"} THEN 1 ELSE 0

\* The semaphore announces exactly the nodes nobody is busy with: every node on the list
\* is counted by stack->sem, or still has its writer between list_add and the end of
\* custom_bus_write, or is the one the bus thread has been admitted for; but each wait
\* that ended without a post (custom.c:270) leaves the semaphore one ahead for good.
SemCountsNodes ==
    Len(list) + early = sem + Cardinality(Unposted) + Admitted

\* custom_stack_handle relies on the semaphore alone to find a node behind list_for_each:
\* its test "node == NULL" cannot succeed, so an empty list at that point ends the
\* process.  That takes a wait that was interrupted, then or at any time before.
EmptyListMeansInterrupt ==
    (bpc = "fault" \/ (bpc = "traverse" /\ list = <<>>)) => early > 0

\* While do_bus_message works on a node, that node is allocated, still linked,
\* and older than every other node of the list: messages are handled first in,
\* first out, although they are added at the head, nobody locks the list and a
\* wait may end before the node was announced.
HandlesOldestLiveNode ==
    InMessage => /\ target \in alive
                 /\ Linked(target)
                 /\ \A i \in 1..Len(list) : target <= list[i]

\* "@entry: the element to delete from the list" (klist.h:113): what custom_bus_write and
\* custom_stack_handle hand to list_del is on the list.
DeletesListedElements ==
    /\ \A w \in Writers : wpc[w] = "undo" => Linked(wnode[w])
    /\ bpc = "unlink" => Linked(target)

\* What is on the list is allocated, and what is allocated is on the list or is
\* the node the bus thread is about to free: no leak, no dangling entry.
ListHoldsTheLive ==
    \A n \in Nodes : n \in alive <=> (Linked(n) \/ (bpc = "free" /\ n = target))

\* One message occupies the bus for at most CUSTOM_DATA_RETRANSMISSION_MAX
\* passes of at most CUSTOM_DATA_TIMEOUT_MAX each (the clamps of do_bus_message).
BusHeldBound ==
    /\ begun <= RetransMax
    /\ waited <= RetransMax * TimeoutMax

\* The passes a driver gets: what it asks for within the clamp, or, if it asks for 0, as
\* many as it takes --retransmission to come back to 0.
Granted ==
    IF driver.retransmission = 0 THEN UnsignedMod ELSE Lesser(driver.retransmission, RetransMax)

\* A pass is repeated only if no answer came or the driver's put did not return 0 for it,
\* and no more often than is granted (while(--retransmission && retval)).
ResendsOnlyFailures ==
    [][(begun' > begun /\ bpc = "recv")
         => (outcome' # "zero" /\ begun' <= Granted)]_stackvars

\* "receive device reply data": after a frame went out to a single device the
\* bus thread waits for the answer before it ends the message.
ReplyIsAwaited ==
    [][(bpc = "send" /\ outcome = "pos" /\ outcome' = "pos"
          /\ ~broadcast /\ ~driver.broadcast) => bpc' # "unlink"]_stackvars

\* Every accepted message is eventually handled (or withdrawn) and freed, even
\* when a writer is preempted between its list_add and its sem_post, unless a walk over an
\* empty list ends the process first.
EventuallyFreed == \A n \in Nodes : (n \in alive) ~> (n \notin alive \/ ~Up)

\* The write path keeps the promise of BusQueue: what is pending is the list
\* read from its tail, without the node that is being handled.
Taken == IF InMessage THEN 1 ELSE 0

Promise == INSTANCE BusQueue WITH
    MaxMsgs  <- MaxAdded,
    accepted <- added,
    pending  <- [i \in 1..(Len(list) - Taken) |-> list[Len(list) + 1 - Taken - i]],
    current  <- IF InMessage \/ bpc = "free" THEN target ELSE 0

PromiseKept == Promise!Spec
=============================================================================
