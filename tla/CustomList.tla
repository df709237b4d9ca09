----------------------------- MODULE CustomList -----------------------------
(***************************************************************************)
(* stack->list of a custom bus, pointer by pointer: list_add (klist.h) by  *)
(* the callers of custom_bus_write, the traversal and the list_del of      *)
(* custom_stack_handle, each load and store a step of its own.  Nothing in *)
(* custom.c makes these steps exclude one another.                         *)
(*                                                                         *)
(* Overlap says whether a thread may be preempted inside a list operation  *)
(* by another list operation.  With FALSE the module shows that the list   *)
(* operations are those of CustomBus, whose grain they justify; with TRUE  *)
(* it is the code as it stands.                                            *)
(***************************************************************************)
EXTENDS Integers, Sequences, FiniteSets

CONSTANTS
    Writers,      \* threads that call custom_bus_write
    MaxNodes,      \* bound: number of nodes ever allocated
    Overlap       \* may list operations of different threads interleave?

ListHead == 0                         \* &stack->list
Nodes == 1..MaxNodes
Places == {ListHead} \cup Nodes
Poison == -1                      \* LIST_POISON1, LIST_POISON2
Worker == "worker"

ListThreads == Writers \cup {Worker}

VARIABLES
    next, prev,   \* the two pointers of every list_head
    allocated,    \* nodes obtained from calloc so far
    freed,        \* nodes given back with free
    at,           \* per thread: the next load or store it makes
    node,         \* per thread: the list_head it adds, visits or deletes
    saved,        \* per thread: pointer arguments it has loaded
    list_sem,     \* stack->sem
    order,        \* nodes in the order of their list_add (history)
    handled       \* nodes the worker has taken, in order (history)

listvars == <<next, prev, allocated, freed, at, node, saved, list_sem, order, handled>>

NoPtrs == [prev |-> ListHead, next |-> ListHead]

ListInit ==
    /\ next = [p \in Places |-> IF p = ListHead THEN ListHead ELSE Poison]
    /\ prev = [p \in Places |-> IF p = ListHead THEN ListHead ELSE Poison]
    /\ allocated = 0
    /\ freed = {}
    /\ at = [t \in ListThreads |-> "idle"]
    /\ node = [t \in ListThreads |-> ListHead]
    /\ saved = [t \in ListThreads |-> NoPtrs]
    /\ list_sem = 0
    /\ order = <<>>
    /\ handled = <<>>

\* Program points between which the list is being read or written.
InList(t) == at[t] \in {"nextPrev", "newNext", "newPrev", "prevNext",
                        "walk", "delPrev", "delNext"}

MayEnter(t) == Overlap \/ \A u \in ListThreads \ {t} : ~InList(u)

Goto(t, l) == at' = [at EXCEPT ![t] = l]

\* Storing through a pointer that is not a list_head of the model goes astray.
Store(f, p, v) == IF p \in Places THEN [f EXCEPT ![p] = v] ELSE f

-----------------------------------------------------------------------------
(* list_add(&node->entry, &stack->list) *)

\* __list_add(new, head, head->next): the arguments are loaded.
AddBegin(t) ==
    /\ at[t] = "idle" /\ allocated < MaxNodes /\ MayEnter(t)
    /\ allocated' = allocated + 1
    /\ node' = [node EXCEPT ![t] = allocated + 1]
    /\ saved' = [saved EXCEPT ![t] = [prev |-> ListHead, next |-> next[ListHead]]]
    /\ Goto(t, "nextPrev")
    /\ UNCHANGED <<next, prev, freed, list_sem, order, handled>>

\* next->prev = new
AddNextPrev(t) ==
    /\ at[t] = "nextPrev"
    /\ prev' = Store(prev, saved[t].next, node[t])
    /\ Goto(t, "newNext")
    /\ UNCHANGED <<next, allocated, freed, node, saved, list_sem, order, handled>>

\* new->next = next
AddNewNext(t) ==
    /\ at[t] = "newNext"
    /\ next' = [next EXCEPT ![node[t]] = saved[t].next]
    /\ Goto(t, "newPrev")
    /\ UNCHANGED <<prev, allocated, freed, node, saved, list_sem, order, handled>>

\* new->prev = prev
AddNewPrev(t) ==
    /\ at[t] = "newPrev"
    /\ prev' = [prev EXCEPT ![node[t]] = saved[t].prev]
    /\ Goto(t, "prevNext")
    /\ UNCHANGED <<next, allocated, freed, node, saved, list_sem, order, handled>>

\* prev->next = new
AddPrevNext(t) ==
    /\ at[t] = "prevNext"
    /\ next' = [next EXCEPT ![saved[t].prev] = node[t]]
    /\ order' = Append(order, node[t])
    /\ Goto(t, "post")
    /\ UNCHANGED <<prev, allocated, freed, node, saved, list_sem, handled>>

PostNode(t) ==
    /\ at[t] = "post"
    /\ list_sem' = list_sem + 1
    /\ Goto(t, "idle")
    /\ UNCHANGED <<next, prev, allocated, freed, node, saved, order, handled>>

-----------------------------------------------------------------------------
(* custom_stack_handle *)

\* sem_wait, then pos = head->next; target is not set yet.
WalkBegin ==
    /\ at[Worker] = "idle" /\ list_sem > 0 /\ MayEnter(Worker)
    /\ list_sem' = list_sem - 1
    /\ node' = [node EXCEPT ![Worker] = ListHead]
    /\ saved' = [saved EXCEPT ![Worker] = [prev |-> ListHead, next |-> next[ListHead]]]
    /\ Goto(Worker, "walk")
    /\ UNCHANGED <<next, prev, allocated, freed, order, handled>>

\* One turn of list_for_each: pos != head, target = pos, pos = pos->next.
WalkOn ==
    LET pos == saved[Worker].next
    IN  /\ at[Worker] = "walk"
        /\ pos \in Nodes
        /\ node' = [node EXCEPT ![Worker] = pos]
        /\ saved' = [saved EXCEPT ![Worker].next = next[pos]]
        /\ UNCHANGED <<next, prev, allocated, freed, at, list_sem, order, handled>>

\* Back at the head: do_bus_message works on the last entry.
WalkEnd ==
    /\ at[Worker] = "walk"
    /\ saved[Worker].next = ListHead
    /\ node[Worker] # ListHead
    /\ handled' = Append(handled, node[Worker])
    /\ Goto(Worker, "handle")
    /\ UNCHANGED <<next, prev, allocated, freed, node, saved, list_sem, order>>

\* list_del: __list_del(entry->prev, entry->next), the arguments are loaded.
DelBegin ==
    /\ at[Worker] = "handle" /\ MayEnter(Worker)
    /\ saved' = [saved EXCEPT ![Worker] = [prev |-> prev[node[Worker]],
                                           next |-> next[node[Worker]]]]
    /\ Goto(Worker, "delPrev")
    /\ UNCHANGED <<next, prev, allocated, freed, node, list_sem, order, handled>>

\* next->prev = prev
DelNextPrev ==
    /\ at[Worker] = "delPrev"
    /\ prev' = Store(prev, saved[Worker].next, saved[Worker].prev)
    /\ Goto(Worker, "delNext")
    /\ UNCHANGED <<next, allocated, freed, node, saved, list_sem, order, handled>>

\* Mutant: prev->next keeps pointing at the deleted entry.
DelPrevNextForgotten ==
    /\ at[Worker] = "delNext"
    /\ next' = [next EXCEPT ![node[Worker]] = Poison]
    /\ prev' = [prev EXCEPT ![node[Worker]] = Poison]
    /\ Goto(Worker, "free")
    /\ UNCHANGED <<allocated, freed, node, saved, list_sem, order, handled>>

\* prev->next = next, and the entry is poisoned.
DelPrevNext ==
    /\ at[Worker] = "delNext"
    /\ next' = Store([next EXCEPT ![node[Worker]] = Poison],
                     saved[Worker].prev, saved[Worker].next)
    /\ prev' = [prev EXCEPT ![node[Worker]] = Poison]
    /\ Goto(Worker, "free")
    /\ UNCHANGED <<allocated, freed, node, saved, list_sem, order, handled>>

FreeNode ==
    /\ at[Worker] = "free"
    /\ freed' = freed \cup {node[Worker]}
    /\ Goto(Worker, "idle")
    /\ UNCHANGED <<next, prev, allocated, node, saved, list_sem, order, handled>>

-----------------------------------------------------------------------------
Write(t) == \/ AddBegin(t) \/ AddNextPrev(t) \/ AddNewNext(t) \/ AddNewPrev(t)
            \/ AddPrevNext(t) \/ PostNode(t)

Handle == \/ WalkBegin \/ WalkOn \/ WalkEnd \/ DelBegin
          \/ DelNextPrev \/ DelPrevNext \/ FreeNode

ListNext == Handle \/ \E t \in Writers : Write(t)

ListSpec == ListInit /\ [][ListNext]_listvars

-----------------------------------------------------------------------------
(* Properties *)

\* Pointers point at list heads of the model or at the poison of list_del, and the
\* semaphore is a count.
ListTypeOK ==
    /\ next \in [Places -> Places \cup {Poison}]
    /\ prev \in [Places -> Places \cup {Poison}]
    /\ allocated \in 0..MaxNodes
    /\ freed \subseteq Nodes
    /\ node \in [ListThreads -> Places]
    /\ list_sem \in 0..MaxNodes
    /\ order \in Seq(Nodes) /\ handled \in Seq(Nodes)

\* What the bus thread can reach with list_for_each is allocated memory.
\* "This is only for internal list manipulation where we know the prev/next
\* entries already!" (klist.h): no thread acts on pointers that another one is
\* changing, or has freed, under it.
NeverTouchesFreed ==
    /\ at[Worker] = "walk" => saved[Worker].next \notin freed \cup {Poison}
    /\ \A t \in ListThreads : InList(t) =>
          {saved[t].prev, saved[t].next, node[t]} \cap (freed \cup {Poison}) = {}

Quiet == \A t \in ListThreads : ~InList(t)

\* Between operations the two directions of the ring agree (list_del leaves
\* "the prev/next entries point to each other").
RingIsSound ==
    Quiet => \A p \in Places :
       (next[p] # Poison) => /\ next[p] \in Places /\ prev[p] \in Places
                             /\ prev[next[p]] = p /\ next[prev[p]] = p

\* The nodes are taken in the order of their list_add, none skipped or repeated:
\* the list is the queue of CustomBus.
TakenInOrder ==
    /\ Len(handled) <= Len(order)
    /\ \A i \in 1..Len(handled) : handled[i] = order[i]

\* Between operations the list is the queue of CustomBus, and during them nobody acts on
\* what another is changing or has freed.
ListIsSound == NeverTouchesFreed /\ RingIsSound /\ TakenInOrder
=============================================================================
