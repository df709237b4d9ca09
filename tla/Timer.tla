------------------------------- MODULE Timer -------------------------------
(***************************************************************************)
(* The timer (sdk/module/timer/timer.c): a list of tasks that a thread     *)
(* walks at every tick, and that callbacks and other threads change without*)
(* a lock.  One insertion or removal is one step here; the walk is not: it *)
(* holds two pointers, pos (cursor) and node (follower), from one entry to *)
(* the next.  timer_stop does not wait for the thread to end, so several   *)
(* may walk the list.  The unit of time is TIMER_PERCISION.                *)
(***************************************************************************)
EXTENDS Integers, Sequences, SequencesExt

CONSTANTS
    Walkers,    \* names for the timer's threads; bounds how many there are at a time
    MaxTasks,   \* how many tasks are ever registered
    Periods,    \* periods, in units of time
    Prevs,      \* counts that tasks are registered with
    Callbacks   \* what a callback may do: "nothing", "self", "next", "add"

VARIABLES
    timer_list, \* the tasks in the list, oldest first
    task,       \* per task ever registered: period, tick, enable, what its callback does
    released,   \* tasks that have been freed
    started,    \* timer_task_start_status
    canceled,   \* per thread, pthread_cancel has been called
    thread,     \* per thread: "none", "sleep", "awake" (it walks once more) or "walk"
    cursor,     \* per thread, pos of its walk; Head0 stands for the list head
    follower,   \* per thread, node of its walk
    waited,     \* per task, the ticks since its callback ran or it was registered, counted
                \* up to its period (history)
    careless,   \* a task was freed during a walk not paused in its own callback (history)
    doubled,    \* two walks were under way at once (history)
    fault       \* freed memory has been used

timervars == <<timer_list, task, released, started, canceled, thread, cursor, follower,
               waited, careless, doubled, fault>>

Head0 == 0
Registered == ToSet(timer_list)
Walks(k) == thread[k] = "walk"

TimerInit ==
    /\ timer_list = <<>> /\ task = <<>> /\ released = {} /\ started = FALSE
    /\ canceled = [k \in Walkers |-> TRUE] /\ thread = [k \in Walkers |-> "none"]
    /\ cursor = [k \in Walkers |-> Head0] /\ follower = [k \in Walkers |-> Head0]
    /\ waited = <<>> /\ careless = FALSE /\ doubled = FALSE /\ fault = FALSE

PlaceIn(list, t) == CHOOSE k \in DOMAIN list : list[k] = t

\* list_next_entry of an entry of a list; and of one of this list, or of its head.
EntryAfter(list, t) ==
    IF PlaceIn(list, t) < Len(list) THEN list[PlaceIn(list, t) + 1] ELSE Head0
After(t) ==
    IF t # Head0 THEN EntryAfter(timer_list, t)
    ELSE IF timer_list # <<>> THEN timer_list[1] ELSE Head0

Removed(t) ==
    /\ timer_list' = RemoveAt(timer_list, PlaceIn(timer_list, t))
    /\ released' = released \cup {t}

\* The new task goes in at the tail; tasks are numbered by registration.  "before" is the
\* table of tasks it is added to.
Added(before, p, e, does) ==
    /\ Len(task) < MaxTasks
    /\ \E prev0 \in Prevs :
         task' = Append(before, [period |-> p, tick |-> prev0, enable |-> e, does |-> does])
    /\ timer_list' = Append(timer_list, Len(task) + 1)

-----------------------------------------------------------------------------
\* timer_start: refused while a timer is started, but not while the last one's thread has
\* still to end.
Start ==
    /\ ~started /\ started' = TRUE
    /\ \E k \in Walkers :
         /\ thread[k] = "none"
         /\ thread' = [thread EXCEPT ![k] = "sleep"]
         /\ canceled' = [canceled EXCEPT ![k] = FALSE]
    /\ UNCHANGED <<timer_list, task, released, cursor, follower, waited, careless, doubled, fault>>

\* timer_stop: the thread is cancelled, not joined, and every task is freed.  If its sleep
\* is over by then, it will look at the list once more.
Stop ==
    /\ started
    /\ started' = FALSE /\ canceled' = [k \in Walkers |-> TRUE]
    /\ \/ thread' = thread
       \/ \E k \in Walkers : /\ thread[k] = "sleep" /\ ~canceled[k]
                            /\ thread' = [thread EXCEPT ![k] = "awake"]
    /\ released' = released \cup Registered /\ timer_list' = <<>>
    /\ careless' = (careless \/ \E k \in Walkers : Walks(k))
    /\ UNCHANGED <<task, cursor, follower, waited, doubled, fault>>

\* timer_task_register, by another thread.
RegisterTask ==
    /\ \E p \in Periods, e \in BOOLEAN, does \in Callbacks : Added(task, p, e, does)
    /\ waited' = Append(waited, 0)
    /\ UNCHANGED <<released, started, canceled, thread, cursor, follower, careless, doubled, fault>>

\* timer_task_unregister, by another thread.
UnregisterTask ==
    /\ \E t \in Registered : Removed(t)
    /\ careless' = (careless \/ \E k \in Walkers : Walks(k))
    /\ UNCHANGED <<task, started, canceled, thread, cursor, follower, waited, doubled, fault>>

-----------------------------------------------------------------------------
\* timer_tick, then the walk begins, if there is a task, with pos the first entry and node
\* the one after it.  Only the thread that is not cancelled tells the time.
Tick(k) ==
    /\ thread[k] = "awake" \/ (thread[k] = "sleep" /\ ~canceled[k])
    /\ timer_list # <<>>
    /\ thread' = [thread EXCEPT ![k] = "walk"]
    /\ cursor' = [cursor EXCEPT ![k] = After(Head0)]
    /\ follower' = [follower EXCEPT ![k] = After(After(Head0))]
    /\ waited' = [t \in DOMAIN waited |->
                    IF /\ ~canceled[k] /\ t \in Registered /\ task[t].enable
                       /\ waited[t] < task[t].period
                    THEN waited[t] + 1 ELSE waited[t]]
    /\ doubled' = (doubled \/ \E j \in Walkers \ {k} : Walks(j))
    /\ UNCHANGED <<timer_list, task, released, started, canceled, careless, fault>>

\* A cancelled thread ends in its sleep.
End(k) ==
    /\ canceled[k]
    /\ thread[k] = "sleep" \/ (thread[k] = "awake" /\ timer_list = <<>>)
    /\ thread' = [thread EXCEPT ![k] = "none"]
    /\ UNCHANGED <<timer_list, task, released, started, canceled, cursor, follower, waited,
                   careless, doubled, fault>>

\* Mutant: the period is over one tick later.
DueLate(t) == task[t].enable /\ task[t].tick >= task[t].period

Due(t) == task[t].enable /\ task[t].tick + 1 >= task[t].period

\* The loop goes on to node, and looks up the entry after it: after the callback.
Advance(k) ==
    LET next == follower[k]
        dangling == next \in released'
        over == next = Head0 \/ dangling
    IN  /\ cursor' = [cursor EXCEPT ![k] = next]
        /\ fault' = dangling
        /\ follower' = [follower EXCEPT ![k] =
                          IF over THEN Head0 ELSE EntryAfter(timer_list', next)]
        /\ thread' = [thread EXCEPT ![k] = IF over THEN "sleep" ELSE "walk"]

\* An entry that is disabled or not yet due.  Of two walks at the same entry, one's addition
\* may overwrite the other's.
Pass(k) ==
    /\ Walks(k) /\ cursor[k] \notin released /\ ~Due(cursor[k])
    /\ \/ task' = IF task[cursor[k]].enable THEN [task EXCEPT ![cursor[k]].tick = @ + 1]
                                             ELSE task
       \/ (\E j \in Walkers \ {k} : Walks(j) /\ cursor[j] = cursor[k]) /\ task' = task
    /\ UNCHANGED <<timer_list, released, started, canceled, waited, careless, doubled>>
    /\ Advance(k)

\* An entry at its period: its count starts again and its callback runs, which may
\* unregister the task itself or the next one, or register another task.  A cancelled
\* thread may end in it.
CallBack(k) ==
    /\ Walks(k) /\ cursor[k] \notin released /\ Due(cursor[k])
    /\ LET here == cursor[k]
           reset == [task EXCEPT ![here].tick = 0]
           zero == [waited EXCEPT ![here] = 0]
           does == task[here].does
           removesNext == does = "next" /\ After(here) # Head0
           adds == does = "add" /\ Len(task) < MaxTasks
           otherWalks == \E j \in Walkers \ {k} : Walks(j)
       IN  /\ careless' = (careless \/ removesNext \/ (does = "self" /\ otherWalks))
           /\ \/ /\ does # "self" /\ ~removesNext /\ ~adds
                 /\ task' = reset /\ waited' = zero /\ UNCHANGED <<timer_list, released>>
              \/ /\ does = "self" /\ Removed(here)
                 /\ task' = reset /\ waited' = zero
              \/ /\ removesNext /\ Removed(After(here))
                 /\ task' = reset /\ waited' = zero
              \/ /\ adds
                 /\ \E p \in Periods : Added(reset, p, TRUE, "nothing")
                 /\ waited' = Append(zero, 0) /\ UNCHANGED released
    /\ UNCHANGED <<started, canceled, doubled>>
    /\ \/ Advance(k)
       \/ /\ canceled[k] /\ thread' = [thread EXCEPT ![k] = "none"]
          /\ cursor' = [cursor EXCEPT ![k] = Head0]
          /\ follower' = [follower EXCEPT ![k] = Head0] /\ UNCHANGED fault

\* The entry was freed while the walk pointed at it.
Dangling(k) ==
    /\ Walks(k) /\ cursor[k] \in released
    /\ fault' = TRUE
    /\ UNCHANGED <<timer_list, task, released, started, canceled, thread, cursor, follower,
                   waited, careless, doubled>>

\* After the use of freed memory anything may happen: the model ends there.
TimerNext ==
    /\ ~fault
    /\ \/ Start \/ Stop \/ RegisterTask \/ UnregisterTask
       \/ \E k \in Walkers : Tick(k) \/ End(k) \/ Pass(k) \/ CallBack(k) \/ Dangling(k)

TimerSpec == TimerInit /\ [][TimerNext]_timervars

-----------------------------------------------------------------------------
\* As long as tasks are freed only by their own callbacks, with no other walk under way, or
\* between walks, no walk follows a pointer into a freed task, whatever is registered in
\* the middle of it and however many threads walk; and as long as there was one walk at a
\* time, no registration or removal makes it miss a task: between the walks of the started
\* timer each enabled task has had its callback within its period (timer.c:152-163).
CalledOnTime ==
    ~careless =>
    /\ ~fault
    /\ ~doubled => \A k \in Walkers : thread[k] = "sleep" /\ ~canceled[k] =>
         \A t \in Registered : task[t].enable => waited[t] < task[t].period

\* The walk is made with list_for_each_entry_safe, "safe against removal of list entry"
\* (klist.h:489): no removal makes it use a freed task (timer.c:152, :224-228, :287-288).
NeverTouchesFreedTask == ~fault
=============================================================================
