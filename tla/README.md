# RS485 daemon: specifications, model checking and proofs

This directory holds TLA+ modules about the RS485 daemon (`app/rs485d`) and the
parts of the SDK it uses (`sdk/`), TLC configurations that check them on small
instances, and proofs checked by TLAPS. `PROJECT.json` maps every definition to
the lines it was translated from.

Parse with `tlasany M.tla`, check with `tlc -config X.cfg M`, prove with
`tlapm CustomBusProof.tla` (and the other `*Proof` modules).

## 1. Inventory of the system

The daemon drives RS485 serial lines. `main.c` registers one *bus* per serial
port, registers the *drivers* of device families on these buses, creates
*devices*, and then sleeps. Each bus has a thread that takes queued messages,
has the device's driver encode them, sends the frame, waits for the answer and
has the driver decode it.

| Component | State | Operations | Interacts through |
|---|---|---|---|
| custom bus stack (`protocol/custom/custom.c`) | per bus: message list, semaphore, mtu buffer, port | probe, remove, write, the thread (`custom_stack_handle`, `do_bus_message`) | list and semaphore shared by writers and thread; calls driver get/put |
| serial ports (`protocol/custom/interface.c`, `protocol/general/rs485.c`) | fd, termios, one saved termios per file for all its ports, speed with its flag | initialize, cleanup, send, recv, open, exit handler | open/tcsetattr/write/select/read on the port |
| rs485 core (`core/core.c`, `core/mdev.c`) | bus list, device list, table of 1024 device ids | bus/driver register and unregister, device create/destroy, id lookup | calls the framework bus; threads of the buses |
| framework bus (`sdk/framework/bus`) | per bus: list of drivers, list of devices; per driver: list of bound devices | register, match, probe, bind, detach, re-probe, find | callbacks (match, probe, remove, release), wlist |
| wlist, klist (`sdk/module/list/wlist.c`, `sdk/include/klist.h`) | ring of list heads, owner list pointer | add, delete, iterate | used by all of the above |
| init tables (`core/register.c`, `main.c`) | linker section tables | call the init functions | custom_init, driver inits |
| ring buffer (`sdk/module/ringbuffer`) | head, tail, slots | put, put_front, pop, peek, data_peek, data_put | one producer, one consumer |
| general worker (`protocol/general/general.c`) | work queue, semaphore, message in progress | thread loop with retransmission | ring buffer; device codecs; the port |
| modbus worker (`protocol/modbus/modbus.c`) | the same, and one buffer for all messages | thread loop, two nested retries, nine function codes | libmodbus; handlers of the modbus devices |
| modbus devices (`device/airCondition/daikin`, `hitachi`, `york/johnson_controls.c`) | tables with the last known registers of a unit | send and receive handlers | called by the worker |
| bacnet worker (`protocol/bacnet/bacnet.c`, `read_property.c`, `write_property.c`) | static arguments, invoke ids, error flags | thread loop, read and write of a property | BACnet stack's transactions and bindings |
| bacnet device object (`protocol/bacnet/device-client.c`, `handle_property.c`) | identity, name, status, database revision | setters, Read-Property, restart | calls of the daemon, requests from the bus |
| general devices (`panasonic.c`, `loreley.c`, `aoke.c`, `doya.c`) | last known state of a device, package buffer | build frames, check and parse answers | called by the general worker |
| timer (`sdk/module/timer`) | task list, thread, running flag | start, stop, restart, register, unregister | callbacks from the timer thread |
| message queue (`sdk/module/message_queue`) | free list, queue, counters, two semaphores | alloc, free, write, read, tryread | lock-free between threads |
| bitmap, id table (`sdk/module/bitmap`) | bits of the ids in use, elements | add, find, remove, replace, get unused | one caller |
| daemon and signals (`sdk/module/daemon`) | pid file, lock, hang-up flag | daemon_init, already_running, signal thread | other starts of the same program |
| build configuration (`sdk/config/kconfig`, `sdk/module/Kconfig`) | symbols: entered, calculated, visible; menu entries and their conditions | set, toggle, save, read; rewriting of conditions; submenus | configuration files |
| client table, rs485c, build fragments, configuration front ends | none of their own | | not modelled |

What is hard here:

* concurrency: writers and the bus thread share a list without a lock and are
  ordered only by a semaphore that may be posted late or fail; the ring buffer
  and the message queue are used without locks; the timer thread walks a list
  others change; the BACnet object is changed by one thread and read by another;
* failure and retry: bounded retransmission with unsigned counters, nested
  retries, timeouts, answers that arrive late, in pieces or damaged, a post that
  fails after the node has been queued, an id table that fills up, a process
  killed between locking the pid file and writing it;
* state kept between calls: one modbus buffer for all messages, a table row that
  is changed before it is known that the write arrived, static BACnet arguments
  and invoke ids, one saved termios for several ports, values of the
  configuration calculated once and kept until the next change;
* ownership: nodes, devices and driver structures are freed by one path while
  another still points to them; a driver is a static structure that may be
  registered on several buses.

What makes each component correct:

* custom bus: messages are handled one at a time in the order they were queued,
  each is freed exactly once and eventually, the bus is held for a bounded
  number of passes, only a failed exchange is repeated;
* driver model: node pointers and lists agree, a device is bound to one driver
  and its driver_private is live, detaching terminates, a registration lasts;
* ring buffer: a bounded FIFO across counter wrap, with no slot shared by both sides;
* workers: each queued message leaves the queue once and in order, with bounded
  repetition, and only failures are repeated;
* modbus: the length given to a handler tells whether the buffer holds an answer, and
  a later write brings to a unit whatever an earlier lost one should have;
* bacnet: no transaction is left behind, success means answered, a request asks for
  what the message asked for; a client that watches the revision is never wrong;
* general devices: frames have the length, address and checksum the machine
  checks; a retry repeats the frame; what is stored of a Loreley machine was read
  from an answer that is whole and not damaged;
* serial ports: the settings of a port come back when it is closed (they do not when
  two ports are open together: run `ports_restore`);
* timer: a callback runs within its period, and no walk touches a freed task (it does
  when tasks are freed beside it: run `timer_walk`); message queue: one owner for each
  message, and no sleeper that nobody counts; id table: the elements of different ids
  are kept apart; daemon: one at a time, named by the pid file;
* build configuration: rewriting a condition does not change it, what is shown is
  what the rules give, and saving and reading keeps it.

Reachability in this repository: `build.mk` compiles the core, the custom bus
and the dooya driver; nothing calls `bus->write` yet, and no code path sets
`rs485_device->driver` (the probe that did is under `#if 0`), so in the program
as built `do_bus_message` would return at its NULL driver test. The modules
model the functions for every caller their interface allows (a driver's probe
receives the device and may set the field). `rs485_driver_unregister`,
`rs485_device_destroy`, `bus_find_device_by_name`, `device_reprobe` and
`bus_exitcalls` are likewise exported and modelled, but not called.

## 2. Modules

| Module | Models | About |
|---|---|---|
| `BusQueue` | what `custom_bus_write` and the thread promise together | abstract: a FIFO whose entries may be withdrawn by their writer |
| `CustomBus` | `custom.c` | one action per call that another thread can observe |
| `CustomBusProof` | | theorems about `CustomBus` |
| `CustomList` | `stack->list`: `klist.h` under `custom.c` | one action per load or store |
| `DriverModel` | `core.c`, `mdev.c`, `sdk/framework/bus`, `wlist.c` | one action per call of `core.c` |
| `DriverModelProof` | | theorems about `DriverModel` |
| `BoundedFifo` | what `ringbuf.c` promises | abstract: a bounded queue |
| `RingBuf` | `ringbuf.c` | producer and consumer, step by step |
| `WorkQueue` | ring buffer and semaphore of a worker, its producers | what the three workers have in common |
| `GeneralWorker` | `general.c`, send and receive of `rs485.c` | the retry loop over `WorkQueue` |
| `WorkQueueProof` | | the invariant of `WorkQueue`, shared by the proofs about the three workers |
| `GeneralWorkerProof` | | theorems about `GeneralWorker` |
| `Methods` | `include/enum.h` | the methods of a device |
| `DeviceFrames` | codecs of Panasonic, Loreley, Aoke, Doya | frames and answers as sequences of bytes, with their checksums |
| `GeneralExchange` | `general.c`, `rs485.c` with `DeviceFrames` | the line: late, cut and damaged answers |
| `ModbusDevices` | handlers of Daikin, Hitachi, Johnson Controls | what a message makes of the buffer and the tables |
| `ModbusWorker` | `modbus.c` with `ModbusDevices` | the thread, the slaves |
| `ModbusWorkerProof` | | theorems about `ModbusWorker` |
| `BacnetRequests` | `york.c`, the transactions of `write_property.c` | requests of the York air conditioner, and what a request and its transaction have to be |
| `BacnetWorker` | `bacnet.c`, `read_property.c`, `write_property.c` | the thread, transactions, address binding |
| `BacnetWorkerProof` | | theorems about `BacnetWorker` |
| `BacnetDevice` | `device-client.c`, start in `handle_property.c` | the object, and a client that caches it |
| `Timer` | `timer.c` | one action per list operation and per step of the walk |
| `MessageQueue` | `message_queue.c` | one action per atomic operation |
| `MessageQueueProof` | | theorems about `MessageQueue` |
| `Elements` | what the id table promises, but for its search | abstract: a function from ids to elements |
| `IdTable` | `it_table.c` over `bitmap.c` | implements `Elements` |
| `Daemon` | `daemon.c`, `signal.c` | one action per system call, kill at any point |
| `SerialPorts` | port settings of `interface.c` and `rs485.c` | open, refuse, close, exit |
| `PartsProof` | | theorems about `RingBuf`, `Daemon`, `BacnetDevice` and `Timer` |
| `KconfigExpr` | `expr.c` | pure operators: evaluation and rewriting |
| `KconfigMenu` | `menu_finalize` of `menu.c` | entries with conditions, placed one by one |
| `KconfigSymbols` | `symbol.c`, `confdata.c` | editing, saving, reading |
| `RepoConfig` | `sdk/module/Kconfig`, `sdk/framework/Kconfig` | the configuration of the TLC instances |
| `MC_CustomBus`, `MC_DriverModel`, `MC_SerialPorts`, `MC_Workers`, `MC_Parts` | | instances for TLC |

**CustomBus.** A node is a number in allocation order; the list, the semaphore,
each writer's program counter and the thread's are variables. A writer adds a
node (`Add`), posts (`Post`), and unlinks the node again when the post fails
(`Undo`). The thread waits (`SemWait`); a signal may end the wait without a post
(`WaitSignalled`, at most `MaxEarly` times), because the result of `sem_wait` is ignored
(`custom.c:270`) and the process installs a handler for SIGHUP (`signal.c`). It then walks to the last entry (`Traverse`),
which on an empty list follows the head as if it were a node and ends the process
(`bpc = "fault"`), looks the driver up and clamps its retransmission and timeout
(`LookupNone`, `LookupDriver`), and in each pass encodes (`Get`), sends (`Send`),
ends a broadcast (`Cast`) or waits for the answer (`Recv`), and decides on
another pass (`EndOfPass`); then it unlinks and frees the node. A driver is a
record of what the code tells apart: has get, has put, broadcast, retransmission
and timeout. Payloads, buffers and formatting are left out; the outcomes of get,
send, receive and put are choices, put's being any int by its sign: a positive one
repeats the pass although an answer was handled. One timeout unit stands for the longest wait of
300 ms steps the driver asks for. `UintMod` is the width of the unsigned
retransmission counter.

**CustomList.** Justifies the grain of `CustomBus`: `list_add`, the walk and
`list_del` are split into their loads and stores. With `Overlap = FALSE` (no
thread is preempted inside a list operation by another list operation) the
nodes are taken in the order of their insertion and the ring is sound. The code
does nothing to ensure that condition; `Overlap = TRUE` is the code as it is.

**DriverModel.** All calls are made by the main thread, so a call is one action.
A `driver_private` is a number in allocation order, `owner` is its driver (or
`None` once freed); the lists of a bus and of a driver are sequences, and the
`n_wlist` pointers of nodes are kept besides them, so that they can disagree.
The iterator of `wlist.c` fetches the next entry before the loop tests the
result, and its exit deletes the current node: `Leftover` and `Unlinked` are
that. Probe results are a choice (`accept`). A step that would use freed memory,
follow a null pointer, free twice or loop for ever sets `fault`, and the run
ends there: beyond it the program has no defined behaviour. A bus that was
unregistered is not registered again, and allocation does not fail. `callers` is chosen
once for a run: which drivers are registered on which bus, and what is created and taken
down. `KeepApart` says of callers that no bus gets two drivers, that a driver is unregistered
only where it was registered on a single bus, and that neither a bus nor a device is taken
down. `main.c:63-69`, which registers one driver on three buses and takes nothing down, keeps
to it (`AsMain`).

**RingBuf.** The check for room, the copy (first byte, last byte) and the
counter update are separate steps; so are the consumer's. A slot that is being
copied into holds `Torn`. `ringbuf_put_front` happens only between calls of both
sides, as its comment demands. Memory is sequentially consistent.

**WorkQueue, GeneralWorker.** The worker takes a post, looks at the ring, works on
the message in its slot (`Peek`, `Send`, `Recv`, `EndOfPass`) and pops it. The ring is
the bounded sequence that `RingBuf` implements. The producers are not in the
repository; `Produce` and `PostSem` are what the worker assumes of them. The
outcomes of send_handle, write, select, read and recv_handle are choices; a
signal may interrupt the wait, whose result the code ignores. A message with
retransmission 0 is included: for it the counter wraps, and `Limit`, the bound of
`PassesBounded` (in the run `RetransmitsWithinBounds`), is then the number of values the
counter has. That is 2^32 in the code: the property says that nothing worse happens, not that
this is meant. `MessagesFit` says that a message's retransmission fits its variable.

**DeviceFrames, GeneralExchange.** The same loop one level deeper: the frame a
send handler leaves in the package buffer, byte by byte, the bytes the port has
received, and what the receive handler makes of them. The port keeps what has not
been read; nothing flushes it, so an answer may be read by a later pass or a later
message. A machine answers a whole frame addressed to it; the answer comes at
once, late, in two pieces, or with one byte changed. Checksums are the code's
(sum, xor, CRC-16 as the code computes it). `Scripts` are the messages handled.

**ModbusDevices, ModbusWorker.** A handler turns a message into a function code,
a number of registers, the first words of the shared buffer and the new row of the
device's table, before anything is sent; the worker repeats the exchange and the
whole message in two nested loops. `Budget` bounds the calls of both: what the message asks
for, all values of the counter where it asks for 0, and as many again for each further round,
which may start with the counter at 0 (`modbus.c:327-330`). Handlers of the repository need one
round; `other` stands for those that need more. A request or its answer may be lost. `wanted`
and `slaves` are history: what the units should hold and do hold. The buffer comes
from malloc, so its first content is a choice.

**BacnetRequests, BacnetWorker.** Invoke ids are those of a small pool; the stack opens a
transaction when a request goes out, closes it with the answer, or gives up.
`arg`, `wid`, `rid`, `Error_Detected` and the copied arguments are static in the code
and keep their values from one call to the next. The York handlers say which object and
property a message is about. They do not say which value is written: what would parse the value
of the message into the request is under `#if 0` (`write_property.c:92-102`), so that every write
carries what the static variable holds. `AsksWhatIsMeant` is therefore about device and object.
**BacnetDevice** is the object itself: a client reads
it, keeps what it read together with the revision, and reads again only when the
revision has changed; `exempt` collects what the code changes without a new revision
in ways the source documents.

**Timer.** A thread holds `pos` and `node` (`cursor`, `follower`) from one entry to the
next, as `list_for_each_entry_safe` does; callbacks may register a task, or unregister their own
or the next one. A task starts with the count `prev` it is registered with. `timer_stop` cancels
the thread and does not wait for it, and `timer_start` looks at the flag alone
(`timer.c:182`, `:220`): a thread that was cancelled may walk beside the one started after it, and
`Walkers` are names for as many as there are at a time. `careless` marks histories in which a task
is freed during a walk other than by its own callback with no other walk under way; the walk may
then use a freed task (`fault`), which run `timer_walk` shows. `doubled` marks those in which two
walks were under way, after which counts are not exact. Counts are in units of the tick and do not wrap: the code's are
milliseconds in an unsigned.

**MessageQueue.** The pool and the queue are one structure twice. Every atomic
operation, store and semaphore call is an action; `blocked_readers`, `entries` (`count`) and
the positions are modelled as the code updates them, including the moment in which a
failed try has taken one from `entries` and not yet given it back. The run `parts` has a sender and
two receivers that block. Two things the source promises of a queue used by more threads do not
hold. A thread that has read its slot (`message_queue.c:150`) and not yet cleared it (`:155`)
can be overtaken by a whole round, and another thread then gets the same message: run
`message_queue_owned`, three threads that allocate and free. And `message_queue.h:151-152`
says of a blocking read "blocking if necessary until one is available"; with two blocking
readers both can be left asleep with a message in the queue. The failed try of one takes one
from `entries` (`:208`) and holds it down until `:218`; the other, woken by the post for that
message, fails for that reason, registers again and sleeps (`:231`); then the first gives its
count back and sleeps too (run `message_queue_sleep`). One reader that blocks is not safe either: a
`tryread` of another thread can hide the message from it in the same way, and need not come back.
What does hold, for any number of threads, is that the sleepers are counted
(`SleepersAreAccounted`): whoever is registered or asleep is in `blocked_readers`, in the semaphore, or
about to be posted, so that the next writer or freer finds it.

**IdTable** keeps the bits of eight ids in one byte, as a set of bit numbers, and
the elements beside them; ids are given by the caller and, as in the code, not
compared with the limit except where it does so. `Elements` promises nothing of the search for an
unused id: `get_unused_id` returns the first id that is in use (the test of `bitmap.c:105` is the
wrong way round). The action `GetUnused` follows the code; no run is about it, because nothing but
its name says what it should return.

**Daemon.** A process opens, locks, truncates and writes the pid file in separate
steps, and may be killed between any two; a lock goes with its process. `ftruncate` and `write`
always succeed; the code does not look at their results (`daemon.c:139-141`), so that on a full disk
the file would be empty.

**SerialPorts.** A port's settings are speed, size, stop bits and parity. Each of
the two source files keeps one static copy of old settings. `Found` are the settings ports may be
found with, `before` (history) those a port was found with. `RestoresItsOwn` says what the comment of
`interface.c:289` does, and is violated as soon as two buses have their ports open, as in
`main.c:63-65` (run `ports_restore`). A speed that is refused clears the flag of an earlier one
(`rs485.c:205`); and `parse_c_cflag` sets even parity for a profile that asks for odd and the other way round
(`interface.c:185`, `:189`). Both are translated as they are, and no property is about them.

**KconfigExpr, KconfigMenu, KconfigSymbols.** An expression is a record; chains of
`&&` and `||` are flat, and the pairwise recursion of the code becomes a fold over
pairs of positions in the same order. `KconfigMenu` gives entries conditions and
joins, rewrites and places them as `menu_finalize` does. `KconfigSymbols` keeps what was
entered, what does not count (`SYMBOL_NEW`) and what was calculated (`SYMBOL_VALID`);
a step edits, saves or reads. A saved file may be changed by hand in one line before it is
read.

## 3. Runs

Three runs pass; each joins instances that share nothing. A behaviour is of one of
them, chosen in the initial state (`worker` in `MC_Workers`, `part` in `MC_Parts`,
`callers` in `DriverModel`), and the variables of the others
stay at one value, so nothing is lost or gained against separate runs. The MC modules extend
the modules about which something is proved, so that the property a run checks is the very
definition of the theorem; the other modules are instances.

| Run | Instance | Shows |
|---|---|---|
| `driver_model` | 2 buses, 2 drivers on both, 2 devices, 3 driver_privates; one driver per bus, 3 devices, table of 2 usable ids; and one driver on both buses, as in `main` | lists and pointers agree, one driver per name, a bound device keeps its driver; kept apart: no fault at all, registrations last |
| `protocol_workers` | general (2 producers, 3 messages of 5 kinds), modbus (4 Daikin messages; 2 of 15 kinds of all makes), bacnet (2 of 10 kinds, 2 invoke ids), exchanges (every method of each make, and pairs of messages), custom bus (2 writers, 3 messages, 4 driver kinds, 1 interrupted wait; and 1 writer with a semaphore that is full after one post) | what section 1 asks of the workers, devices and exchanges; every message is popped or freed; the custom bus implements `BusQueue` |
| `parts` | ring buffer (4 slots, counters modulo 8), list (2 writers, 3 messages), message queue (sender, 2 receivers, depth 2), timer (2 tasks of period 2, counting from 0 or 1, 2 threads), id table (ids 1, 7, 8, 9 of 10), daemon (3 starts), ports (2 + 2), BACnet object (5 changes), menu (3 entries), configuration (10 symbols) | each part's properties (none of the ports, whose one property is in `ports_restore`); implements `BoundedFifo` and `Elements` |
| `custom_bus_zero_retransmission` | driver with retransmission 0 | violation: the counter wraps |
| `custom_bus_withdraw` | 2 writers, 3 messages, a semaphore full after one post | violation: a node the bus thread has freed is unlinked and freed again by its writer |
| `custom_bus_reply` | dooya driver | violation: the answer to a sent frame is never read |
| `custom_list_overlap` | 1 writer, 2 messages, overlap | violation: insertion works on a freed node |
| `driver_model_iterator` | 1 bus, 2 drivers | violation: an iteration removes a driver |
| `message_queue_owned` | 3 threads that allocate and free, depth 4 | violation: two threads get the same message |
| `message_queue_sleep` | a sender, 2 readers that block, depth 1 | violation: both sleep with a message in the queue |
| `timer_walk` | 2 tasks, 2 threads | violation: a walk uses a task that was freed beside it |
| `ports_restore` | 2 buses, 1 port of the general protocol, ports found at 9600 or 115200 | violation: a port gets the settings another was found with |

Violations are listed under "findings" in `PROJECT.json`, each with the comment
or message of the source that says otherwise.

Properties worth a second look:

* `SemCountsNodes` and `EmptyListMeansInterrupt`: the semaphore alone orders writers and the bus thread.
  Each interrupted wait leaves it one ahead for good, from then on a walk may start on an empty
  list, and only from then on.
* `PostsCoverQueue`: interrupted waits bring a worker to the ring without a post, so
  posts may exceed messages but never fall short of them.
* `LengthTellsFresh` (modbus) and `AsksWhatIsMeant` (bacnet) are about state that
  one message leaves for the next.
* `CatchesUp`: the Daikin rows are changed before a write is sent; a lost write is
  made up for by the next one that arrives, because the whole row is written.
* `InfoFromIntactAnswer`: what is stored of a Loreley machine, the only make whose answers are stored,
  was read from an answer that is whole; one damaged byte its sum cannot miss, two that
  make up for each other it would. `RetrySendsSameFrame`: a counter or address does not
  move on between the passes of one message.
* `CacheIsGood`: a client that compares revisions never holds an old name or identity.
* `MenuShowsWhatIsMeant`: rewriting a condition changes no value of it; and who can see an entry of a
  submenu can see the entry that opens it, or that one's symbol is set. This is about one level: the
  entry that opens it may itself be in a submenu that is closed.
* `OwnedOnce`: every message of the queue is in one place, although slots are read and cleared, looked
  at and filled, in two steps; `SleepersAreAccounted`: nobody sleeps uncounted.
* `CalledOnTime`: registrations in the middle of a walk, and callbacks that unregister their own task,
  neither make the walk miss a task nor lead it into a freed one.
* `SaveKeepsValues`: the whole calculation is a fixed point under write and read, whatever
  was entered for symbols that cannot be seen.

Bounds. Three messages give the thread one in hand, one listed behind it and
one being inserted, which is every relation between a writer and the thread;
two writers give the races between writers. A driver list of length two is
enough for the iterator to find an entry after the one it stops at; three
driver_privates let a driver be registered, unregistered and registered again
while another one stays. `UintMod` is the width of an unsigned made small: 8
passes already exceed the maximum of 3, and 8 elements wrap twice round 4 slots.
Two modbus messages show every effect of one on the next, four let a Daikin row go through
a lost write, another and a read. Ids 7, 8 and 9 lie on both sides of a byte of the bitmap.
Two timer tasks are one at the walk and the next, or one that a callback adds; with period 2 and a
first count of 1 a new task is due at once, with 0 after two walks; two threads are the one started and
one that was cancelled. One interrupted wait of the custom bus is enough to put its thread ahead of
the posts for good. Three starts of
the daemon are the one that holds the lock, one that is refused and one that comes after a
kill. One cut or damaged answer is enough, since every state of the exchange can follow it.
`CHECK_DEADLOCK FALSE` is set where messages, allocations, changes or registrations are
bounded, or a fault ends the run.

Fairness. `WorkersSpec` assumes that a worker runs when it can and that a
producer that has put a message posts; and of a custom bus weak fairness of its thread and
of each writer inside `custom_bus_write`: POSIX threads that are runnable run, and the wait of
`select` has a timeout. An interrupted wait is never assumed to happen. Nothing is
assumed of how often a caller calls, nor of the outcome of get, send or receive.
`EventuallyFreed` (every message, unless a walk over an empty list
ends the process first) and `EventuallyPopped` are checked by TLC only.

## 4. Proofs

Every theorem holds for every value of the constants that meets the hypotheses it names.
Each hypothesis is one that the source, or its callers as far as the repository has them, meets; where
the statement is false without it, that is said below.

**CustomBusProof**, for every set of writers, drivers and bounds:

* `TypeCorrect`: the type invariant;
* `SemaphoreCountsList`: the semaphore equals the listed nodes that no writer has still to post and
  the thread has not taken, plus one for each wait that was interrupted; hence
  `EmptyListTakesInterrupt`: without an interrupted wait the list is not empty after one;
* `OldestFirst`: the entry reached by the walk is the oldest, allocated and linked;
* `ImplementsBusQueue`: the bus implements `BusQueue`. A `list_add` is `Accept`, the walk to the
  tail `HandOver`, the free `Finish`, the unlinking after a failed post `Withdraw`; a post and
  the loop leave the queue alone;
* `BusIsReleased`: if every driver asks for at least one pass, a message takes
  at most `RetransMax` passes and as many timeouts;
* `RepeatsAreJustified`: a pass is repeated only where no answer came or put did not return 0, and no
  more often than the driver asks for, drivers that ask for 0 and get 2^32 included.

The first four assume `Tidy`: the semaphore has room for all messages (POSIX guarantees
SEM_VALUE_MAX >= 32767; a post then never fails), with any number of writers and interrupted waits; or
one thread makes all the calls and no wait is interrupted, and posts may fail. With a full semaphore and
two writers, or one and a wait that was interrupted, the node that is about to be withdrawn can be the
one the thread has: run `custom_bus_withdraw`. `SemCountsNodes` alone is not
inductive: that the list is strictly ordered by allocation, that a caller who may have to
withdraw owns the head of the list, and that the node in hand is its last entry is what makes a step
of the thread and a step of a writer commute; `ListInv` states these parts one by one. The
loop bound needs the relation between the passes made and the retransmissions left
(`WithinBudget`).

**DriverModelProof**, for any number of buses, drivers, devices and registrations:

* `TypesHold`: the type invariant, in particular what `get_device_id` answers;
* `ListsStayInOrder`: a node is on the list its `n_wlist` names, once, and on no other; a bus has one
  driver of a name; a bound device is on the list of a live `driver_private` of its driver;
* `RegistrationTakesNoDevice`: a device loses its driver only when that is unregistered or the device
  probed again;
* `KeepingApartIsSound`: for callers that `KeepApart`, no call faults and a registered driver stays on
  its bus. With two drivers on a bus it is false (run `driver_model_iterator`).

The lists are sequences, and `Selected` (what a removal leaves) is a recursive function, so the
first lemmas are about sequences: what appending, removing at an index and selecting do to the set of
entries, and that they repeat none. An induction theorem cannot be instantiated here, so
`SelectionExists` and `SelectedIs` take the least prefix for which they fail (`Least`, from
`WFMin`) and refute it. `BusListsAgree` alone is not inductive: a driver whose structure was
registered a second time still has its first `driver_private` linked, so `PrivsOwned` relates
owners, current `driver_private`s and those that were freed; a device that is not live is on no list
(`OnlyLive`), and each successful registration has allocated (`Counted`). An iteration that stops early
unlinks an entry, and `IterationKeepsLists` shows that it does so consistently. The last theorem adds
that a linked `driver_private` belongs to a driver that was registered there and has one, and is that
driver's current one where the driver may be unregistered (`CurrentOnly`); hence one entry per list, hence
nothing for an iterator to take off. On several buses a driver's field points to the last
`driver_private` (`main.c:63-69`), which does no harm while nobody unregisters it.

**PartsProof** is about the parts of `MC_Parts`; each has an invariant of its own, and none knows of
another. The ring buffer, for every `element_count` and every `UintMod` that is a multiple of it
(`RingBufAssumption`; on a 32-bit unsigned this is what the power of two of `ringbuf.c:255` gives):

* `TypeCorrect` and `CountBounded`: the counters stay unsigned, and the tests for
  room and for an element still hold when the side that made them acts;
* `NeverClash`: the two sides are never in the same slot;
* `OldestInHand`: the consumer copies out a whole element, the oldest;
* `RingBufferIsFifo`: every step is a `Put`, a `Pop` or a `PutFront` of `BoundedFifo`,
  or leaves the queue alone.

The argument has two layers. Arithmetic: the difference of two counters is exact
although each wraps (`MovedCounters`, `Places`), and two counters that differ by
less than `element_count` have different slots (`DistinctSlots`), which is where the
multiple is needed. State: `CountInBounds` alone is not inductive; `IInv` adds that
the producer's slot is the one at head, that it holds the whole element before head
moves, that every place between tail and head holds a whole element, and that what
the consumer has in hand is the element at tail.

The daemon, for every set of processes: `OneDaemonNamed`. The invariant says, for each step
between open and the end of the write, who holds the lock and what the file may hold at that step; a
process that is killed gives the lock up and leaves the file as it is, which is why the claim is
about a process that has written.

The BACnet device object, while fewer changes are made than there are revisions (`RevisionsLast`; the code
has 2^32): `CacheStaysGood`. A client may read between a change and the increment that tells it, so
`CacheIsGood`, which is about the time when no call is under way, is not inductive. `Kept` says what a
client has while one is: nothing from a revision to come, and with the revision of now the name of
now unless a change is still to be told.

The timer, for any number of tasks, threads, periods and first counts: `TasksAreCalledOnTime`. Until
somebody is careless, the list is in increasing order of registration and the entry after the one at a
walk is really its `follower` (`Walking`; when it is the head, tasks added meanwhile wait for the next
walk), for each of the walks under way. Until two were under way at once, a task has waited no longer
than it has counted, but for one tick if the walk is yet to come to it (`Counts`). A task that starts
with a count beyond its period is due at the first walk. `TimerAssumption` is that `timer_task_register`
refuses a period of 0. What happens after carelessness is the run `timer_walk`.

**GeneralWorkerProof** and **ModbusWorkerProof**, over **WorkQueueProof**, for every set of producers
and of message kinds, and every capacity and bound:

* `TypeCorrect` (general);
* `NoMessageForgotten`: a post, or the worker itself on its way to the ring, covers every message in it;
* `FirstInFirstOut`: messages are popped in the order they were put;
* `PassesAreBounded` (general), `TriesAreBounded` (modbus): a message is sent at most as often as it
  asks, and at most `MaxRetrans` times by the general worker; one that asks for 0, and each further
  round of a modbus message, takes all values of the counter and no more;
* `NeverRepeatsAnswered`, `RepeatsOnlyFailed`: it is sent again only without the answer it waits for;
* `LengthIsTelling`: the length given to a modbus receive handler says whether the buffer holds an
  answer to this message or what an earlier one left in it;
* `WritesCatchUp`: a register write that reaches a Daikin unit brings that register to all that was
  commanded of it, also by commands whose own write was lost, and touches no other unit's.

The queue's part of the invariant (`QueueInv`) is about `WorkQueue` alone: popped and queued messages
together are 1, 2, 3, ... in order; posts and producers still to post count at least the queue,
minus the message in hand. The worker's part relates passes made to retransmissions left
(`PassesAddUp`, `TriesAddUp`) and, for modbus, to the rounds (`Rounds`), which is what bounds the loop; for the length, a read of words asks for one
at least (`ReadsSomething`). `WritesCatchUp` rests on an invariant of its own (`DInv`): each row of the
table is the three words of the commands so far, byte by byte, and a frame that is about to be written
carries its row's. All assume `MessagesFit`: retransmissions fit an unsigned, and handlers outside
the repository read one register at least (a read of none returns 0, which is also what an empty
answer would be). `WritesCatchUp` assumes also `DaikinMessagesFit`: the methods the driver registers with each
setter, and units with a row in the initializer of `DTA116A621.c:65`, which leaves out
unit 63. `CatchesUp` itself leaves out `AIR_RESTART`, for which 65535 is sent.

**BacnetWorkerProof**, over `WorkQueueProof` too, for any number of producers and messages, any pool of
transactions and any units that are found:

* `TypeCorrect`, `NoMessageForgotten`, `FirstInFirstOut`, as for the other workers;
* `WritesAreSettled`: between writes no transaction of a write is in the pool, and a write is taken for
  a success only when its own answer was received;
* `RequestsAreMeant`: every request goes to the device of the message in hand, a write names the object
  its method means, and a read asks for all properties of the device. The value of a write is none of
  this (section 2).

`Request_Invoke_ID` and the flags are static, so the invariant has to say what each call leaves in
them: the transaction of a write is the one whose id is kept, and an id is kept in the write
loop only (`OneWrite`); it is closed by its answer alone, because the stack's timer marks it as failed and
does not free it (`ClosedByAnswer`). The list of objects that the first read copies is
`YorkRead`, whichever message came first (`Packed`), which is why later reads that send it again are
right. `MessagesFit` says that the fields of a message are bytes and that 0, which the
code takes for no transaction, is no invoke id.

**MessageQueueProof**, for any number of threads and any depth:

* `MessagesOwnedOnce`: no message is in two hands or slots, and none is lost;
* `SlotsAreNotOverwritten`: a thread clears its slot with what it has read still in it, and fills one
  that is still empty;
* `NoSleeperIsForgotten`: each thread that is registered or asleep is counted, posted or about to be.

The first two assume `OneSided`: on each side of the queue at most one thread gets or at most one puts, as with
the two queues of `examples/www_server.c`. With more the claim is false (run `message_queue_owned`). The
invariant numbers the positions of the endless sequence each side works through: counts and
positions differ by the threads between their two steps (`Balance`); each thread has a position of its own
(`Positions`); nobody is a round ahead of a slot that is not cleared, but the one that waits
for it (`GetsBehind`, `PutsBehind`); and the slots that hold messages are those of the positions filled
and not cleared (`Content`). `OwnedOnce` is part of the induction.

The third holds for any finite number of threads of each kind. Blocked readers, posts not yet
taken and posts about to be made are together the threads that have registered (`Accounted`). It does not
say that a message finds a sleeper: a failed try can hide one from both (run `message_queue_sleep`).

Only model-checked: liveness under fairness (`EventuallyFreed`, `EventuallyPopped`), which the prover
cannot do; `ListIsSound`, which is about list operations that exclude each other (`Overlap = FALSE`; the
code does not see to that, run `custom_list_overlap`); `KeepsElementsApart`; `FramesAreWellFormed`, `RetrySendsSameFrame` and `InfoFromIntactAnswer`
(exchanges), whose checksums are bit operations of a module that no theorem can be about here, and folds
over the bytes of a frame; `MenuShowsWhatIsMeant`, `ValuesAreRight` and `SaveKeepsValues`, which are
about recursive definitions over expressions: what those compute for every expression is out of the
prover's reach.

## 5. Not modelled, and why

* The BACnet stack and libmodbus: outside the repository's own logic; modelled by what the
  workers use of them.
* Cancelling a bus thread that is running (`core.c:223`) and destroying a device with queued
  messages: the code gives no order between the two threads, and what happens after is
  undefined.
* `rs485_device_destroy` frees the device twice on every call (`device.c:119` with
  `core.c:325`, then `core.c:424`): `DeviceDestroy` is a fault, and no run is spent on it. With
  a full id table `get_device_id` also stores the pointer of the device, which is then freed, at
  index -1 (`CreateFull`); no run checks that word, because nothing reads it.
* Disagreements of the code with names or comments that no run is spent on. `get_unused_id` returns an
  id in use (`bitmap.c:105`). `rs485_device_match` answers 0 for the driver a device names
  (`core.c:123`), and the driver core goes on where the answer is not 0 (`device_driver.c:130`): a device is
  offered every driver but its own, which `DriverModel` translates. Doya's receive handler compares the
  checksum of an answer with one that it has not computed and rejects intact answers (`doya.c:938`), which
  `DeviceFrames` translates. The lists of York's modes differ (`york.c:94-98`, `:248-252`), and no write
  carries its value (`write_property.c:92-102`). Results of `ftruncate` and `write` are not looked at
  (`daemon.c:139-141`).
* Memory order: volatile counters without barriers are modelled sequentially consistent.
* Doya's set-up functions hand their frames to a stub; the frame functions before the
  handlers in the device files, suspend and resume, `bus_rescan_devices` and others have no
  caller.
* Custom divisors of `RS485_SpecBaud` and the RTS line: no program state depends on them.
* Modules (`m`), optional choices, hexadecimal and string symbols and dependency loops in the build
  configuration: the repository's files have none. Whether `conf_read` reports a change is left
  open. The parser, the front ends and the header files written are input and output.
* The client table (constant), the `rs485c` stub client, make fragments, logging and
  formatting.

## 6. What could follow

A proof of `RetrySendsSameFrame` over an abstract frame, with the checksums as constants. A model of
`CustomBus` together with `DriverModel`, once something in the repository writes to a bus.
