------------------------------- MODULE Daemon ------------------------------
(***************************************************************************)
(* Becoming a daemon (sdk/module/daemon/daemon.c) and its signals          *)
(* (sdk/module/daemon/signal.c), by several processes started for the same *)
(* pid file, any of which may be killed between two calls.                 *)
(***************************************************************************)
EXTENDS Integers, Sequences

CONSTANTS
    Processes,      \* process ids, one for each start of the program
    Nobody

VARIABLES
    stage,          \* per process: the next call of daemon_init, "running" or "gone"
    hangup,         \* what SIGHUP does: "default", "ignore", or "wait": blocked, for sigwait
    single,         \* the argument single_instance
    pidfile,        \* contents of the pid file: empty, or a process id
    lock            \* the holder of its write lock

dvars == <<stage, hangup, single, pidfile, lock>>

DaemonInit ==
    /\ stage = [p \in Processes |-> "daemonize"]
    /\ hangup = [p \in Processes |-> "default"]
    /\ single \in [Processes -> BOOLEAN]
    /\ pidfile = <<>> /\ lock = Nobody

At(p, here, there) == stage[p] = here /\ stage' = [stage EXCEPT ![p] = there]

\* exit or a deadly signal: the kernel drops the lock with the process's descriptors.
Gone(p) ==
    /\ stage' = [stage EXCEPT ![p] = "gone"]
    /\ lock' = IF lock = p THEN Nobody ELSE lock
    /\ UNCHANGED <<hangup, single, pidfile>>

\* daemonize: the parents exit and the grandchild goes on, ignoring SIGHUP.
Daemonize(p) ==
    /\ At(p, "daemonize", IF single[p] THEN "open" ELSE "restore")
    /\ hangup' = [hangup EXCEPT ![p] = "ignore"]
    /\ UNCHANGED <<single, pidfile, lock>>

\* Mutant: open(lock_pid, O_RDWR | O_CREAT | O_TRUNC).
OpenTruncates(p) ==
    /\ At(p, "open", "lock") /\ pidfile' = <<>>
    /\ UNCHANGED <<hangup, single, lock>>

\* already_running: the file is opened, then locked, then emptied, then written.
Open(p) ==
    /\ At(p, "open", "lock")
    /\ UNCHANGED <<hangup, single, pidfile, lock>>

lockfile(p) ==
    /\ lock = Nobody /\ At(p, "lock", "truncate") /\ lock' = p
    /\ UNCHANGED <<hangup, single, pidfile>>

AlreadyRunning(p) == stage[p] = "lock" /\ lock # Nobody /\ Gone(p)

Truncate(p) ==
    /\ At(p, "truncate", "write") /\ pidfile' = <<>>
    /\ UNCHANGED <<hangup, single, lock>>

WritePid(p) ==
    /\ At(p, "write", "restore") /\ pidfile' = <<p>>
    /\ UNCHANGED <<hangup, single, lock>>

\* sighup_block_all_signal, in two calls, between which a SIGHUP is deadly.
RestoreSighup(p) ==
    /\ At(p, "restore", "block") /\ hangup' = [hangup EXCEPT ![p] = "default"]
    /\ UNCHANGED <<single, pidfile, lock>>

BlockAll(p) ==
    /\ At(p, "block", "thread") /\ hangup' = [hangup EXCEPT ![p] = "wait"]
    /\ UNCHANGED <<single, pidfile, lock>>

\* The thread that waits for signals is created; or it is not, and the process exits.
CreateThread(p) ==
    \/ At(p, "thread", "running") /\ UNCHANGED <<hangup, single, pidfile, lock>>
    \/ stage[p] = "thread" /\ Gone(p)

\* SIGHUP: deadly by default.  signal_handle_pthread takes it once there is a thread, and
\* goes on waiting: no handler is ever registered (signal_handle_register refuses all).
Hangup(p) == stage[p] # "gone" /\ hangup[p] = "default" /\ Gone(p)

\* SIGTERM before the signals are blocked, or taken by the thread, which exits; or a kill.
Terminate(p) == stage[p] # "gone" /\ Gone(p)

DaemonNext == \E p \in Processes :
    \/ Daemonize(p) \/ Open(p) \/ lockfile(p) \/ AlreadyRunning(p) \/ Truncate(p) \/ WritePid(p)
    \/ RestoreSighup(p) \/ BlockAll(p) \/ CreateThread(p) \/ Hangup(p) \/ Terminate(p)

DaemonSpec == DaemonInit /\ [][DaemonNext]_dvars

-----------------------------------------------------------------------------
\* Of the processes started with single_instance, at most one gets past the lock; and
\* the pid file names it as long as it lives, however often the program is started again
\* and whatever a process that was killed in the middle left in the file.
PidFileNamesTheDaemon ==
    \A p \in Processes :
        single[p] /\ stage[p] \in {"restore", "block", "thread", "running"} =>
            /\ pidfile = <<p>>
            /\ \A q \in Processes \ {p} :
                  single[q] => stage[q] \notin {"truncate", "write", "restore", "block", "thread",
                                                "running"}
=============================================================================
