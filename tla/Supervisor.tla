----------------------------- MODULE Supervisor -----------------------------
(***************************************************************************)
(* app/main.cpp in daemon mode, driven by server_ctl.sh: a supervisor      *)
(* forks a worker, waits for it and starts it again when it crashes.  The  *)
(* supervisor's pid is in the pid file; server_ctl.sh reads it there.      *)
(*                                                                         *)
(* A signal is handled when it is sent: its handler runs before the next   *)
(* step of the process.  The worker's main thread gets its signals (Linux  *)
(* prefers it).  Pids are not reused, and commands of server_ctl.sh do not *)
(* overlap each other.                                                     *)
(***************************************************************************)
EXTENDS Integers, FiniteSets, Sequences

CONSTANTS
    Pids,           \* the processes that can become a supervisor
    MaxTimes,       \* DAEMON_RESTART_MAX_TIMES
    Window,         \* DAEMON_RESTART_WINDOW_SECONDS
    Delay,          \* DAEMON_RESTART_DELAY_SECONDS
    MaxTime,        \* bound: the clock
    MaxCrashes,     \* bound: workers that crash, and forks that fail
    MaxSignals      \* bound: signals operators send

\* Holds of the constants of every instance.
SupervisorAssumption ==
    /\ "none" \notin Pids
    /\ MaxTimes \in Nat /\ Window \in Nat /\ Delay \in Nat
    /\ MaxTime \in Nat /\ MaxCrashes \in Nat /\ MaxSignals \in Nat

VARIABLES
    now,
    sup,        \* per pid: [pc, stop, knows, count, window_start, since]
    worker,     \* per pid, its child: [pc, stop, reload, status]
    pid_file,   \* the pid in it, or "none"
    ctl,        \* server_ctl.sh: [pc, pid]
    crashes, sent,
    restarts,   \* history, per pid: times of the restarts after a crash, since the last reload
    settled     \* history: pids signalled while supervisor and worker were both waiting

vars == <<now, sup, worker, pid_file, ctl, crashes, sent, restarts, settled>>
environment == <<ctl, crashes, sent, settled>>

\* g_supervisor_stop and g_supervisor_worker_pid > 0 are "stop" and "knows".
Process(pc) ==
    [pc |-> pc, stop |-> FALSE, knows |-> FALSE, count |-> 0, window_start |-> 0, since |-> 0]

\* g_server_stop and g_server_reload, and the exit status
Worker(pc, status) == [pc |-> pc, stop |-> FALSE, reload |-> FALSE, status |-> status]

Init ==
    /\ now = 1
    /\ sup = [p \in Pids |-> Process("unborn")]
    /\ worker = [p \in Pids |-> Worker("none", "-")]
    /\ pid_file = "none"
    /\ ctl = [pc |-> "idle", pid |-> "none"]
    /\ crashes = 0 /\ sent = 0 /\ restarts = [p \in Pids |-> <<>>] /\ settled = {}

process_exists(p) == p # "none" /\ sup[p].pc \notin {"unborn", "gone"}
-----------------------------------------------------------------------------
(***************************************************************************)
(* The supervisor: run_daemon_supervisor                                   *)
(***************************************************************************)
\* A plausible slip: SIGTERM is only remembered for the log.
WorkerTermForgets(p, sig) ==
    [worker[p] EXCEPT !.reload = @ \/ sig = "HUP",
                      !.pc = IF @ = "epoll_wait" THEN "test" ELSE @]

\* Until install_worker_signal_handlers the inherited handler sets a flag nobody
\* reads.  Afterwards a signal sets a flag, and epoll_wait returns with EINTR.
worker_term_handler(p, sig) ==
    IF worker[p].pc = "born" THEN worker[p]
    ELSE [worker[p] EXCEPT !.stop = @ \/ sig = "TERM", !.reload = @ \/ sig = "HUP",
                           !.pc = IF @ = "epoll_wait" THEN "test" ELSE @]

Live(p) == worker[p].pc \notin {"none", "exited"}

\* kill(2): a worker that is gone is not affected.
kill(p, sig) == worker' = IF Live(p) THEN [worker EXCEPT ![p] = worker_term_handler(p, sig)] ELSE worker

Goto(p, pc) == sup' = [sup EXCEPT ![p].pc = pc]
Exit(p) == sup' = [sup EXCEPT ![p] = Process("gone")]

remove_pid_file_if_match(p) == pid_file' = IF pid_file = p THEN "none" ELSE pid_file

\* daemonize_process may fail; the pid file may not be writable.
write_pid_file(p) ==
    /\ sup[p].pc = "daemonized"
    /\ \/ Goto(p, "written") /\ pid_file' = p
       \/ Exit(p) /\ UNCHANGED pid_file
    /\ UNCHANGED <<now, worker, environment, restarts>>

install_supervisor_signal_handlers(p) ==
    /\ sup[p].pc = "written"
    /\ Goto(p, "loop")
    /\ UNCHANGED <<now, worker, pid_file, environment, restarts>>

TestStop(p) ==
    /\ sup[p].pc = "loop"
    /\ IF sup[p].stop THEN Exit(p) /\ remove_pid_file_if_match(p)
       ELSE Goto(p, "fork") /\ UNCHANGED pid_file
    /\ UNCHANGED <<now, worker, environment, restarts>>

\* The child still has the supervisor's handlers, and no worker of its own.
Fork(p) ==
    /\ sup[p].pc = "fork"
    /\ Goto(p, "forked")
    /\ worker' = [worker EXCEPT ![p] = Worker("born", "-")]
    /\ restarts' = IF sup[p].count > 0 THEN [restarts EXCEPT ![p] = Append(@, now)] ELSE restarts
    /\ UNCHANGED <<now, pid_file, environment>>

ForkFails(p) ==
    /\ sup[p].pc = "fork" /\ crashes < MaxCrashes
    /\ crashes' = crashes + 1
    /\ sup' = [sup EXCEPT ![p].pc = "sleep", ![p].since = now]
    /\ UNCHANGED <<now, worker, pid_file, ctl, sent, restarts, settled>>

\* g_supervisor_worker_pid = pid
StorePid(p) ==
    /\ sup[p].pc = "forked"
    /\ sup' = [sup EXCEPT ![p].pc = "wait", ![p].knows = TRUE]
    /\ UNCHANGED <<now, worker, pid_file, environment, restarts>>

\* A plausible slip: any error of waitpid ends the supervisor.
LeaveOnEintr(p) ==
    /\ sup[p].pc = "eintr"
    /\ Exit(p) /\ remove_pid_file_if_match(p)
    /\ UNCHANGED <<now, worker, environment, restarts>>

\* waitpid failed with EINTR: SIGTERM once more.
RepeatTerm(p) ==
    /\ sup[p].pc = "eintr"
    /\ Goto(p, "wait")
    /\ IF sup[p].stop THEN kill(p, "TERM") ELSE UNCHANGED worker
    /\ UNCHANGED <<now, pid_file, environment, restarts>>

\* The worker's status has been collected; g_supervisor_worker_pid = -1.
Reap(p) ==
    /\ sup[p].pc = "wait" /\ worker[p].pc = "exited"
    /\ sup' = [sup EXCEPT ![p].pc = "reaped", ![p].knows = FALSE]
    /\ worker' = [worker EXCEPT ![p].pc = "none"]
    /\ UNCHANGED <<now, pid_file, environment, restarts>>

\* A plausible slip: every crash opens a window of its own.
WindowOver(p) == sup[p].window_start = 0 \/ now - sup[p].window_start >= 0

restart_window_over(p) == sup[p].window_start = 0 \/ now - sup[p].window_start > Window

\* What the supervisor makes of the status, up to the end of the loop's body.
AfterWait(p) ==
    LET count == IF restart_window_over(p) THEN 1 ELSE sup[p].count + 1
        start == IF restart_window_over(p) THEN now ELSE sup[p].window_start
    IN  /\ sup[p].pc = "reaped"
        /\ \/ /\ sup[p].stop
              /\ Exit(p) /\ remove_pid_file_if_match(p) /\ UNCHANGED restarts
           \/ /\ ~sup[p].stop /\ worker[p].status = "0"
              /\ Exit(p) /\ UNCHANGED <<pid_file, restarts>>
           \/ /\ ~sup[p].stop /\ worker[p].status = "reload"
              /\ sup' = [sup EXCEPT ![p] = [@ EXCEPT !.pc = "sleep", !.count = 0,
                                                    !.window_start = 0, !.since = now]]
              /\ restarts' = [restarts EXCEPT ![p] = <<>>] /\ UNCHANGED pid_file
           \/ /\ ~sup[p].stop /\ worker[p].status = "crash"
              /\ IF count > MaxTimes THEN Exit(p) /\ remove_pid_file_if_match(p)
                 ELSE /\ sup' = [sup EXCEPT ![p] = [@ EXCEPT !.pc = "sleep", !.count = count,
                                                      !.window_start = start, !.since = now]]
                      /\ UNCHANGED pid_file
              /\ UNCHANGED restarts
        /\ UNCHANGED <<now, worker, environment>>

\* sleep ends, or a signal that was handled has cut it short.
Wake(p) ==
    /\ sup[p].pc = "sleep"
    /\ sup[p].stop \/ now >= sup[p].since + Delay \/ now = MaxTime
    /\ sup' = [sup EXCEPT ![p].pc = "loop", ![p].since = 0]
    /\ UNCHANGED <<now, worker, pid_file, environment, restarts>>

\* Before the handlers are installed SIGTERM kills and SIGHUP is ignored.
supervisor_signal_handler(p, sig) ==
    IF sup[p].pc \in {"daemonized", "written"}
    THEN /\ sup' = IF sig = "TERM" THEN [sup EXCEPT ![p] = Process("gone")] ELSE sup
         /\ UNCHANGED worker
    ELSE /\ sup' = [sup EXCEPT ![p].stop = TRUE, ![p].pc = IF @ = "wait" THEN "eintr" ELSE @]
         /\ IF sup[p].knows THEN kill(p, sig) ELSE UNCHANGED worker
-----------------------------------------------------------------------------
(***************************************************************************)
(* The worker: run_server_process and WebServer::eventLoop                 *)
(***************************************************************************)
Rest == <<now, sup, pid_file, environment, restarts>>

install_worker_signal_handlers(p) ==
    /\ worker[p].pc = "born"
    /\ worker' = [worker EXCEPT ![p].pc = "starting"] /\ UNCHANGED Rest

\* From the rate limiter to eventListen.
StartServing(p) ==
    /\ worker[p].pc = "starting"
    /\ worker' = [worker EXCEPT ![p].pc = "test"] /\ UNCHANGED Rest

TestFlags(p) ==
    /\ worker[p].pc = "test"
    /\ worker' = [worker EXCEPT ![p].pc = IF worker[p].stop \/ worker[p].reload THEN "leaving" ELSE "enter"]
    /\ UNCHANGED Rest

\* epoll_wait blocks, with no timeout, whatever the flags are by now.
EnterWait(p) ==
    /\ worker[p].pc = "enter"
    /\ worker' = [worker EXCEPT ![p].pc = "epoll_wait"] /\ UNCHANGED Rest

NewConnection(p) ==
    /\ worker[p].pc = "epoll_wait"
    /\ worker' = [worker EXCEPT ![p].pc = "test"] /\ UNCHANGED Rest

\* return g_server_reload ? EXIT_CODE_RELOAD : 0, and the destructors
Leave(p) ==
    /\ worker[p].pc = "leaving"
    /\ worker' = [worker EXCEPT ![p] = Worker("exited", IF worker[p].reload THEN "reload" ELSE "0")]
    /\ UNCHANGED <<now, sup, pid_file, environment, restarts>>

\* A fatal signal, a failed assertion, or a start that fails.
Crash(p) ==
    /\ Live(p) /\ crashes < MaxCrashes
    /\ crashes' = crashes + 1
    /\ worker' = [worker EXCEPT ![p] = Worker("exited", "crash")]
    /\ UNCHANGED <<now, sup, pid_file, ctl, sent, restarts, settled>>
-----------------------------------------------------------------------------
(***************************************************************************)
(* server_ctl.sh                                                           *)
(***************************************************************************)

\* A pid file whose process is gone is removed.
is_running == process_exists(pid_file)

\* A plausible slip: the launcher does not look for a running supervisor.
StartAnyway(p) ==
    /\ ctl.pc = "idle" /\ sup[p].pc = "unborn"
    /\ Goto(p, "daemonized") /\ pid_file' = "none"
    /\ UNCHANGED <<now, worker, environment, restarts>>

\* start: is_running, check_existing_supervisor, and the fork of
\* daemonize_process that lets server_ctl.sh go on.  Its second of sleep is
\* taken to be enough for the daemon to write the pid file.
start_server(p) ==
    /\ ctl.pc = "idle" /\ sup[p].pc = "unborn" /\ ~is_running
    /\ \A q \in Pids : sup[q].pc # "daemonized"
    /\ Goto(p, "daemonized") /\ pid_file' = "none"
    /\ UNCHANGED <<now, worker, environment, restarts>>

Signal(p, sig) ==
    /\ sent < MaxSignals /\ sent' = sent + 1
    /\ supervisor_signal_handler(p, sig)
    /\ settled' = IF sup[p].pc = "wait" /\ worker[p].pc = "epoll_wait" THEN settled \cup {p} ELSE settled

stop_server ==
    /\ ctl.pc = "idle" /\ is_running
    /\ Signal(pid_file, "TERM")
    /\ ctl' = [pc |-> "stopping", pid |-> pid_file]
    /\ UNCHANGED <<now, pid_file, crashes, restarts>>

\* The supervisor is gone: rm -f of the pid file; or 20 polls were not enough.
StopReturns ==
    /\ ctl.pc = "stopping"
    /\ pid_file' = IF process_exists(ctl.pid) THEN pid_file ELSE "none"
    /\ ctl' = [pc |-> "idle", pid |-> "none"]
    /\ UNCHANGED <<now, sup, worker, crashes, sent, restarts, settled>>

reload_server ==
    /\ ctl.pc = "idle" /\ is_running
    /\ Signal(pid_file, "HUP")
    /\ UNCHANGED <<now, pid_file, ctl, crashes, restarts>>

\* Somebody signals the worker itself.
SignalWorker(p, sig) ==
    /\ Live(p) /\ sent < MaxSignals
    /\ sent' = sent + 1
    /\ kill(p, sig)
    /\ UNCHANGED <<now, sup, pid_file, ctl, crashes, restarts, settled>>

Tick ==
    /\ now < MaxTime
    /\ now' = now + 1
    /\ UNCHANGED <<sup, worker, pid_file, environment, restarts>>
-----------------------------------------------------------------------------
Supervising(p) == RepeatTerm(p) \/ Reap(p) \/ AfterWait(p)
Working(p) == TestFlags(p) \/ Leave(p)

Next ==
    \/ \E p \in Pids :
        \/ write_pid_file(p) \/ install_supervisor_signal_handlers(p) \/ TestStop(p)
        \/ Fork(p) \/ ForkFails(p) \/ StorePid(p) \/ RepeatTerm(p) \/ Reap(p) \/ AfterWait(p) \/ Wake(p)
        \/ install_worker_signal_handlers(p) \/ StartServing(p) \/ TestFlags(p) \/ EnterWait(p)
        \/ NewConnection(p) \/ Leave(p) \/ Crash(p)
        \/ \E sig \in {"TERM", "HUP"} : SignalWorker(p, sig)
        \/ start_server(p)
    \/ stop_server \/ StopReturns \/ reload_server \/ Tick

\* Both processes are scheduled.
Spec == Init /\ [][Next]_vars /\ \A p \in Pids : WF_vars(Supervising(p)) /\ WF_vars(Working(p))
-----------------------------------------------------------------------------
(***************************************************************************)
(* Properties                                                              *)
(***************************************************************************)
Supervises(p) == sup[p].pc \notin {"unborn", "daemonized", "gone"}

\* At most one supervisor runs and the pid file names it, through crashes,
\* restarts, stops that time out and pid files left behind by exit code 0.
PidFileNamesSupervisor == \A p \in Pids : Supervises(p) => pid_file = p

\* A supervisor never leaves a worker behind, whichever way run_daemon_supervisor
\* returns: no worker serves without a supervisor that waits for it.
NoOrphanWorker ==
    \A p \in Pids : worker[p].pc # "none" => sup[p].pc \in {"forked", "wait", "eintr"}

\* A worker that crashes again and again is restarted at most twice
\* DAEMON_RESTART_MAX_TIMES in any span of DAEMON_RESTART_WINDOW_SECONDS,
\* however the span lies across the supervisor's own windows.
CrashLoopBounded ==
    \A p \in Pids, t \in 1..MaxTime :
        Cardinality({i \in 1..Len(restarts[p]) : restarts[p][i] \in t..(t + Window)}) <= 2 * MaxTimes

\* A signal that finds the supervisor in waitpid and the worker in epoll_wait
\* ends both, though a reload was meant.  (One that comes earlier may be lost:
\* between fork and the store of the worker's pid, before the worker has its
\* handlers, and between the test of the flags and epoll_wait.)
Ended(p) == sup[p].pc = "gone" /\ worker[p].pc = "none"
StopEnds == (\E p \in settled : ~Ended(p)) ~> (\A p \in settled : Ended(p))
=============================================================================
