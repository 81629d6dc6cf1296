------------------------------ MODULE MCServer ------------------------------
(***************************************************************************)
(* Instances for TLC of the processes in daemon mode: the supervisor with  *)
(* its worker process (Supervisor), and the threads of a worker process    *)
(* (Server).  Each takes the other as given: a behaviour is one of the     *)
(* first or one of the second, as part says.                               *)
(***************************************************************************)
EXTENDS Supervisor

CONSTANTS Clients, Reactors, Workers, Fds, ActorModel, MaxTasks, Parts, Requests, Brief,
          MaxFaults, None

VARIABLES part, client, unread, fd, interest, users, main, pending, notify, reactor, heap, tasks,
          pool_thread, faults

W == INSTANCE Server WITH worker <- pool_thread

ASSUME SupervisorAssumption /\ W!ServerAssumption

threadVars == <<client, unread, fd, interest, users, main, pending, notify, reactor, heap, tasks,
                pool_thread, faults>>
everything == <<vars, threadVars, part>>

ProcessesInit == Init /\ W!Init /\ part \in {"threads", "daemon"}

Threaded == part = "threads" /\ UNCHANGED <<vars, part>>
Daemon == part = "daemon" /\ UNCHANGED <<threadVars, part>>

ThreadNext ==
    \/ \E c \in Clients :
        \/ W!Connect(c) /\ Threaded
        \/ W!Send(c) /\ Threaded
        \/ W!HangUp(c) /\ Threaded
        \/ W!Accept(c) /\ Threaded
        \/ W!Refuse(c) /\ Threaded
    \/ W!PushPending /\ Threaded
    \/ W!NotifyReactor /\ Threaded
    \/ \E r \in Reactors :
        \/ W!epoll_wait(r) /\ Threaded
        \/ W!handle_notify(r) /\ Threaded
        \/ W!register_connection(r) /\ Threaded
        \/ W!Drained(r) /\ Threaded
        \/ W!append(r) /\ Threaded
        \/ \E s \in Fds :
            \/ W!CloseOnHup(r, s) /\ Threaded
            \/ W!dealwithread(r, s) /\ Threaded
            \/ W!WriteBlocks(r, s) /\ Threaded
            \/ W!dealwithwrite(r, s) /\ Threaded
            \/ W!scan_timeout(r, s) /\ Threaded
    \/ \E w \in Workers :
        \/ W!TakeTask(w) /\ Threaded
        \/ W!ProcessWaits(w) /\ Threaded
        \/ W!ProcessAnswers(w) /\ Threaded

DaemonNext ==
    \/ \E p \in Pids :
        \/ start_server(p) /\ Daemon
        \/ write_pid_file(p) /\ Daemon
        \/ install_supervisor_signal_handlers(p) /\ Daemon
        \/ TestStop(p) /\ Daemon
        \/ Fork(p) /\ Daemon
        \/ ForkFails(p) /\ Daemon
        \/ StorePid(p) /\ Daemon
        \/ RepeatTerm(p) /\ Daemon
        \/ Reap(p) /\ Daemon
        \/ AfterWait(p) /\ Daemon
        \/ Wake(p) /\ Daemon
        \/ install_worker_signal_handlers(p) /\ Daemon
        \/ StartServing(p) /\ Daemon
        \/ TestFlags(p) /\ Daemon
        \/ EnterWait(p) /\ Daemon
        \/ NewConnection(p) /\ Daemon
        \/ Leave(p) /\ Daemon
        \/ Crash(p) /\ Daemon
        \/ \E sig \in {"TERM", "HUP"} : SignalWorker(p, sig) /\ Daemon
    \/ stop_server /\ Daemon
    \/ StopReturns /\ Daemon
    \/ reload_server /\ Daemon
    \/ Tick /\ Daemon

\* The fairness of Server and of Supervisor.
ProcessesSpec ==
    /\ ProcessesInit
    /\ [][ThreadNext \/ DaemonNext]_everything
    /\ WF_everything(Threaded /\ W!Accepts)
    /\ \A r \in Reactors : WF_everything(Threaded /\ W!Reacts(r))
    /\ \A w \in Workers : WF_everything(Threaded /\ W!Works(w))
    /\ \A p \in Pids :
        WF_everything(Daemon /\ Supervising(p)) /\ WF_everything(Daemon /\ Working(p))
-----------------------------------------------------------------------------
\* A client receives answers to its own requests, whole and in order, although
\* the slot of its descriptor has served others whose tasks, timers and events
\* are still around.
AnswersMatch == W!AnswersMatch

\* Every open connection has a timer in the heap of the reactor whose epoll set
\* it is in, so that an idle one is found: no thread's cleanup of an earlier
\* connection on the descriptor takes the timer away.
TimerCovers == W!TimerCovers

\* A client that has sent a whole request is answered or its connection is
\* closed, without the help of the idle timeout: no event, notification or task
\* is lost between the threads.  The requests are finitely many, so there comes
\* a time when nobody waits.
RequestServed == W!RequestServed
=============================================================================
