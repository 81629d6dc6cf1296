-------------------------- MODULE SupervisorProofs --------------------------
(***************************************************************************)
(* Proofs about app/main.cpp and server_ctl.sh, for every set of process   *)
(* ids and every bound: a supervisor never leaves a worker behind, the pid *)
(* file names the one supervisor that runs, and a worker that keeps on     *)
(* crashing is not restarted for ever.                                     *)
(***************************************************************************)
EXTENDS Supervisor, TLAPS

\* Leaves go to the SMT solver, unless they name Zenon or PTL.
USE SMTT(60)

Processes ==
    [pc : {"unborn", "daemonized", "written", "loop", "fork", "forked", "wait", "eintr", "reaped",
           "sleep", "gone"},
     stop : BOOLEAN, knows : BOOLEAN, count : Nat, window_start : Nat, since : Nat]

Children ==
    [pc : {"none", "born", "starting", "test", "enter", "epoll_wait", "leaving", "exited"},
     stop : BOOLEAN, reload : BOOLEAN, status : {"-", "0", "reload", "crash"}]

Types ==
    /\ SupervisorAssumption
    /\ now \in Nat
    /\ sup \in [Pids -> Processes]
    /\ worker \in [Pids -> Children]
    /\ pid_file \in Pids \cup {"none"}
    /\ ctl \in [pc : {"idle", "stopping"}, pid : Pids \cup {"none"}]

Daemonized(p) == sup[p].pc = "daemonized"

\* A launch is alone, and no supervisor runs while it is under way.
OneLaunch ==
    \A p, q \in Pids : Daemonized(p) => ~Supervises(q) /\ (Daemonized(q) => p = q)

\* A pid gets into the file only when its process writes it.
PidFileWritten == \A p \in Pids : pid_file = p => sup[p].pc \notin {"unborn", "daemonized"}

\* While server_ctl.sh waits for a supervisor to stop there is no other, and
\* none is being launched.
StopWaitsForOne ==
    ctl.pc = "stopping" =>
        /\ ctl.pid \in Pids
        /\ \A p \in Pids : ~Daemonized(p) /\ (Supervises(p) => p = ctl.pid)

IndInv ==
    /\ Types
    /\ NoOrphanWorker
    /\ PidFileNamesSupervisor
    /\ OneLaunch
    /\ PidFileWritten
    /\ StopWaitsForOne
-----------------------------------------------------------------------------
\* kill gives a worker a record of the same type, in a state that is live when
\* the old one was: worker_term_handler ends no worker by itself.
LEMMA KillKeepsWorkers ==
    ASSUME Types, NEW p \in Pids, NEW sig \in {"TERM", "HUP"}, kill(p, sig)
    PROVE  /\ worker' \in [Pids -> Children]
           /\ \A q \in Pids : worker'[q].pc # "none" => worker[q].pc # "none"
<1>1. worker[p] \in Children
  BY DEF Types
<1>2. /\ worker_term_handler(p, sig) \in Children
      /\ Live(p) => worker_term_handler(p, sig).pc # "none"
  <2>1. CASE worker[p].pc = "born"
    BY <1>1, <2>1 DEF worker_term_handler
  <2>2. CASE worker[p].pc # "born"
    <3> DEFINE stop == worker[p].stop \/ sig = "TERM"
               reload == worker[p].reload \/ sig = "HUP"
               pc == IF worker[p].pc = "epoll_wait" THEN "test" ELSE worker[p].pc
    <3>1. stop \in BOOLEAN /\ reload \in BOOLEAN
      BY ZenonT(60)
    <3>2. /\ pc \in {"none", "born", "starting", "test", "enter", "epoll_wait", "leaving", "exited"}
          /\ (Live(p) => pc # "none")
      BY <1>1 DEF Children, Live
    <3>3. worker_term_handler(p, sig) =
             [worker[p] EXCEPT !.stop = stop, !.reload = reload, !.pc = pc]
      BY <2>2 DEF worker_term_handler
    <3> HIDE DEF stop, reload, pc
    <3>4. QED  BY <1>1, <3>1, <3>2, <3>3, ZenonT(60) DEF Children
  <2>3. QED  BY <2>1, <2>2
<1>3. QED  BY <1>1, <1>2 DEF Types, kill, Live

\* The steps of a worker, and of whoever signals it, leave every supervisor and
\* the pid file alone and bring no worker to life.
LEMMA WorkerSteps ==
    ASSUME IndInv, NEW p \in Pids,
           \/ install_worker_signal_handlers(p) \/ StartServing(p) \/ TestFlags(p)
           \/ EnterWait(p) \/ NewConnection(p) \/ Leave(p) \/ Crash(p)
           \/ \E sig \in {"TERM", "HUP"} : SignalWorker(p, sig)
    PROVE  IndInv'
<1>1. /\ sup' = sup /\ pid_file' = pid_file /\ ctl' = ctl /\ now' = now
  BY DEF install_worker_signal_handlers, StartServing, TestFlags, EnterWait, NewConnection,
         Leave, Crash, SignalWorker, Rest, environment
<1>2. /\ worker' \in [Pids -> Children]
      /\ \A q \in Pids : worker'[q].pc # "none" => worker[q].pc # "none"
  <2>1. CASE \E sig \in {"TERM", "HUP"} : SignalWorker(p, sig)
    BY <2>1, KillKeepsWorkers DEF SignalWorker, IndInv
  <2>2. CASE install_worker_signal_handlers(p) \/ StartServing(p) \/ EnterWait(p) \/ NewConnection(p)
    BY <2>2 DEF IndInv, Types, Children, install_worker_signal_handlers, StartServing, EnterWait,
       NewConnection
  <2>3. CASE TestFlags(p)
    <3>1. PICK pc \in {"leaving", "enter"} : worker' = [worker EXCEPT ![p].pc = pc]
      BY <2>3, ZenonT(60) DEF TestFlags
    <3>2. QED  BY <2>3, <3>1 DEF IndInv, Types, Children, TestFlags
  <2>4. CASE Leave(p) \/ Crash(p)
    <3>1. PICK status \in {"reload", "0", "crash"} :
             worker' = [worker EXCEPT ![p] = Worker("exited", status)]
      BY <2>4 DEF Leave, Crash
    <3>2. Worker("exited", status) \in Children /\ worker[p].pc # "none"
      BY <2>4 DEF Worker, Children, Leave, Crash, Live
    <3>3. QED  BY <3>1, <3>2 DEF IndInv, Types
  <2>5. QED  BY <2>1, <2>2, <2>3, <2>4
<1>3. QED
  BY <1>1, <1>2 DEF IndInv, Types, NoOrphanWorker, PidFileNamesSupervisor, OneLaunch,
     PidFileWritten, StopWaitsForOne, Supervises, Daemonized, SupervisorAssumption

\* One process moves on: it supervises and still supervises or is gone, the
\* workers of the others are as they were, and its own, if it has one, is
\* waited for.  The pid file is kept, or emptied by a supervisor that leaves.
LEMMA OwnStep ==
    ASSUME IndInv, NEW p \in Pids, NEW r \in Processes,
           Supervises(p), r.pc \notin {"unborn", "daemonized"},
           sup' = [sup EXCEPT ![p] = r],
           worker' \in [Pids -> Children],
           \A q \in Pids : q # p /\ worker'[q].pc # "none" => worker[q].pc # "none",
           worker'[p].pc # "none" => r.pc \in {"forked", "wait", "eintr"},
           \/ pid_file' = pid_file
           \/ r.pc = "gone" /\ pid_file' = "none",
           now' = now, ctl' = ctl
    PROVE  IndInv'
<1>1. Types'
  BY ZenonT(60) DEF IndInv, Types, SupervisorAssumption
<1>2. /\ sup'[p] = r
      /\ \A q \in Pids : q # p => sup'[q] = sup[q]
  BY DEF IndInv, Types
<1>3. NoOrphanWorker' /\ OneLaunch'
  BY <1>2 DEF IndInv, NoOrphanWorker, OneLaunch, Supervises, Daemonized
<1>4. \A q \in Pids : Supervises(q) => q = p
  BY DEF IndInv, PidFileNamesSupervisor
<1>5. PidFileNamesSupervisor'
  BY <1>2, <1>4 DEF IndInv, PidFileNamesSupervisor, Supervises
<1>6. PidFileWritten'
  BY <1>2 DEF IndInv, PidFileWritten, Types, SupervisorAssumption
<1>7. StopWaitsForOne'
  BY <1>2 DEF IndInv, StopWaitsForOne, Supervises, Daemonized
<1>8. QED  BY <1>1, <1>3, <1>5, <1>6, <1>7 DEF IndInv

\* A supervisor whose worker has been collected may leave, with the pid file or
\* without it.
LEMMA Leaves ==
    ASSUME IndInv, NEW p \in Pids, Supervises(p), worker[p].pc = "none", Exit(p),
           pid_file' = pid_file \/ pid_file' = "none",
           worker' = worker, now' = now, ctl' = ctl
    PROVE  IndInv'
<1>1. Process("gone") \in Processes /\ Process("gone").pc = "gone"
  BY DEF Process, Processes
<1>2. QED  BY <1>1, OwnStep, ZenonT(60) DEF Exit, IndInv, Types

\* The steps of run_daemon_supervisor.
LEMMA SupervisorSteps ==
    ASSUME IndInv, NEW p \in Pids,
           \/ install_supervisor_signal_handlers(p) \/ TestStop(p) \/ Fork(p) \/ ForkFails(p)
           \/ StorePid(p) \/ RepeatTerm(p) \/ Reap(p) \/ AfterWait(p) \/ Wake(p)
    PROVE  IndInv'
<1> USE DEF IndInv
<1>1. sup[p] \in Processes /\ worker[p] \in Children /\ now \in Nat
  BY DEF Types
<1>2. CASE install_supervisor_signal_handlers(p)
  <2>1. [sup[p] EXCEPT !.pc = "loop"] \in Processes
    BY <1>1 DEF Processes
  <2>2. QED
    BY <1>1, <1>2, <2>1, OwnStep, ZenonT(60) DEF install_supervisor_signal_handlers, Goto, Supervises, Types,
       NoOrphanWorker, environment, Processes
<1>3. CASE Wake(p)
  <2> DEFINE r == [sup[p] EXCEPT !.pc = "loop", !.since = 0]
  <2>1. r \in Processes /\ r.pc = "loop"
    BY <1>1, ZenonT(60) DEF Processes
  <2>2. sup' = [sup EXCEPT ![p] = r]
    BY <1>1, <1>3, ZenonT(60) DEF Wake, Types, Processes
  <2>3. /\ sup[p].pc = "sleep" /\ worker[p].pc = "none"
        /\ worker' = worker /\ pid_file' = pid_file /\ ctl' = ctl /\ now' = now
    BY <1>3 DEF Wake, NoOrphanWorker, environment
  <2> HIDE DEF r
  <2>4. QED
    BY <2>1, <2>2, <2>3, OwnStep, ZenonT(60) DEF Supervises, Types
<1>4. CASE TestStop(p)
  <2> DEFINE r == [sup[p] EXCEPT !.pc = "fork"]
  <2>1. r \in Processes /\ r.pc = "fork"
    BY <1>1 DEF Processes
  <2>2. /\ sup[p].pc = "loop" /\ worker[p].pc = "none"
        /\ worker' = worker /\ ctl' = ctl /\ now' = now
    BY <1>4 DEF TestStop, NoOrphanWorker, environment
  <2>3. CASE sup[p].stop
    BY <1>4, <2>2, <2>3, Leaves DEF TestStop, Supervises, remove_pid_file_if_match
  <2>4. CASE ~sup[p].stop
    <3>1. sup' = [sup EXCEPT ![p] = r] /\ pid_file' = pid_file
      BY <1>1, <1>4, <2>4 DEF TestStop, Goto, Processes
    <3> HIDE DEF r
    <3>2. QED  BY <2>1, <2>2, <3>1, OwnStep, ZenonT(60) DEF Supervises, Types
  <2>5. QED  BY <2>3, <2>4
<1>5. CASE Fork(p)
  <2> DEFINE r == [sup[p] EXCEPT !.pc = "forked"]
  <2>1. r \in Processes /\ r.pc = "forked"
    BY <1>1 DEF Processes
  <2>2. sup' = [sup EXCEPT ![p] = r]
    BY <1>1, <1>5 DEF Fork, Goto, Types, Processes
  <2>3. Worker("born", "-") \in Children
    BY DEF Worker, Children
  <2>4. /\ sup[p].pc = "fork" /\ worker' \in [Pids -> Children]
        /\ \A q \in Pids : q # p => worker'[q] = worker[q]
        /\ pid_file' = pid_file /\ ctl' = ctl /\ now' = now
    BY <1>5, <2>3 DEF Fork, Types, environment
  <2> HIDE DEF r
  <2>5. QED
    BY <2>1, <2>2, <2>4, OwnStep, ZenonT(60) DEF Supervises
<1>6. CASE ForkFails(p)
  <2> DEFINE r == [sup[p] EXCEPT !.pc = "sleep", !.since = now]
  <2>1. r \in Processes /\ r.pc = "sleep"
    BY <1>1, ZenonT(60) DEF Processes
  <2>2. sup' = [sup EXCEPT ![p] = r]
    BY <1>1, <1>6, ZenonT(60) DEF ForkFails, Types, Processes
  <2>3. /\ sup[p].pc = "fork" /\ worker[p].pc = "none"
        /\ worker' = worker /\ pid_file' = pid_file /\ ctl' = ctl /\ now' = now
    BY <1>6 DEF ForkFails, NoOrphanWorker
  <2> HIDE DEF r
  <2>4. QED
    BY <2>1, <2>2, <2>3, OwnStep, ZenonT(60) DEF Supervises, Types
<1>7. CASE StorePid(p)
  <2> DEFINE r == [sup[p] EXCEPT !.pc = "wait", !.knows = TRUE]
  <2>1. r \in Processes /\ r.pc = "wait"
    BY <1>1, ZenonT(60) DEF Processes
  <2>2. sup' = [sup EXCEPT ![p] = r]
    BY <1>1, <1>7, ZenonT(60) DEF StorePid, Types, Processes
  <2>3. /\ sup[p].pc = "forked"
        /\ worker' = worker /\ pid_file' = pid_file /\ ctl' = ctl /\ now' = now
    BY <1>7 DEF StorePid, environment
  <2> HIDE DEF r
  <2>4. QED  BY <2>1, <2>2, <2>3, OwnStep, ZenonT(60) DEF Supervises, Types
<1>8. CASE RepeatTerm(p)
  <2>1. [sup[p] EXCEPT !.pc = "wait"] \in Processes
    BY <1>1 DEF Processes
  <2>2. /\ worker' \in [Pids -> Children]
        /\ \A q \in Pids : worker'[q].pc # "none" => worker[q].pc # "none"
    BY <1>8, KillKeepsWorkers DEF RepeatTerm, Types
  <2>3. QED
    BY <1>1, <1>8, <2>1, <2>2, OwnStep, ZenonT(60) DEF RepeatTerm, Goto, Supervises, environment, Processes
<1>9. CASE Reap(p)
  <2>1. [sup[p] EXCEPT !.pc = "reaped", !.knows = FALSE] \in Processes
    BY <1>1, ZenonT(60) DEF Processes
  <2>2. sup' = [sup EXCEPT ![p] = [sup[p] EXCEPT !.pc = "reaped", !.knows = FALSE]]
    BY <1>1, <1>9, ZenonT(60) DEF Reap, Types, Processes
  <2>3. /\ worker' \in [Pids -> Children]
        /\ worker'[p].pc = "none" /\ \A q \in Pids : q # p => worker'[q] = worker[q]
    BY <1>1, <1>9 DEF Reap, Types, Children
  <2>4. QED
    BY <1>1, <1>9, <2>1, <2>2, <2>3, OwnStep, ZenonT(60) DEF Reap, Supervises, environment, Processes
<1>10. CASE AfterWait(p)
  <2> DEFINE count == IF restart_window_over(p) THEN 1 ELSE sup[p].count + 1
             start == IF restart_window_over(p) THEN now ELSE sup[p].window_start
  <2>1. count \in Nat /\ start \in Nat
    BY <1>1 DEF Processes
  <2>2. /\ sup[p].pc = "reaped"
        /\ worker' = worker /\ now' = now /\ ctl' = ctl
        /\ \/ Exit(p) /\ (pid_file' = pid_file \/ pid_file' = "none")
           \/ /\ sup' = [sup EXCEPT ![p] = [@ EXCEPT !.pc = "sleep", !.count = 0,
                                                    !.window_start = 0, !.since = now]]
              /\ pid_file' = pid_file
           \/ /\ sup' = [sup EXCEPT ![p] = [@ EXCEPT !.pc = "sleep", !.count = count,
                                                    !.window_start = start, !.since = now]]
              /\ pid_file' = pid_file
    BY <1>10 DEF AfterWait, remove_pid_file_if_match, environment
  <2> HIDE DEF count, start
  <2>3. worker[p].pc = "none"
    BY <2>2 DEF NoOrphanWorker
  <2>4. CASE Exit(p) /\ (pid_file' = pid_file \/ pid_file' = "none")
    BY <2>2, <2>3, <2>4, Leaves DEF Supervises
  <2>5. ASSUME NEW c \in Nat, NEW w \in Nat, pid_file' = pid_file,
               sup' = [sup EXCEPT ![p] = [@ EXCEPT !.pc = "sleep", !.count = c,
                                                   !.window_start = w, !.since = now]]
        PROVE  IndInv'
    <3> DEFINE r == [sup[p] EXCEPT !.pc = "sleep", !.count = c, !.window_start = w, !.since = now]
    <3>1. r \in Processes /\ r.pc = "sleep"
      BY <1>1, ZenonT(60) DEF Processes
    <3>2. sup' = [sup EXCEPT ![p] = r]
      BY <2>5
    <3> HIDE DEF r
    <3>3. QED  BY <2>2, <2>3, <2>5, <3>1, <3>2, OwnStep, ZenonT(60) DEF Supervises, Types
  <2>6. QED  BY <2>1, <2>2, <2>4, <2>5, ZenonT(60)
<1>11. QED
  BY <1>2, <1>3, <1>4, <1>5, <1>6, <1>7, <1>8, <1>9, <1>10

\* A signal moves no process but p, and that one to where the default action,
\* or the handler, takes it.
LEMMA SignalSteps ==
    ASSUME IndInv, NEW p \in Pids, NEW sig \in {"TERM", "HUP"},
           supervisor_signal_handler(p, sig), Supervises(p),
           pid_file' = pid_file, now' = now,
           \/ ctl' = ctl
           \/ ctl' = [pc |-> "stopping", pid |-> p]
    PROVE  IndInv'
<1> USE DEF IndInv
<1>1. sup[p] \in Processes /\ worker[p] \in Children
  BY DEF Types
<1>2. ASSUME NEW r \in Processes, r.pc \notin {"unborn", "daemonized"},
             sup' = [sup EXCEPT ![p] = r],
             worker[p].pc # "none" => r.pc \in {"forked", "wait", "eintr"},
             worker' \in [Pids -> Children],
             \A q \in Pids : worker'[q].pc # "none" => worker[q].pc # "none"
      PROVE  IndInv'
  <2>1. Types'
    BY <1>2 DEF Types, SupervisorAssumption
  <2>2. /\ sup'[p] = r
        /\ \A q \in Pids : q # p => sup'[q] = sup[q]
    BY <1>2 DEF Types
  <2>3. NoOrphanWorker' /\ OneLaunch'
    BY <1>2, <2>2 DEF NoOrphanWorker, OneLaunch, Supervises, Daemonized
  <2>4. \A q \in Pids : Supervises(q) => q = p
    BY DEF PidFileNamesSupervisor
  <2>5. PidFileNamesSupervisor' /\ PidFileWritten'
    BY <1>2, <2>2, <2>4 DEF PidFileNamesSupervisor, PidFileWritten, Supervises
  <2>6. StopWaitsForOne'
    BY <1>2, <2>2, <2>4 DEF StopWaitsForOne, OneLaunch, Supervises, Daemonized
  <2>7. QED  BY <2>1, <2>3, <2>5, <2>6
<1>3. CASE sup[p].pc = "written"
  <2>1. Process("gone") \in Processes /\ Process("gone").pc = "gone"
    BY DEF Process, Processes
  <2>2. worker' = worker /\ worker[p].pc = "none"
    BY <1>3 DEF supervisor_signal_handler, NoOrphanWorker
  <2>3. CASE sig = "TERM"
    BY <1>2, <1>3, <2>1, <2>2, <2>3 DEF supervisor_signal_handler, Types
  <2>4. CASE sig = "HUP"
    <3>1. sup' = [sup EXCEPT ![p] = sup[p]]
      BY <1>3, <2>4 DEF supervisor_signal_handler, Types
    <3>2. QED  BY <1>1, <1>2, <1>3, <2>2, <3>1, ZenonT(60) DEF Types
  <2>5. QED  BY <2>3, <2>4
<1>4. CASE sup[p].pc # "written"
  <2> DEFINE r == [sup[p] EXCEPT !.stop = TRUE,
                                 !.pc = IF sup[p].pc = "wait" THEN "eintr" ELSE sup[p].pc]
  <2>1. r \in Processes /\ r.pc = (IF sup[p].pc = "wait" THEN "eintr" ELSE sup[p].pc)
    BY <1>1, ZenonT(60) DEF Processes
  <2>2. sup' = [sup EXCEPT ![p] = r]
    BY <1>1, <1>4, ZenonT(60) DEF supervisor_signal_handler, Supervises, Types, Processes
  <2>3. /\ worker' \in [Pids -> Children]
        /\ \A q \in Pids : worker'[q].pc # "none" => worker[q].pc # "none"
    BY <1>4, KillKeepsWorkers DEF supervisor_signal_handler, Supervises, Types
  <2> HIDE DEF r
  <2>4. QED
    BY <1>2, <2>1, <2>2, <2>3, ZenonT(60) DEF Supervises, NoOrphanWorker
<1>5. QED  BY <1>3, <1>4

\* write_pid_file, and the commands of server_ctl.sh.
LEMMA CommandSteps ==
    ASSUME IndInv,
           \/ \E p \in Pids : write_pid_file(p) \/ start_server(p)
           \/ stop_server \/ StopReturns \/ reload_server
    PROVE  IndInv'
<1> USE DEF IndInv
<1>1. CASE \E p \in Pids : write_pid_file(p)
  <2>1. PICK p \in Pids : write_pid_file(p)
    BY <1>1
  <2>2. sup[p] \in Processes /\ sup[p].pc = "daemonized" /\ worker[p].pc = "none"
    BY <2>1 DEF write_pid_file, Types, NoOrphanWorker
  <2>3. Process("gone") \in Processes /\ Process("gone").pc = "gone"
    BY DEF Process, Processes
  <2>4. [sup[p] EXCEPT !.pc = "written"] \in Processes /\ [sup[p] EXCEPT !.pc = "written"].pc = "written"
    BY <2>2 DEF Processes
  <2>5. /\ sup' \in [Pids -> Processes]
        /\ \A q \in Pids : q # p => sup'[q] = sup[q]
        /\ \/ sup'[p].pc = "written" /\ pid_file' = p
           \/ sup'[p].pc = "gone" /\ pid_file' = pid_file
        /\ worker' = worker /\ ctl' = ctl /\ now' = now
    BY <2>1, <2>2, <2>3, <2>4 DEF write_pid_file, Goto, Exit, Types, Processes, environment
  <2>6. Types' /\ NoOrphanWorker' /\ OneLaunch'
    BY <2>2, <2>5 DEF Types, SupervisorAssumption, NoOrphanWorker, OneLaunch, Supervises, Daemonized
  <2>7. PidFileNamesSupervisor' /\ PidFileWritten'
    BY <2>2, <2>5 DEF PidFileNamesSupervisor, PidFileWritten, OneLaunch, Supervises, Daemonized
  <2>8. StopWaitsForOne'
    BY <2>2, <2>5 DEF StopWaitsForOne, Supervises, Daemonized
  <2>9. QED  BY <2>6, <2>7, <2>8
<1>2. CASE \E p \in Pids : start_server(p)
  <2>1. PICK p \in Pids : start_server(p)
    BY <1>2
  <2>2. \A q \in Pids : ~Supervises(q) /\ ~Daemonized(q)
    BY <2>1 DEF start_server, is_running, process_exists, PidFileNamesSupervisor, Supervises,
       Daemonized, Types, SupervisorAssumption
  <2>3. sup[p] \in Processes
    BY DEF Types
  <2>4. [sup[p] EXCEPT !.pc = "daemonized"] \in Processes
        /\ [sup[p] EXCEPT !.pc = "daemonized"].pc = "daemonized"
    BY <2>3 DEF Processes
  <2>5. /\ sup' \in [Pids -> Processes] /\ sup'[p].pc = "daemonized"
        /\ \A q \in Pids : q # p => sup'[q] = sup[q]
        /\ sup[p].pc = "unborn" /\ ctl.pc = "idle" /\ pid_file' = "none"
        /\ worker' = worker /\ ctl' = ctl /\ now' = now
    BY <2>1, <2>3, <2>4 DEF start_server, Goto, Types, Processes, environment
  <2>6. Types' /\ NoOrphanWorker' /\ OneLaunch'
    BY <2>2, <2>5 DEF Types, SupervisorAssumption, NoOrphanWorker, OneLaunch, Supervises, Daemonized
  <2>7. PidFileNamesSupervisor' /\ PidFileWritten' /\ StopWaitsForOne'
    BY <2>2, <2>5 DEF PidFileNamesSupervisor, PidFileWritten, StopWaitsForOne, Supervises,
       Daemonized, Types, SupervisorAssumption
  <2>8. QED  BY <2>6, <2>7
<1>3. CASE stop_server \/ reload_server
  <2>1. pid_file \in Pids /\ Supervises(pid_file)
    BY <1>3 DEF stop_server, reload_server, is_running, process_exists, Types, PidFileWritten, Supervises
  <2>2. QED
    BY <1>3, <2>1, SignalSteps DEF stop_server, reload_server, Signal
<1>4. CASE StopReturns
  <2>1. /\ sup' = sup /\ worker' = worker /\ now' = now
        /\ pid_file' = (IF process_exists(ctl.pid) THEN pid_file ELSE "none")
        /\ ctl.pc = "stopping" /\ ctl' = [pc |-> "idle", pid |-> "none"]
    BY <1>4 DEF StopReturns
  <2>2. Types' /\ NoOrphanWorker' /\ OneLaunch' /\ StopWaitsForOne'
    BY <2>1 DEF Types, SupervisorAssumption, NoOrphanWorker, OneLaunch, StopWaitsForOne, Supervises,
       Daemonized
  <2>3. PidFileNamesSupervisor' /\ PidFileWritten'
    BY <2>1 DEF PidFileNamesSupervisor, PidFileWritten, StopWaitsForOne, Supervises, process_exists,
       Types, SupervisorAssumption
  <2>4. QED  BY <2>2, <2>3
<1>5. QED  BY <1>1, <1>2, <1>3, <1>4
-----------------------------------------------------------------------------
\* Before the first launch there is no process and no pid file.
LEMMA SupervisorInit == SupervisorAssumption /\ Init => IndInv
<1> SUFFICES ASSUME SupervisorAssumption, Init PROVE IndInv
  OBVIOUS
<1>1. /\ \A p \in Pids : sup[p].pc = "unborn" /\ worker[p].pc = "none"
      /\ pid_file = "none" /\ ctl.pc = "idle"
  BY DEF Init, Process, Worker
<1>2. Types
  BY DEF Init, Types, Process, Worker, Processes, Children
<1>3. QED
  BY <1>1, <1>2 DEF IndInv, SupervisorAssumption, NoOrphanWorker, PidFileNamesSupervisor, OneLaunch,
     PidFileWritten, StopWaitsForOne, Supervises, Daemonized

\* Every step of a supervisor, a worker, server_ctl.sh or the clock keeps it.
LEMMA SupervisorNext == IndInv /\ [Next]_vars => IndInv'
<1> SUFFICES ASSUME IndInv, [Next]_vars PROVE IndInv'
  OBVIOUS
<1>1. CASE now' \in Nat /\ UNCHANGED <<sup, worker, pid_file, ctl>>
  BY <1>1 DEF IndInv, Types, SupervisorAssumption, NoOrphanWorker, PidFileNamesSupervisor, OneLaunch,
     PidFileWritten, StopWaitsForOne, Supervises, Daemonized
<1>2. CASE Tick
  BY <1>1, <1>2 DEF Tick, environment, IndInv, Types
<1>3. CASE UNCHANGED vars
  BY <1>1, <1>3 DEF vars, IndInv, Types
<1>4. QED
  BY <1>2, <1>3, WorkerSteps, SupervisorSteps, CommandSteps DEF Next

\* At most one supervisor runs, and the pid file names it (check_existing_supervisor,
\* write_pid_file, server_ctl.sh): for any number of launches, crashes and signals.
THEOREM PidFileNames == SupervisorAssumption /\ Spec => []PidFileNamesSupervisor
<1>1. IndInv => PidFileNamesSupervisor
  BY DEF IndInv
<1>2. QED
  BY <1>1, SupervisorInit, SupervisorNext, PTL DEF Spec

\* run_daemon_supervisor never leaves a worker behind that nobody waits for.
THEOREM WorkerHasSupervisor == SupervisorAssumption /\ Spec => []NoOrphanWorker
<1>1. IndInv => NoOrphanWorker
  BY DEF IndInv
<1>2. QED
  BY <1>1, SupervisorInit, SupervisorNext, PTL DEF Spec

-----------------------------------------------------------------------------
(***************************************************************************)
(* The restarts after a crash                                              *)
(***************************************************************************)
\* The crashes of the supervisor's window whose restart has been made: the last
\* crash it counted is ahead of its fork until the child is there.
Made(r) == IF r.count > 0 /\ r.pc \in {"sleep", "loop", "fork"} THEN r.count - 1 ELSE r.count

\* Any 2 * MaxTimes + 1 restarts in a row take longer than a window.
Spread(R) == \A i \in 1..Len(R) : i + 2 * MaxTimes <= Len(R) => R[i] + Window < R[i + 2 * MaxTimes]

\* The restarts, in order, up to now.
InOrder(R, n) ==
    /\ \A i \in 1..Len(R) : R[i] <= n
    /\ \A i, j \in 1..Len(R) : i <= j => R[i] <= R[j]

\* Spread is not inductive: it depends on where the supervisor's own windows lie.
\* A restart of an earlier window is not later than the start of this one, and
\* one that is more than MaxTimes back from there, so that the window between
\* cannot have been its own, is more than a window earlier.
Windows(r, R, n) ==
    /\ r.window_start <= n /\ r.count <= MaxTimes
    /\ r.count = 0 => R = <<>>
    /\ r.count > 0 => r.window_start > 0
    /\ r.pc \in {"unborn", "daemonized", "written"} => r.count = 0
    /\ \A i \in 1..Len(R) : i + Made(r) <= Len(R) => R[i] <= r.window_start
    /\ \A i \in 1..Len(R) : i + MaxTimes + Made(r) <= Len(R) => R[i] + Window < r.window_start

Restarted(r, R, n) ==
    R \in Seq(Nat) /\ InOrder(R, n) /\ Spread(R) /\ (r.pc # "gone" => Windows(r, R, n))

\* Steps that neither count a crash nor restart the worker.
Quiet(r, s) ==
    \/ s.pc = "gone"
    \/ /\ r.pc # "gone" /\ s.count = r.count /\ s.window_start = r.window_start
       /\ Made(s) = Made(r)
       /\ s.pc \in {"unborn", "daemonized", "written"} => s.count = 0

LEMMA QuietKeeps ==
    ASSUME SupervisorAssumption, NEW r \in Processes, NEW s \in Processes, Quiet(r, s),
           NEW n \in Nat, NEW m \in Nat, n <= m, NEW R, Restarted(r, R, n)
    PROVE  Restarted(s, R, m)
<1>1. R \in Seq(Nat) /\ \A i \in 1..Len(R) : R[i] \in Nat
  BY DEF Restarted
<1>2. InOrder(R, m)
  BY <1>1 DEF Restarted, InOrder
<1>3. ASSUME s.pc # "gone" PROVE Windows(s, R, m)
  <2>1. Windows(r, R, n) /\ s.count = r.count /\ s.window_start = r.window_start /\ Made(s) = Made(r)
    BY <1>3, ZenonT(60) DEF Quiet, Restarted
  <2>2. r.window_start \in Nat /\ (r.window_start <= n => r.window_start <= m)
    BY DEF Processes
  <2>3. QED  BY <1>3, <2>1, <2>2, ZenonT(60) DEF Windows, Quiet
<1>4. QED  BY <1>1, <1>2, <1>3, ZenonT(60) DEF Restarted

\* Fork: when the window's last crash has its restart, the one 2 * MaxTimes
\* before it lies beyond the window before.
LEMMA ForkKeeps ==
    ASSUME SupervisorAssumption, NEW r \in Processes, NEW s \in Processes, r.pc = "fork",
           s.pc = "forked", s.count = r.count, s.window_start = r.window_start,
           NEW n \in Nat, NEW R, Restarted(r, R, n)
    PROVE  Restarted(s, IF r.count > 0 THEN Append(R, n) ELSE R, n)
<1>1. /\ R \in Seq(Nat) /\ Len(R) \in Nat /\ \A i \in 1..Len(R) : R[i] \in Nat
      /\ r.count \in Nat /\ r.window_start \in Nat
      /\ MaxTimes \in Nat /\ Window \in Nat
  BY DEF Restarted, Processes, SupervisorAssumption
<1>2. Windows(r, R, n) /\ InOrder(R, n) /\ Spread(R)
  BY DEF Restarted
<1>3. CASE r.count = 0
  <2>1. Made(r) = 0 /\ Made(s) = 0
    BY <1>3 DEF Made
  <2>2. Quiet(r, s)
    BY <2>1 DEF Quiet
  <2>3. Restarted(s, R, n)
    BY <2>2, <1>1, QuietKeeps
  <2>4. QED  BY <1>3, <2>3
<1>4. CASE r.count > 0
  <2> DEFINE Q == Append(R, n)
  <2>1. /\ Q \in Seq(Nat) /\ Len(Q) = Len(R) + 1 /\ Q[Len(R) + 1] = n
        /\ \A i \in 1..Len(R) : Q[i] = R[i]
    BY <1>1
  <2> HIDE DEF Q
  <2>2. Made(r) = r.count - 1 /\ Made(s) = r.count
    BY <1>4 DEF Made
  <2>0. \A i \in 1..Len(Q) : i \in 1..Len(R) \/ i = Len(R) + 1
    BY <1>1, <2>1
  <2>3. InOrder(Q, n)
    <3>1. \A i \in 1..Len(R) : R[i] <= n
      BY <1>2 DEF InOrder
    <3>2. \A i \in 1..Len(Q) : Q[i] <= n
      BY <2>0, <2>1, <3>1
    <3>3. ASSUME NEW i \in 1..Len(Q), NEW j \in 1..Len(Q), i <= j PROVE Q[i] <= Q[j]
      <4>1. CASE j = Len(R) + 1
        BY <4>1, <2>1, <3>2
      <4>2. CASE j \in 1..Len(R)
        <5>1. i \in 1..Len(R)
          BY <1>1, <3>3, <4>2
        <5>2. R[i] <= R[j]
          BY <5>1, <4>2, <3>3, <1>2 DEF InOrder
        <5>3. QED  BY <5>1, <5>2, <4>2, <2>1
      <4>3. QED  BY <4>1, <4>2, <2>0
    <3>4. QED  BY <3>2, <3>3 DEF InOrder
  <2>4. /\ r.count <= MaxTimes /\ r.window_start <= n /\ r.window_start > 0
        /\ \A i \in 1..Len(R) : i + (r.count - 1) <= Len(R) => R[i] <= r.window_start
        /\ \A i \in 1..Len(R) :
              i + MaxTimes + (r.count - 1) <= Len(R) => R[i] + Window < r.window_start
    BY <1>2, <1>4, <2>2 DEF Windows
  <2>5. \A i \in 1..Len(Q) : i + r.count <= Len(Q) => Q[i] <= r.window_start
    <3> SUFFICES ASSUME NEW i \in 1..Len(Q), i + r.count <= Len(Q) PROVE Q[i] <= r.window_start
      OBVIOUS
    <3>1. i \in 1..Len(R) /\ i + (r.count - 1) <= Len(R)
      BY <1>1, <1>4, <2>1
    <3>2. QED  BY <2>1, <2>4, <3>1
  <2>6. \A i \in 1..Len(Q) : i + MaxTimes + r.count <= Len(Q) => Q[i] + Window < r.window_start
    <3> SUFFICES ASSUME NEW i \in 1..Len(Q), i + MaxTimes + r.count <= Len(Q)
                 PROVE  Q[i] + Window < r.window_start
      OBVIOUS
    <3>1. i \in 1..Len(R) /\ i + MaxTimes + (r.count - 1) <= Len(R)
      BY <1>1, <1>4, <2>1
    <3>2. QED  BY <2>1, <2>4, <3>1
  <2>7. Windows(s, Q, n)
    BY <1>1, <1>4, <2>2, <2>4, <2>5, <2>6 DEF Windows
  <2>8. Spread(Q)
    <3> SUFFICES ASSUME NEW i \in 1..Len(Q), i + 2 * MaxTimes <= Len(Q)
                 PROVE  Q[i] + Window < Q[i + 2 * MaxTimes]
      BY DEF Spread
    <3>1. CASE i + 2 * MaxTimes <= Len(R)
      <4>1. i \in 1..Len(R) /\ i + 2 * MaxTimes \in 1..Len(R)
        BY <3>1, <1>1
      <4>2. R[i] + Window < R[i + 2 * MaxTimes]
        BY <3>1, <4>1, <1>2 DEF Spread
      <4>3. Q[i] = R[i] /\ Q[i + 2 * MaxTimes] = R[i + 2 * MaxTimes]
        BY <4>1, <2>1, ZenonT(60)
      <4>4. QED  BY <4>2, <4>3, ZenonT(60)
    <3>2. CASE i + 2 * MaxTimes = Len(R) + 1
      <4>1. i + MaxTimes + r.count <= Len(Q)
        BY <3>2, <1>1, <2>1, <2>4
      <4>2. Q[i] + Window < r.window_start
        BY <4>1, <2>6
      <4>3. Q[i] \in Nat
        BY <2>1
      <4>4. Q[i] + Window < n
        BY <4>2, <4>3, <2>4, <1>1
      <4>5. QED  BY <4>4, <3>2, <2>1, ZenonT(60)
    <3>3. i + 2 * MaxTimes <= Len(R) \/ i + 2 * MaxTimes = Len(R) + 1
      BY <1>1, <2>1
    <3>4. QED  BY <3>1, <3>2, <3>3, ZenonT(60)
  <2>9. Restarted(s, Q, n)
    BY <2>1, <2>3, <2>7, <2>8, ZenonT(60) DEF Restarted
  <2>10. QED  BY <1>4, <2>9 DEF Q
<1>5. QED  BY <1>1, <1>3, <1>4

\* A reload forgets the window, and the history with it.
LEMMA ReloadKeeps ==
    ASSUME SupervisorAssumption, NEW s \in Processes, s.count = 0, s.window_start = 0, s.pc = "sleep",
           NEW n \in Nat
    PROVE  Restarted(s, <<>>, n)
  BY DEF Restarted, InOrder, Spread, Windows, SupervisorAssumption

\* A crash is counted in the window, or opens the next one.
LEMMA CrashKeeps ==
    ASSUME SupervisorAssumption, NEW r \in Processes, NEW s \in Processes, r.pc = "reaped",
           s.pc = "sleep", s.count <= MaxTimes, NEW n \in Nat, n > 0, NEW R, Restarted(r, R, n),
           \/ /\ r.window_start = 0 \/ n - r.window_start > Window
              /\ s.count = 1 /\ s.window_start = n
           \/ /\ r.window_start # 0
              /\ s.count = r.count + 1 /\ s.window_start = r.window_start
    PROVE  Restarted(s, R, n)
<1>1. /\ R \in Seq(Nat) /\ Len(R) \in Nat /\ \A i \in 1..Len(R) : R[i] \in Nat
      /\ r.count \in Nat /\ r.window_start \in Nat
      /\ MaxTimes \in Nat /\ Window \in Nat
  BY DEF Restarted, Processes, SupervisorAssumption
<1>2. Windows(r, R, n) /\ InOrder(R, n) /\ Spread(R)
  BY DEF Restarted
<1>3. Made(r) = r.count
  BY DEF Made
<1>4. CASE /\ r.window_start # 0
           /\ s.count = r.count + 1 /\ s.window_start = r.window_start
  <2>1. Made(s) = r.count
    BY <1>1, <1>4 DEF Made
  <2>2. Windows(s, R, n)
    BY <1>1, <1>2, <1>3, <1>4, <2>1 DEF Windows
  <2>3. QED  BY <1>1, <1>2, <2>2, ZenonT(60) DEF Restarted
<1>5. CASE /\ r.window_start = 0 \/ n - r.window_start > Window
           /\ s.count = 1 /\ s.window_start = n
  <2>1. Made(s) = 0
    BY <1>5 DEF Made
  <2>2. \A i \in 1..Len(R) : R[i] <= n
    BY <1>2 DEF InOrder
  <2>3. \A i \in 1..Len(R) : i + MaxTimes <= Len(R) => R[i] + Window < n
    <3> SUFFICES ASSUME NEW i \in 1..Len(R), i + MaxTimes <= Len(R) PROVE R[i] + Window < n
      OBVIOUS
    <3>1. r.count > 0
      BY <1>1, <1>2 DEF Windows
    <3>2. n - r.window_start > Window
      BY <1>2, <1>5, <3>1 DEF Windows
    <3>3. i + r.count <= Len(R)
      BY <1>1, <1>2 DEF Windows
    <3>4. R[i] <= r.window_start
      BY <1>2, <1>3, <3>3 DEF Windows
    <3>5. QED  BY <1>1, <3>2, <3>4
  <2>4. Windows(s, R, n)
    BY <1>1, <1>5, <2>1, <2>2, <2>3 DEF Windows
  <2>5. QED  BY <1>1, <1>2, <2>4, ZenonT(60) DEF Restarted
<1>6. QED  BY <1>4, <1>5

RestartInv ==
    /\ IndInv /\ now > 0
    /\ DOMAIN restarts = Pids
    /\ \A p \in Pids : Restarted(sup[p], restarts[p], now)

\* What the steps that leave the restarts alone have in common.
QuietStep ==
    /\ restarts' = restarts /\ (now' = now \/ now' = now + 1)
    /\ \A q \in Pids : Quiet(sup[q], sup'[q])

LEMMA QuietStepKeeps ==
    ASSUME RestartInv, IndInv', QuietStep
    PROVE  RestartInv'
<1>1. now \in Nat /\ now' \in Nat /\ now <= now' /\ now' > 0
  BY DEF RestartInv, IndInv, Types, QuietStep
<1>2. \A q \in Pids : sup[q] \in Processes /\ sup'[q] \in Processes
  BY DEF RestartInv, IndInv, Types
<1>3. SupervisorAssumption
  BY DEF RestartInv, IndInv, Types
<1>4. \A q \in Pids : Restarted(sup'[q], restarts[q], now')
  BY <1>1, <1>2, <1>3, QuietKeeps, ZenonT(60) DEF RestartInv, QuietStep
<1>5. QED  BY <1>1, <1>4, ZenonT(60) DEF RestartInv, QuietStep

\* Nothing happens to a supervisor.
LEMMA QuietSame ==
    ASSUME RestartInv, NEW q \in Pids, sup'[q] = sup[q]
    PROVE  Quiet(sup[q], sup'[q])
<1>1. Restarted(sup[q], restarts[q], now)
  BY DEF RestartInv
<1>2. QED  BY <1>1, ZenonT(60) DEF Restarted, Windows, Quiet

\* One that moves on without a crash, a restart or a reload.
LEMMA QuietMove ==
    ASSUME RestartInv, NEW p \in Pids, NEW r \in Processes, sup' = [sup EXCEPT ![p] = r],
           Quiet(sup[p], r), restarts' = restarts, now' = now
    PROVE  QuietStep
<1>1. sup'[p] = r /\ \A q \in Pids : q # p => sup'[q] = sup[q]
  BY DEF RestartInv, IndInv, Types
<1>2. QED  BY <1>1, QuietSame, ZenonT(60) DEF QuietStep

LEMMA QuietSteps ==
    ASSUME RestartInv, NEW p \in Pids,
           \/ write_pid_file(p) \/ install_supervisor_signal_handlers(p) \/ TestStop(p)
           \/ ForkFails(p) \/ StorePid(p) \/ RepeatTerm(p) \/ Reap(p) \/ Wake(p) \/ start_server(p)
    PROVE  QuietStep
<1>1. sup[p] \in Processes /\ now \in Nat
  BY DEF RestartInv, IndInv, Types
<1>2. restarts' = restarts /\ now' = now
  BY DEF write_pid_file, install_supervisor_signal_handlers, TestStop, ForkFails, StorePid,
         RepeatTerm, Reap, Wake, start_server
<1>3. Process("gone") \in Processes /\ Process("gone").pc = "gone"
  BY DEF Process, Processes
<1>4. CASE Exit(p)
  BY <1>2, <1>3, <1>4, QuietMove, ZenonT(60) DEF Exit, Quiet
<1>5. Windows(sup[p], restarts[p], now) \/ sup[p].pc = "gone"
  BY DEF RestartInv, Restarted
<1>6. ASSUME NEW r \in Processes, sup' = [sup EXCEPT ![p] = r],
             r.count = sup[p].count, r.window_start = sup[p].window_start,
             \/ r.pc \in {"sleep", "loop", "fork"} /\ sup[p].pc \in {"sleep", "loop", "fork", "written"}
             \/ r.pc \in {"forked", "wait", "eintr", "reaped"} /\ sup[p].pc \in {"forked", "wait", "eintr"}
             \/ r.pc \in {"daemonized", "written"} /\ sup[p].pc \in {"unborn", "daemonized"}
      PROVE  QuietStep
  <2>1. /\ sup[p].pc # "gone"
        /\ sup[p].pc \in {"unborn", "daemonized", "written"} => sup[p].count = 0
    BY <1>5, <1>6, ZenonT(60) DEF Windows
  <2>2. Quiet(sup[p], r)
    BY <1>1, <1>6, <2>1 DEF Quiet, Made, Processes
  <2>3. QED  BY <1>2, <1>6, <2>2, QuietMove, ZenonT(60)
<1>7. CASE Goto(p, "written") /\ write_pid_file(p)
  <2> DEFINE r == [sup[p] EXCEPT !.pc = "written"]
  <2>1. r \in Processes /\ r.pc = "written" /\ r.count = sup[p].count /\ r.window_start = sup[p].window_start
    BY <1>1 DEF Processes
  <2>2. sup' = [sup EXCEPT ![p] = r] /\ sup[p].pc = "daemonized"
    BY <1>1, <1>7 DEF Goto, write_pid_file
  <2> HIDE DEF r
  <2>3. QED  BY <1>6, <2>1, <2>2, ZenonT(60)
<1>8. CASE install_supervisor_signal_handlers(p)
  <2> DEFINE r == [sup[p] EXCEPT !.pc = "loop"]
  <2>1. r \in Processes /\ r.pc = "loop" /\ r.count = sup[p].count /\ r.window_start = sup[p].window_start
    BY <1>1 DEF Processes
  <2>2. sup' = [sup EXCEPT ![p] = r] /\ sup[p].pc = "written"
    BY <1>1, <1>8 DEF Goto, install_supervisor_signal_handlers
  <2> HIDE DEF r
  <2>3. QED  BY <1>6, <2>1, <2>2, ZenonT(60)
<1>9. CASE TestStop(p) /\ Goto(p, "fork")
  <2> DEFINE r == [sup[p] EXCEPT !.pc = "fork"]
  <2>1. r \in Processes /\ r.pc = "fork" /\ r.count = sup[p].count /\ r.window_start = sup[p].window_start
    BY <1>1 DEF Processes
  <2>2. sup' = [sup EXCEPT ![p] = r] /\ sup[p].pc = "loop"
    BY <1>1, <1>9 DEF Goto, TestStop
  <2> HIDE DEF r
  <2>3. QED  BY <1>6, <2>1, <2>2, ZenonT(60)
<1>10. CASE ForkFails(p)
  <2> DEFINE r == [sup[p] EXCEPT !.pc = "sleep", !.since = now]
  <2>1. r \in Processes
    BY <1>1, ZenonT(60) DEF Processes
  <2>2. r.pc = "sleep" /\ r.count = sup[p].count /\ r.window_start = sup[p].window_start
    BY <1>1 DEF Processes
  <2>3. sup' = [sup EXCEPT ![p] = r] /\ sup[p].pc = "fork"
    BY <1>1, <1>10, ZenonT(60) DEF ForkFails, RestartInv, IndInv, Types, Processes
  <2> HIDE DEF r
  <2>4. QED  BY <1>6, <2>1, <2>2, <2>3, ZenonT(60)
<1>11. CASE StorePid(p)
  <2> DEFINE r == [sup[p] EXCEPT !.pc = "wait", !.knows = TRUE]
  <2>1. r \in Processes
    BY <1>1, ZenonT(60) DEF Processes
  <2>2. r.pc = "wait" /\ r.count = sup[p].count /\ r.window_start = sup[p].window_start
    BY <1>1 DEF Processes
  <2>3. sup' = [sup EXCEPT ![p] = r] /\ sup[p].pc = "forked"
    BY <1>1, <1>11, ZenonT(60) DEF StorePid, RestartInv, IndInv, Types, Processes
  <2> HIDE DEF r
  <2>4. QED  BY <1>6, <2>1, <2>2, <2>3, ZenonT(60)
<1>12. CASE RepeatTerm(p)
  <2> DEFINE r == [sup[p] EXCEPT !.pc = "wait"]
  <2>1. r \in Processes /\ r.pc = "wait" /\ r.count = sup[p].count /\ r.window_start = sup[p].window_start
    BY <1>1 DEF Processes
  <2>2. sup' = [sup EXCEPT ![p] = r] /\ sup[p].pc = "eintr"
    BY <1>1, <1>12 DEF Goto, RepeatTerm
  <2> HIDE DEF r
  <2>3. QED  BY <1>6, <2>1, <2>2, ZenonT(60)
<1>13. CASE Reap(p)
  <2> DEFINE r == [sup[p] EXCEPT !.pc = "reaped", !.knows = FALSE]
  <2>1. r \in Processes
    BY <1>1, ZenonT(60) DEF Processes
  <2>2. r.pc = "reaped" /\ r.count = sup[p].count /\ r.window_start = sup[p].window_start
    BY <1>1 DEF Processes
  <2>3. sup' = [sup EXCEPT ![p] = r] /\ sup[p].pc = "wait"
    BY <1>1, <1>13, ZenonT(60) DEF Reap, RestartInv, IndInv, Types, Processes
  <2> HIDE DEF r
  <2>4. QED  BY <1>6, <2>1, <2>2, <2>3, ZenonT(60)
<1>14. CASE Wake(p)
  <2> DEFINE r == [sup[p] EXCEPT !.pc = "loop", !.since = 0]
  <2>1. r \in Processes
    BY <1>1, ZenonT(60) DEF Processes
  <2>2. r.pc = "loop" /\ r.count = sup[p].count /\ r.window_start = sup[p].window_start
    BY <1>1 DEF Processes
  <2>3. sup' = [sup EXCEPT ![p] = r] /\ sup[p].pc = "sleep"
    BY <1>1, <1>14, ZenonT(60) DEF Wake, RestartInv, IndInv, Types, Processes
  <2> HIDE DEF r
  <2>4. QED  BY <1>6, <2>1, <2>2, <2>3, ZenonT(60)
<1>15. CASE start_server(p)
  <2> DEFINE r == [sup[p] EXCEPT !.pc = "daemonized"]
  <2>1. r \in Processes /\ r.pc = "daemonized" /\ r.count = sup[p].count /\ r.window_start = sup[p].window_start
    BY <1>1 DEF Processes
  <2>2. sup' = [sup EXCEPT ![p] = r] /\ sup[p].pc = "unborn"
    BY <1>1, <1>15 DEF Goto, start_server
  <2> HIDE DEF r
  <2>3. QED  BY <1>6, <2>1, <2>2, ZenonT(60)
<1>16. QED
  BY <1>4, <1>7, <1>8, <1>9, <1>10, <1>11, <1>12, <1>13, <1>14, <1>15, ZenonT(60)
     DEF write_pid_file, TestStop

\* A signal makes a supervisor stop, it restarts nothing.
LEMMA QuietSignal ==
    ASSUME RestartInv, NEW p \in Pids, NEW sig \in {"TERM", "HUP"},
           supervisor_signal_handler(p, sig), process_exists(p), restarts' = restarts, now' = now
    PROVE  QuietStep
<1>1. sup[p] \in Processes /\ sup \in [Pids -> Processes] /\ sup[p].pc \notin {"unborn", "gone"}
  BY DEF RestartInv, IndInv, Types, process_exists
<1>2. CASE sup[p].pc \in {"daemonized", "written"}
  <2>1. Process("gone") \in Processes /\ Process("gone").pc = "gone"
    BY DEF Process, Processes
  <2>2. CASE sig = "TERM"
    <3>1. sup' = [sup EXCEPT ![p] = Process("gone")]
      BY <1>2, <2>2, ZenonT(60) DEF supervisor_signal_handler
    <3>2. QED  BY <2>1, <3>1, QuietMove, ZenonT(60) DEF Quiet
  <2>3. CASE sig # "TERM"
    <3>1. sup' = sup
      BY <1>2, <2>3, ZenonT(60) DEF supervisor_signal_handler
    <3>2. QED  BY <3>1, QuietSame, ZenonT(60) DEF QuietStep
  <2>4. QED  BY <2>2, <2>3
<1>3. CASE sup[p].pc \notin {"daemonized", "written"}
  <2> DEFINE pc == IF sup[p].pc = "wait" THEN "eintr" ELSE sup[p].pc
             r == [sup[p] EXCEPT !.stop = TRUE, !.pc = pc]
  <2>1. /\ pc \in {"loop", "fork", "forked", "wait", "eintr", "reaped", "sleep"}
        /\ pc \in {"sleep", "loop", "fork"} <=> sup[p].pc \in {"sleep", "loop", "fork"}
    BY <1>1, <1>3 DEF Processes
  <2>2. sup' = [sup EXCEPT ![p] = r]
    BY <1>1, <1>3, ZenonT(60) DEF supervisor_signal_handler, Processes
  <2> HIDE DEF pc
  <2>3. r \in Processes
    BY <1>1, <2>1, ZenonT(60) DEF Processes
  <2>4. r.pc = pc /\ r.count = sup[p].count /\ r.window_start = sup[p].window_start
    BY <1>1, ZenonT(60) DEF Processes
  <2> HIDE DEF r
  <2>5. Quiet(sup[p], r)
    BY <1>1, <2>1, <2>4 DEF Quiet, Made
  <2>6. QED  BY <2>2, <2>3, <2>5, QuietMove, ZenonT(60)
<1>4. QED  BY <1>2, <1>3

\* Of the others, workers and server_ctl.sh, none touches a supervisor.
LEMMA QuietOthers ==
    ASSUME RestartInv, sup' = sup, restarts' = restarts, now' = now \/ now' = now + 1
    PROVE  QuietStep
  BY QuietSame, ZenonT(60) DEF QuietStep

LEMMA ForkStep ==
    ASSUME RestartInv, IndInv', NEW p \in Pids, Fork(p)
    PROVE  RestartInv'
<1>1. /\ sup[p] \in Processes /\ sup \in [Pids -> Processes] /\ now \in Nat /\ SupervisorAssumption
      /\ sup'[p] \in Processes /\ now' = now /\ sup[p].pc = "fork"
  BY DEF RestartInv, IndInv, Types, Fork
<1>2. /\ sup'[p].pc = "forked" /\ sup'[p].count = sup[p].count
      /\ sup'[p].window_start = sup[p].window_start
      /\ \A q \in Pids : q # p => sup'[q] = sup[q]
  BY <1>1 DEF Fork, Goto, Processes
<1>3. /\ restarts'[p] = (IF sup[p].count > 0 THEN Append(restarts[p], now) ELSE restarts[p])
      /\ DOMAIN restarts' = Pids /\ \A q \in Pids : q # p => restarts'[q] = restarts[q]
  BY DEF Fork, RestartInv
<1>4. Restarted(sup'[p], restarts'[p], now)
  <2>1. Restarted(sup[p], restarts[p], now)
    BY ZenonT(60) DEF RestartInv
  <2>2. Restarted(sup'[p], IF sup[p].count > 0 THEN Append(restarts[p], now) ELSE restarts[p], now)
    BY <1>1, <1>2, <2>1, ForkKeeps
  <2>3. QED  BY <1>3, <2>2
<1>5. QED  BY <1>1, <1>2, <1>3, <1>4, ZenonT(60) DEF RestartInv

LEMMA AfterWaitStep ==
    ASSUME RestartInv, IndInv', NEW p \in Pids, AfterWait(p)
    PROVE  RestartInv'
<1>1. /\ sup[p] \in Processes /\ sup \in [Pids -> Processes] /\ now \in Nat /\ SupervisorAssumption
      /\ sup'[p] \in Processes /\ now' = now /\ now > 0 /\ sup[p].pc = "reaped"
  BY DEF RestartInv, IndInv, Types, AfterWait
<1>2. CASE Exit(p) /\ restarts' = restarts
  <2>1. Process("gone") \in Processes /\ Process("gone").pc = "gone"
    BY DEF Process, Processes
  <2>2. QuietStep
    BY <1>1, <1>2, <2>1, QuietMove, ZenonT(60) DEF Exit, Quiet
  <2>3. QED  BY <2>2, QuietStepKeeps, ZenonT(60)
<1>3. CASE /\ sup' = [sup EXCEPT ![p] = [@ EXCEPT !.pc = "sleep", !.count = 0,
                                                  !.window_start = 0, !.since = now]]
           /\ restarts' = [restarts EXCEPT ![p] = <<>>]
  <2>1. /\ sup'[p].pc = "sleep" /\ sup'[p].count = 0 /\ sup'[p].window_start = 0
        /\ \A q \in Pids : q # p => sup'[q] = sup[q]
    BY <1>1, <1>3, ZenonT(60) DEF Processes
  <2>2. /\ restarts'[p] = <<>> /\ DOMAIN restarts' = Pids
        /\ \A q \in Pids : q # p => restarts'[q] = restarts[q]
    BY <1>3 DEF RestartInv
  <2>3. Restarted(sup'[p], restarts'[p], now)
    BY <1>1, <2>1, <2>2, ReloadKeeps, ZenonT(60)
  <2>4. QED  BY <1>1, <2>1, <2>2, <2>3, ZenonT(60) DEF RestartInv
<1>4. ASSUME NEW c, NEW w, c <= MaxTimes, restarts' = restarts,
             sup' = [sup EXCEPT ![p] = [@ EXCEPT !.pc = "sleep", !.count = c,
                                                 !.window_start = w, !.since = now]],
             \/ /\ sup[p].window_start = 0 \/ now - sup[p].window_start > Window
                /\ c = 1 /\ w = now
             \/ /\ sup[p].window_start # 0
                /\ c = sup[p].count + 1 /\ w = sup[p].window_start
      PROVE  RestartInv'
  <2>1. /\ sup'[p].pc = "sleep" /\ sup'[p].count = c /\ sup'[p].window_start = w
        /\ \A q \in Pids : q # p => sup'[q] = sup[q]
    BY <1>1, <1>4, ZenonT(60) DEF Processes
  <2>2. Restarted(sup'[p], restarts[p], now)
    BY <1>1, <1>4, <2>1, CrashKeeps, ZenonT(60) DEF RestartInv
  <2>3. QED  BY <1>1, <1>4, <2>1, <2>2, ZenonT(60) DEF RestartInv
<1>5. CASE /\ ~sup[p].stop /\ worker[p].status = "crash"
  <2> DEFINE c == IF restart_window_over(p) THEN 1 ELSE sup[p].count + 1
             w == IF restart_window_over(p) THEN now ELSE sup[p].window_start
  <2>1. /\ restarts' = restarts
        /\ IF c > MaxTimes THEN Exit(p)
           ELSE sup' = [sup EXCEPT ![p] = [@ EXCEPT !.pc = "sleep", !.count = c,
                                                    !.window_start = w, !.since = now]]
    BY <1>5, ZenonT(60) DEF AfterWait
  <2>2. \/ /\ sup[p].window_start = 0 \/ now - sup[p].window_start > Window
           /\ c = 1 /\ w = now
        \/ /\ sup[p].window_start # 0
           /\ c = sup[p].count + 1 /\ w = sup[p].window_start
    BY ZenonT(60) DEF restart_window_over
  <2>3. c \in Nat /\ MaxTimes \in Nat
    BY <1>1 DEF Processes, SupervisorAssumption
  <2> HIDE DEF c, w
  <2>4. c > MaxTimes \/ (~(c > MaxTimes) /\ c <= MaxTimes)
    BY <2>3
  <2>5. QED  BY <1>2, <1>4, <2>1, <2>2, <2>4, ZenonT(60)
<1>6. QED  BY <1>2, <1>3, <1>5, ZenonT(60) DEF AfterWait

LEMMA RestartInit == SupervisorAssumption /\ Init => RestartInv
<1> SUFFICES ASSUME SupervisorAssumption, Init PROVE RestartInv
  OBVIOUS
<1>1. IndInv
  BY SupervisorInit
<1>2. /\ \A p \in Pids : sup[p] = Process("unborn") /\ restarts[p] = <<>>
      /\ now = 1 /\ DOMAIN restarts = Pids
  BY DEF Init
<1>3. Restarted(Process("unborn"), <<>>, 1)
  BY DEF Restarted, InOrder, Spread, Windows, Process, SupervisorAssumption
<1>4. QED  BY <1>1, <1>2, <1>3 DEF RestartInv

LEMMA RestartNext == RestartInv /\ [Next]_vars => RestartInv'
<1> SUFFICES ASSUME RestartInv, [Next]_vars PROVE RestartInv'
  OBVIOUS
<1>1. IndInv'
  BY SupervisorNext, ZenonT(60) DEF RestartInv
<1>2. ASSUME QuietStep PROVE RestartInv'
  BY <1>1, <1>2, QuietStepKeeps, ZenonT(60)
<1>3. ASSUME NEW p \in Pids,
             \/ install_worker_signal_handlers(p) \/ StartServing(p) \/ TestFlags(p) \/ EnterWait(p)
             \/ NewConnection(p) \/ Leave(p) \/ Crash(p)
             \/ \E sig \in {"TERM", "HUP"} : SignalWorker(p, sig)
      PROVE  QuietStep
  BY <1>3, QuietOthers, ZenonT(60) DEF install_worker_signal_handlers, StartServing, TestFlags,
     EnterWait, NewConnection, Leave, Crash, SignalWorker, Rest
<1>4. ASSUME StopReturns \/ Tick \/ UNCHANGED vars PROVE QuietStep
  BY <1>4, QuietOthers, ZenonT(60) DEF StopReturns, Tick, vars
<1>5. ASSUME stop_server \/ reload_server PROVE QuietStep
  <2>1. /\ restarts' = restarts /\ now' = now /\ process_exists(pid_file)
        /\ \E sig \in {"TERM", "HUP"} : supervisor_signal_handler(pid_file, sig)
    BY <1>5, ZenonT(60) DEF stop_server, reload_server, Signal, is_running
  <2>2. pid_file \in Pids
    BY <2>1 DEF process_exists, RestartInv, IndInv, Types
  <2>3. QED  BY <2>1, <2>2, QuietSignal, ZenonT(60)
<1>6. ASSUME NEW p \in Pids, Fork(p) \/ AfterWait(p) PROVE RestartInv'
  BY <1>1, <1>6, ForkStep, AfterWaitStep, ZenonT(60)
<1>7. ASSUME NEW p \in Pids,
             \/ write_pid_file(p) \/ install_supervisor_signal_handlers(p) \/ TestStop(p)
             \/ ForkFails(p) \/ StorePid(p) \/ RepeatTerm(p) \/ Reap(p) \/ Wake(p) \/ start_server(p)
      PROVE  QuietStep
  BY <1>7, QuietSteps, ZenonT(60)
<1>8. QED
  BY <1>2, <1>3, <1>4, <1>5, <1>6, <1>7, ZenonT(60) DEF Next

-----------------------------------------------------------------------------
(***************************************************************************)
(* Counting the restarts of a span.  The facts about finite sets are taken *)
(* under a name, here where they are first needed.                         *)
(***************************************************************************)

LOCAL Fin == INSTANCE FiniteSetTheorems

\* A set is as large by either name.
LEMMA SameSets ==
    ASSUME NEW S
    PROVE  (Fin!IsFiniteSet(S) <=> IsFiniteSet(S)) /\ Fin!Cardinality(S) = Cardinality(S)
BY ZenonT(60) DEF Fin!IsFiniteSet, IsFiniteSet, Fin!Cardinality, Cardinality

\* A set of numbers has a least one.
LEMMA LeastOne ==
    ASSUME NEW S \in SUBSET Nat, S # {}
    PROVE  \E m \in S : \A i \in S : m <= i
<1> DEFINE less == Fin!OpToRel(<, Nat)
<1>1. Fin!IsWellFoundedOn(less, Nat)
  BY Fin!NatLessThanWellFounded, ZenonT(60)
<1>2. \A x, y \in Nat : <<x, y>> \notin less => y <= x
  BY DEF Fin!OpToRel
<1> HIDE DEF less
<1>3. \E x \in S : \A y \in S : ~(<<y, x>> \in less)
  BY <1>1, Fin!WFMin, ZenonT(60)
<1>4. QED  BY <1>2, <1>3, ZenonT(60)

\* One whose members are less than n apart has n of them at most.
LEMMA NarrowIsSmall ==
    ASSUME NEW S \in SUBSET Nat, NEW n \in Nat, \A i, j \in S : j < i + n
    PROVE  Cardinality(S) <= n
<1>1. CASE S = {}
  BY <1>1, Fin!FS_EmptySet, SameSets
<1>2. CASE S # {}
  <2>1. PICK m \in S : \A i \in S : m <= i
    BY <1>2, LeastOne, ZenonT(60)
  <2> DEFINE last == m + n - 1
  <2>2. m \in Int /\ last \in Int /\ S \in SUBSET (m..last) /\ n > 0
    BY <2>1
  <2>3. IsFiniteSet(m..last) /\ Cardinality(m..last) = IF m > last THEN 0 ELSE last - m + 1
    BY <2>2, Fin!FS_Interval, SameSets, ZenonT(60)
  <2>4. Cardinality(m..last) = n
    BY <2>2, <2>3
  <2> HIDE DEF last
  <2>5. Cardinality(S) <= Cardinality(m..last)
    BY <2>2, <2>3, Fin!FS_Subset, SameSets, ZenonT(60)
  <2>6. QED  BY <2>4, <2>5, ZenonT(60)
<1>3. QED  BY <1>1, <1>2

\* run_daemon_supervisor does not restart a crashing worker for ever: in no span
\* of DAEMON_RESTART_WINDOW_SECONDS more than twice DAEMON_RESTART_MAX_TIMES.
THEOREM CrashLoopSafe == SupervisorAssumption /\ Spec => []CrashLoopBounded
<1>1. RestartInv => CrashLoopBounded
  <2> SUFFICES ASSUME RestartInv, NEW p \in Pids, NEW t \in 1..MaxTime
               PROVE  Cardinality({i \in 1..Len(restarts[p]) : restarts[p][i] \in t..(t + Window)})
                          <= 2 * MaxTimes
    BY DEF CrashLoopBounded
  <2> DEFINE R == restarts[p]
             S == {i \in 1..Len(R) : R[i] \in t..(t + Window)}
  <2>1. MaxTimes \in Nat /\ Window \in Nat /\ 2 * MaxTimes \in Nat /\ t \in Nat
    BY DEF RestartInv, IndInv, Types, SupervisorAssumption
  <2>2. R \in Seq(Nat) /\ InOrder(R, now) /\ Spread(R)
    BY DEF RestartInv, Restarted
  <2> HIDE DEF R
  <2>3. Len(R) \in Nat /\ \A i \in 1..Len(R) : R[i] \in Nat
    BY <2>2
  <2>4. ASSUME NEW i \in S, NEW j \in S PROVE j < i + 2 * MaxTimes
    <3> SUFFICES ASSUME i + 2 * MaxTimes <= j PROVE FALSE
      BY <2>1, <2>3
    <3> DEFINE k == i + 2 * MaxTimes
    <3>1. k \in 1..Len(R) /\ i \in 1..Len(R) /\ j \in 1..Len(R) /\ k <= j
      BY <2>1, <2>3
    <3>2. R[i] + Window < R[k]
      BY <2>2, <3>1 DEF Spread
    <3> HIDE DEF k
    <3>3. R[k] <= R[j]
      BY <2>2, <3>1 DEF InOrder
    <3>4. R[j] <= t + Window /\ t <= R[i]
      BY <2>1
    <3>5. QED  BY <2>1, <2>3, <3>1, <3>2, <3>3, <3>4
  <2>5. S \in SUBSET Nat
    BY <2>3
  <2> HIDE DEF S
  <2>6. Cardinality(S) <= 2 * MaxTimes
    BY <2>1, <2>4, <2>5, NarrowIsSmall, ZenonT(60)
  <2>7. QED  BY <2>6, ZenonT(60) DEF S, R
<1>2. QED
  BY <1>1, RestartInit, RestartNext, PTL DEF Spec
=============================================================================
