------------------------------ MODULE MCInfra -------------------------------
(***************************************************************************)
(* Instances for TLC of two libraries of infra/ that the server is built   *)
(* on: the heap of timers of a sub reactor (HeapTimer) and the log         *)
(* (AsyncLog).  They share nothing: a behaviour is one of the first or one *)
(* of the second, as part says.                                            *)
(***************************************************************************)
EXTENDS AsyncLog, TLC

CONSTANTS Fds, Shared, Timeout, MaxTime

VARIABLES part, now, m_heap, m_index, tick_now, ticking, last_active

H == INSTANCE HeapTimer

ASSUME H!TimerAssumption

timerVars == <<now, m_heap, m_index, tick_now, ticking, last_active>>

InfraInit == Init /\ H!Init /\ part \in {"timers", "log"}

Timed == part = "timers" /\ UNCHANGED <<vars, part>>
Logged == part = "log" /\ UNCHANGED <<timerVars, part>>

TimerNext ==
    \/ \E f \in Fds :
        \/ H!register_connection(f) /\ Timed
        \/ H!refresh_timer(f) /\ Timed
        \/ H!remove_connection(f) /\ Timed
        \/ H!WorkerActive(f) /\ Timed
        \/ H!WorkerCloses(f) /\ Timed
    \/ H!scan_timeout /\ Timed
    \/ H!tick /\ Timed
    \/ H!tick_ends /\ Timed
    \/ H!Advance /\ Timed

LogNext ==
    \/ \E t \in Threads :
        \/ FormatLine(t) /\ Logged
        \/ QueueLine(t) /\ Logged
        \/ QueueIsFull(t) /\ Logged
        \/ WriteDirectly(t) /\ Logged
    \/ TakeBatch /\ Logged
    \/ WriteBatch /\ Logged
    \/ AccountBatch /\ Logged
    \/ WriterLeaves /\ Logged
    \/ flush /\ Logged
    \/ WaitDrained /\ Logged
    \/ FlushFile /\ Logged
    \/ shutdown_async /\ Logged
    \/ JoinAndClose /\ Logged
    \/ Midnight /\ Logged

InfraSpec == InfraInit /\ [][TimerNext \/ LogNext]_<<vars, timerVars, part>>

\* Descriptors are only compared, but for those on which workers act.
Symmetry == Permutations(Fds \ Shared)
-----------------------------------------------------------------------------
\* An open connection has a timer and is idle for less than twice m_conn_timeout
\* (scan_timeout grants an active one a full timeout again, counted from the
\* scan and not from the activity).
IdleClosedInTime == H!IdleClosedInTime

\* The heap of heap_timer.cpp behaves like a set of timers of which tick takes
\* the earliest first and leaves none that is due.
ImplementsTimerSet == H!ImplementsTimerSet
=============================================================================
