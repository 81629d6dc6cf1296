------------------------------ MODULE AsyncLog ------------------------------
(***************************************************************************)
(* infra/log: threads format lines and queue them, one writer thread       *)
(* writes batches to a file that is rotated by day and by line count.      *)
(* When the queue is full a thread writes its line itself.                 *)
(*                                                                         *)
(* A step is a critical section of m_queue_mutex or of m_file_mutex; the   *)
(* writer thread writes a batch line by line and holds m_file_mutex from   *)
(* the first line to the last.  The predicates of the two condition        *)
(* variables are tested under the mutex that guards what they read, so a   *)
(* wait is a guard.                                                        *)
(***************************************************************************)
EXTENDS Naturals, Sequences, FiniteSets

CONSTANTS
    Threads,        \* threads that log
    Lines,          \* bound: lines each of them logs
    MaxQueue,       \* m_max_queue_size; 0 is synchronous logging
    MaxBatch,       \* max_batch_size
    SplitLines,     \* m_split_lines
    Days,           \* bound: the clock shows days 0..Days
    OpenFailures    \* bound: calls of fopen that fail

ASSUME LogAssumption ==
    /\ Lines \in Nat /\ MaxQueue \in Nat /\ MaxBatch \in Nat \ {0} /\ SplitLines \in Nat
    /\ Days \in Nat /\ OpenFailures \in Nat

VARIABLES
    today,           \* the clock
    m_log_queue,     \* lines that wait: [by, nr, day]
    m_pending_logs,
    m_stop_requested,
    batch,           \* what the writer thread has taken out
    done,            \* how many of these lines it has written
    writer,          \* the writer thread: "wait", "write", "account" or "gone"
    file,            \* m_fp: [open, day, index], with m_count
    written,         \* lines passed to fwrite, in order, each with the file
    durable,         \* how many of them have left the buffer of the FILE
    discarded,       \* lines that met m_fp == nullptr
    thread,          \* per thread: [pc, nr, day]
    flusher,         \* a thread in flush(): [pc, since], or in ~Log
    failures         \* calls of fopen that failed

queue == <<m_log_queue, m_pending_logs, m_stop_requested>>
output == <<file, written, durable, discarded, failures>>
vars == <<today, queue, batch, done, writer, output, thread, flusher>>

m_is_async == MaxQueue >= 1

\* After Log::init.
Init ==
    /\ today = 0
    /\ m_log_queue = <<>> /\ m_pending_logs = 0 /\ m_stop_requested = FALSE
    /\ batch = <<>> /\ done = 0
    /\ writer = IF m_is_async THEN "wait" ELSE "gone"
    /\ file = [open |-> TRUE, day |-> 0, index |-> 0, count |-> 0]
    /\ written = <<>> /\ durable = 0 /\ discarded = {} /\ failures = 0
    /\ thread = [t \in Threads |-> [pc |-> "idle", nr |-> 0, day |-> 0]]
    /\ flusher = [pc |-> "idle", since |-> {}]
-----------------------------------------------------------------------------
(***************************************************************************)
(* The file, under m_file_mutex                                            *)
(***************************************************************************)
\* The writer thread is at a line of its batch, but the first.
FileLocked == writer = "write" /\ done > 0

\* A plausible slip: only a later day makes the writer change the file.
RotateForward(line, count) == line.day > file.day \/ (SplitLines > 0 /\ count % SplitLines = 0)

needs_rotation(line, count) == file.day # line.day \/ (SplitLines > 0 /\ count % SplitLines = 0)

\* The next file, which opens or not.
rotate_file(day, count, opens) ==
    LET changed == file.day # day
    IN  [open |-> opens, day |-> day,
         index |-> IF changed THEN 0 ELSE file.index + 1,
         count |-> IF changed THEN 0 ELSE count]

Discard(line) == discarded' = discarded \cup {line} /\ UNCHANGED written

\* The old FILE is flushed and closed when the new one is there, or is not.
write_to_file_locked(line) ==
    LET count == file.count + 1
        rotates == needs_rotation(line, count)
    IN  \/ /\ ~file.open
           /\ Discard(line)
           /\ UNCHANGED <<file, durable, failures>>
        \/ /\ file.open
           /\ file' = IF rotates THEN rotate_file(line.day, count, TRUE)
                      ELSE [file EXCEPT !.count = count]
           /\ durable' = IF rotates THEN Len(written) ELSE durable
           /\ written' = Append(written, [line |-> line, day |-> file'.day])
           /\ UNCHANGED <<discarded, failures>>
        \/ /\ file.open /\ rotates /\ failures < OpenFailures
           /\ file' = rotate_file(line.day, count, FALSE)
           /\ durable' = Len(written)
           /\ failures' = failures + 1
           /\ Discard(line)
-----------------------------------------------------------------------------
(***************************************************************************)
(* write_log                                                               *)
(***************************************************************************)

\* The line is formatted and dated, outside of any lock.
FormatLine(t) ==
    /\ thread[t].pc = "idle" /\ thread[t].nr < Lines
    /\ flusher.pc \notin {"join", "closed"}
    /\ thread' = [thread EXCEPT ![t] = [pc |-> "formatted", nr |-> @.nr + 1, day |-> today]]
    /\ UNCHANGED <<today, queue, batch, done, writer, output, flusher>>

Line(t) == [by |-> t, nr |-> thread[t].nr, day |-> thread[t].day]

\* A plausible slip: a line is counted as pending only when it is taken out.
QueueUncounted(t) ==
    /\ thread[t].pc = "formatted"
    /\ m_is_async /\ ~m_stop_requested /\ Len(m_log_queue) < MaxQueue
    /\ m_log_queue' = Append(m_log_queue, Line(t))
    /\ thread' = [thread EXCEPT ![t].pc = "idle"]
    /\ UNCHANGED <<today, m_pending_logs, m_stop_requested, batch, done, writer, output, flusher>>

QueueLine(t) ==
    /\ thread[t].pc = "formatted"
    /\ m_is_async /\ ~m_stop_requested /\ Len(m_log_queue) < MaxQueue
    /\ m_log_queue' = Append(m_log_queue, Line(t))
    /\ m_pending_logs' = m_pending_logs + 1
    /\ thread' = [thread EXCEPT ![t].pc = "idle"]
    /\ UNCHANGED <<today, m_stop_requested, batch, done, writer, output, flusher>>

\* No room: the lock of the queue is released before the file is locked.
QueueIsFull(t) ==
    /\ thread[t].pc = "formatted"
    /\ m_is_async => m_stop_requested \/ Len(m_log_queue) >= MaxQueue
    /\ thread' = [thread EXCEPT ![t].pc = "direct"]
    /\ UNCHANGED <<today, queue, batch, done, writer, output, flusher>>

WriteDirectly(t) ==
    /\ thread[t].pc = "direct" /\ ~FileLocked
    /\ write_to_file_locked(Line(t))
    /\ thread' = [thread EXCEPT ![t].pc = "idle"]
    /\ UNCHANGED <<today, queue, batch, done, writer, flusher>>
-----------------------------------------------------------------------------
(***************************************************************************)
(* worker_loop                                                             *)
(***************************************************************************)
\* A plausible slip: the batch is taken off the count before it is written.
TakeBatchAccounted ==
    /\ writer = "wait" /\ m_log_queue # <<>>
    /\ batch' = m_log_queue /\ m_log_queue' = <<>>
    /\ m_pending_logs' = m_pending_logs - Len(m_log_queue)
    /\ writer' = "write"
    /\ UNCHANGED <<today, m_stop_requested, done, output, thread, flusher>>

TakeBatch ==
    /\ writer = "wait" /\ m_log_queue # <<>>
    /\ LET n == IF Len(m_log_queue) < MaxBatch THEN Len(m_log_queue) ELSE MaxBatch
       IN  /\ batch' = SubSeq(m_log_queue, 1, n)
           /\ m_log_queue' = SubSeq(m_log_queue, n + 1, Len(m_log_queue))
    /\ writer' = "write"
    /\ UNCHANGED <<today, m_pending_logs, m_stop_requested, done, output, thread, flusher>>

WriteBatch ==
    /\ writer = "write"
    /\ write_to_file_locked(batch[done + 1])
    /\ done' = done + 1
    /\ writer' = IF done' < Len(batch) THEN "write" ELSE "account"
    /\ UNCHANGED <<today, queue, batch, thread, flusher>>

AccountBatch ==
    /\ writer = "account"
    /\ m_pending_logs' = m_pending_logs - Len(batch)
    /\ batch' = <<>> /\ done' = 0
    /\ writer' = "wait"
    /\ UNCHANGED <<today, m_log_queue, m_stop_requested, output, thread, flusher>>

WriterLeaves ==
    /\ writer = "wait" /\ m_stop_requested /\ m_log_queue = <<>>
    /\ writer' = "gone"
    /\ UNCHANGED <<today, queue, batch, done, output, thread, flusher>>
-----------------------------------------------------------------------------
(***************************************************************************)
(* flush and ~Log                                                          *)
(***************************************************************************)

\* The lines whose write_log has returned.
LastReturned(t) == IF thread[t].pc = "idle" THEN thread[t].nr ELSE thread[t].nr - 1
Returned == {x \in Threads \X (1..Lines) : x[2] <= LastReturned(x[1])}

flush ==
    /\ flusher.pc \in {"idle", "flushed"}
    /\ flusher' = [pc |-> IF m_is_async THEN "drain" ELSE "sync", since |-> Returned]
    /\ UNCHANGED <<today, queue, batch, done, writer, output, thread>>

WaitDrained ==
    /\ flusher.pc = "drain" /\ m_pending_logs = 0
    /\ flusher' = [flusher EXCEPT !.pc = "sync"]
    /\ UNCHANGED <<today, queue, batch, done, writer, output, thread>>

FlushFile ==
    /\ flusher.pc = "sync" /\ ~FileLocked
    /\ durable' = IF file.open THEN Len(written) ELSE durable
    /\ flusher' = [flusher EXCEPT !.pc = "flushed"]
    /\ UNCHANGED <<today, queue, batch, done, writer, file, written, discarded, failures, thread>>

\* At exit the other threads are gone.
shutdown_async ==
    /\ flusher.pc \in {"idle", "flushed"}
    /\ \A t \in Threads : thread[t].pc = "idle"
    /\ m_stop_requested' = TRUE
    /\ flusher' = [pc |-> "join", since |-> Returned]
    /\ UNCHANGED <<today, m_log_queue, m_pending_logs, batch, done, writer, output, thread>>

\* join, reset_queue_locked and m_fp.reset()
JoinAndClose ==
    /\ flusher.pc = "join" /\ writer = "gone"
    /\ m_log_queue' = <<>> /\ m_pending_logs' = 0 /\ m_stop_requested' = FALSE
    /\ durable' = Len(written) /\ file' = [file EXCEPT !.open = FALSE]
    /\ flusher' = [flusher EXCEPT !.pc = "closed"]
    /\ UNCHANGED <<today, batch, done, writer, written, discarded, failures, thread>>

Midnight ==
    /\ today < Days
    /\ today' = today + 1
    /\ UNCHANGED <<queue, batch, done, writer, output, thread, flusher>>

Next ==
    \/ \E t \in Threads : FormatLine(t) \/ QueueLine(t) \/ QueueIsFull(t) \/ WriteDirectly(t)
    \/ TakeBatch \/ WriteBatch \/ AccountBatch \/ WriterLeaves
    \/ flush \/ WaitDrained \/ FlushFile \/ shutdown_async \/ JoinAndClose
    \/ Midnight

Spec == Init /\ [][Next]_vars
-----------------------------------------------------------------------------
(***************************************************************************)
(* Properties                                                              *)
(***************************************************************************)
Kept == {<<written[i].line.by, written[i].line.nr>> : i \in 1..durable}
Refused == {<<l.by, l.nr>> : l \in discarded}

\* When flush() or ~Log returns, every line whose write_log had returned before
\* the call has reached the file, however it got there (queue or direct write),
\* unless there was no file to write it to.
FlushedIsDurable ==
    flusher.pc \in {"flushed", "closed"} => flusher.since \subseteq Kept \cup Refused

\* A line is written into the file of the day it was logged on, even when it
\* waited in the queue past midnight and lines of both days alternate.
FiledByDay == \A i \in 1..Len(written) : written[i].day = written[i].line.day

\* The wait of flush() ends: when the writer thread goes to sleep on an empty
\* queue, m_pending_logs, which the two change in different critical sections,
\* is back at 0, so that no line is counted for ever.
DrainEnds == writer = "wait" /\ m_log_queue = <<>> => m_pending_logs = 0
=============================================================================
