--------------------------- MODULE AsyncLogProofs ---------------------------
(***************************************************************************)
(* The log, for any number of threads, lines, batches and days: flush()    *)
(* does not wait for lines that are not there and returns when every       *)
(* earlier line is in the file, and each line is in the file of its day.   *)
(***************************************************************************)
EXTENDS AsyncLog, Integers, TLAPS

\* Leaves go to the SMT solver, unless they name Zenon or PTL.
USE SMTT(60)

Entries == [by : Threads, nr : Nat, day : Nat]
Filed == [line : Entries, day : Nat]
ThreadStates == [pc : {"idle", "formatted", "direct"}, nr : Nat, day : Nat]

FlusherStates ==
    [pc : {"idle", "drain", "sync", "flushed", "join", "closed"}, since : SUBSET (Threads \X Nat)]

Types ==
    /\ today \in Nat /\ thread \in [Threads -> ThreadStates]
    /\ m_log_queue \in Seq(Entries) /\ batch \in Seq(Entries) /\ done \in Nat
    /\ writer \in {"wait", "write", "account", "gone"}
    /\ flusher \in FlusherStates

\* What m_pending_logs counts, and how far the writer thread is.
Counted ==
    /\ m_pending_logs = Len(m_log_queue) + Len(batch)
    /\ writer \in {"wait", "gone"} => batch = <<>> /\ done = 0
    /\ writer = "write" => done < Len(batch)
    /\ writer = "account" => done = Len(batch)

\* The writer thread leaves last, and nobody logs after ~Log has begun.
Leaving ==
    /\ writer = "gone" => m_log_queue = <<>>
    /\ writer = "gone" /\ m_is_async => flusher.pc \in {"join", "closed"}
    /\ ~m_is_async => writer = "gone"
    /\ m_stop_requested => flusher.pc = "join"
    /\ flusher.pc \in {"join", "closed"} => \A t \in Threads : thread[t].pc = "idle"

\* A line is in the queue, in the batch, in the file or discarded.
Id(l) == <<l.by, l.nr>>
Queued == {Id(m_log_queue[i]) : i \in 1..Len(m_log_queue)}
Held == {Id(batch[i]) : i \in (done + 1)..Len(batch)}
Handled == {Id(written[i].line) : i \in 1..Len(written)} \cup Refused
Somewhere == Queued \cup Held \cup Handled

\* What flush() may rely on, step by step.
Placed ==
    /\ Returned \subseteq Somewhere
    /\ flusher.pc \in {"drain", "join"} => flusher.since \subseteq Somewhere
    /\ flusher.pc = "sync" => flusher.since \subseteq Handled
    /\ flusher.pc \in {"flushed", "closed"} => flusher.since \subseteq Kept \cup Refused

\* What holds of the output between two critical sections of m_file_mutex.
OutputTypes ==
    /\ file \in [open : BOOLEAN, day : Nat, index : Nat, count : Nat]
    /\ written \in Seq(Filed) /\ durable \in 0..Len(written)
    /\ discarded \subseteq Entries /\ failures \in Nat

Output == OutputTypes /\ FiledByDay /\ (~file.open => durable = Len(written))

LogInv == Types /\ Counted /\ Leaving /\ Placed /\ Output

-----------------------------------------------------------------------------
(***************************************************************************)
(* The operators                                                           *)
(***************************************************************************)
\* The lines a batch takes out of the queue, at most MaxBatch from its head, and
\* those it leaves are as many as there were, and the same.
LEMMA BatchSplits ==
    ASSUME NEW q \in Seq(Entries), NEW n \in 0..Len(q)
    PROVE  /\ SubSeq(q, 1, n) \in Seq(Entries) /\ SubSeq(q, n + 1, Len(q)) \in Seq(Entries)
           /\ Len(SubSeq(q, 1, n)) = n /\ Len(SubSeq(q, n + 1, Len(q))) = Len(q) - n
           /\ \A i \in 1..n : SubSeq(q, 1, n)[i] = q[i]
           /\ \A i \in 1..(Len(q) - n) : SubSeq(q, n + 1, Len(q))[i] = q[n + i]
<1>1. Len(q) \in Nat /\ n \in Nat /\ n <= Len(q)
  OBVIOUS
<1>2. \A i \in 1..Len(q) : q[i] \in Entries
  OBVIOUS
<1> DEFINE head == SubSeq(q, 1, n)
           tail == SubSeq(q, n + 1, Len(q))
<1>3. head \in Seq(Entries) /\ Len(head) = n
  BY <1>1, <1>2
<1>4. tail \in Seq(Entries) /\ Len(tail) = Len(q) - n
  BY <1>1, <1>2
<1>5. \A i \in 1..n : head[i] = q[i]
  BY <1>1, <1>2
<1>6. \A i \in 1..(Len(q) - n) : tail[i] = q[n + i]
  BY <1>1, <1>2
<1>7. QED  BY <1>3, <1>4, <1>5, <1>6, ZenonT(60)

-----------------------------------------------------------------------------
(***************************************************************************)
(* The file                                                                *)
(***************************************************************************)
\* write_to_file_locked leaves the line in the file of its day, or discards it,
\* and what was in the file, or had left the buffer, stays.
LEMMA LineFiled ==
    ASSUME NEW line \in Entries, Output, write_to_file_locked(line)
    PROVE  /\ Output'
           /\ Handled \cup {Id(line)} \subseteq Handled'
           /\ Kept \subseteq Kept' /\ Refused \subseteq Refused'
<1> DEFINE count == file.count + 1
           new == [line |-> line, day |-> file'.day]
<1>a. /\ file.open \in BOOLEAN /\ file.day \in Nat /\ file.index \in Nat /\ file.count \in Nat
      /\ count \in Nat /\ line.day \in Nat /\ Len(written) \in Nat /\ durable \in Nat
      /\ durable <= Len(written) /\ failures \in Nat
  BY DEF Output, OutputTypes, Entries
<1>b. written \in Seq(Filed) /\ \A i \in 1..Len(written) : written[i] \in Filed
  BY DEF Output, OutputTypes
<1>c. \A b \in BOOLEAN : rotate_file(line.day, count, b) \in
          [open : BOOLEAN, day : Nat, index : Nat, count : Nat]
  BY <1>a DEF rotate_file
<1>d. ASSUME Discard(line)
      PROVE  /\ discarded' \subseteq Entries /\ written' = written
             /\ Refused \subseteq Refused' /\ Id(line) \in Refused'
  BY <1>d, ZenonT(60) DEF Discard, Refused, Id, Output, OutputTypes
<1>1. CASE ~file.open /\ Discard(line) /\ UNCHANGED <<file, durable, failures>>
  <2>1. Output'
    BY <1>1, <1>d, ZenonT(60) DEF Output, OutputTypes, FiledByDay
  <2>2. Handled \cup {Id(line)} \subseteq Handled'
    BY <1>1, <1>d, ZenonT(60) DEF Handled
  <2>3. Kept \subseteq Kept'
    BY <1>1, <1>d, ZenonT(60) DEF Kept
  <2>4. QED  BY <1>1, <1>d, <2>1, <2>2, <2>3, ZenonT(60)
<1>2. CASE /\ file.open
           /\ file' = IF needs_rotation(line, count) THEN rotate_file(line.day, count, TRUE)
                      ELSE [file EXCEPT !.count = count]
           /\ durable' = IF needs_rotation(line, count) THEN Len(written) ELSE durable
           /\ written' = Append(written, new)
           /\ UNCHANGED <<discarded, failures>>
  <2>1. /\ file' \in [open : BOOLEAN, day : Nat, index : Nat, count : Nat]
        /\ file'.open /\ file'.day = line.day
    <3>1. CASE needs_rotation(line, count)
      BY <1>2, <1>a, <1>c, <3>1 DEF rotate_file
    <3>2. CASE ~needs_rotation(line, count)
      BY <1>2, <1>a, <3>2 DEF needs_rotation, Output, OutputTypes
    <3>3. QED  BY <3>1, <3>2
  <2>2. new \in Filed /\ new.line = line /\ new.day = line.day
    BY <2>1, <1>a DEF Filed
  <2>3. /\ written' \in Seq(Filed) /\ Len(written') = Len(written) + 1
        /\ written'[Len(written) + 1] = new
        /\ \A i \in 1..Len(written) : written'[i] = written[i]
    BY <1>2, <1>b, <2>2
  <2>4. durable' \in 0..Len(written') /\ durable <= durable' /\ durable' <= Len(written)
    BY <1>2, <1>a, <2>3
  <2>5. FiledByDay'
    BY <1>a, <2>2, <2>3 DEF FiledByDay, Output
  <2>6. Output'
    BY <1>2, <2>1, <2>3, <2>4, <2>5, ZenonT(60) DEF Output, OutputTypes
  <2>7. Refused' = Refused
    BY <1>2, ZenonT(60) DEF Refused
  <2>8. \A i \in 1..Len(written) : i \in 1..Len(written')
    BY <1>a, <2>3
  <2>9. Len(written) + 1 \in 1..Len(written')
    BY <1>a, <2>3
  <2>10. Handled \cup {Id(line)} \subseteq Handled'
    BY <2>2, <2>3, <2>7, <2>8, <2>9, ZenonT(60) DEF Handled
  <2>11. \A i \in 1..durable : i \in 1..durable' /\ i \in 1..Len(written)
    BY <1>a, <2>4
  <2>12. Kept \subseteq Kept'
    BY <2>3, <2>11, ZenonT(60) DEF Kept
  <2>13. QED  BY <2>6, <2>7, <2>10, <2>12, ZenonT(60)
<1>3. CASE /\ file.open /\ failures < OpenFailures
           /\ file' = rotate_file(line.day, count, FALSE)
           /\ durable' = Len(written)
           /\ failures' = failures + 1
           /\ Discard(line)
  <2>1. file' \in [open : BOOLEAN, day : Nat, index : Nat, count : Nat]
    BY <1>3, <1>c, ZenonT(60)
  <2>2. failures' \in Nat /\ durable' \in 0..Len(written) /\ durable <= durable'
    BY <1>3, <1>a
  <2>3. Output'
    BY <1>3, <1>d, <2>1, <2>2, ZenonT(60) DEF Output, OutputTypes, FiledByDay
  <2>4. Handled \cup {Id(line)} \subseteq Handled'
    BY <1>3, <1>d, ZenonT(60) DEF Handled
  <2>5. \A i \in 1..durable : i \in 1..durable'
    BY <1>a, <2>2
  <2>6. Kept \subseteq Kept'
    BY <1>3, <1>d, <2>5, ZenonT(60) DEF Kept
  <2>7. QED  BY <1>3, <1>d, <2>3, <2>4, <2>6, ZenonT(60)
<1>4. QED  BY <1>1, <1>2, <1>3, ZenonT(60) DEF write_to_file_locked

\* What an action that leaves the file alone keeps.
Grows == Handled \subseteq Handled' /\ Kept \subseteq Kept' /\ Refused \subseteq Refused'

LEMMA OutputStays ==
    ASSUME Output, UNCHANGED output
    PROVE  Output' /\ Grows
<1>1. /\ file' = file /\ written' = written /\ durable' = durable
      /\ discarded' = discarded /\ failures' = failures
  BY ZenonT(60) DEF output
<1>2. QED
  BY <1>1, ZenonT(60) DEF Output, OutputTypes, FiledByDay, Grows, Handled, Kept, Refused

\* Lines are where flush() expects them as long as none is lost on its way.
LEMMA PlacedStays ==
    ASSUME Placed, UNCHANGED flusher, Grows, Somewhere \subseteq Somewhere',
           Returned' \subseteq Somewhere'
    PROVE  Placed'
  BY ZenonT(60) DEF Placed, Grows
-----------------------------------------------------------------------------
(***************************************************************************)
(* The steps                                                               *)
(***************************************************************************)
\* After Log::init nothing waits.
LEMMA LogInit == Init => LogInv
<1> SUFFICES ASSUME Init PROVE LogInv
  OBVIOUS
<1>1. Types
  BY LogAssumption DEF Init, Types, m_is_async, ThreadStates, FlusherStates
<1>2. Counted
  BY LogAssumption DEF Init, Counted, m_is_async
<1>3. Leaving
  BY LogAssumption DEF Init, Leaving, m_is_async
<1>4. \A t \in Threads : LastReturned(t) = 0
  BY DEF Init, LastReturned
<1>5. Returned = {}
  BY <1>4 DEF Returned
<1>6. flusher.pc = "idle"
  BY DEF Init
<1>7. Placed
  BY <1>5, <1>6 DEF Placed
<1>8. Output
  BY DEF Init, Output, OutputTypes, FiledByDay, Filed
<1>9. QED  BY <1>1, <1>2, <1>3, <1>7, <1>8 DEF LogInv

\* A call that goes on, or has not begun, has not returned.
LEMMA ReturnedStays ==
    ASSUME Types, NEW t \in Threads, Types',
           \A u \in Threads \ {t} : thread'[u] = thread[u],
           LastReturned(t)' <= LastReturned(t)
    PROVE  Returned' \subseteq Returned
<1>1. \A u \in Threads \ {t} : LastReturned(u)' = LastReturned(u)
  BY ZenonT(60) DEF LastReturned
<1>2. \A u \in Threads : LastReturned(u) \in Int /\ LastReturned(u)' \in Int
  BY DEF LastReturned, Types, ThreadStates
<1>3. \A u \in Threads : \A n \in 1..Lines : n <= LastReturned(u)' => n <= LastReturned(u)
  BY <1>1, <1>2, LogAssumption
<1>4. QED  BY <1>3 DEF Returned

\* When the call of thread t returns, the line it returns with joins the others.
LEMMA ReturnedGrows ==
    ASSUME Types, NEW t \in Threads, thread[t].pc # "idle",
           thread' = [thread EXCEPT ![t].pc = "idle"]
    PROVE  Returned' \subseteq Returned \cup {Id(Line(t))}
<1>1. /\ thread \in [Threads -> ThreadStates] /\ thread[t].nr \in Nat
      /\ \A u \in Threads : LastReturned(u) \in Int
  BY DEF Types, ThreadStates, LastReturned
<1>2. \A u \in Threads \ {t} : LastReturned(u)' = LastReturned(u)
  BY <1>1 DEF LastReturned
<1>3. LastReturned(t) = thread[t].nr - 1 /\ LastReturned(t)' = thread[t].nr
  BY <1>1 DEF LastReturned, ThreadStates
<1>4. Id(Line(t)) = <<t, thread[t].nr>>
  BY ZenonT(60) DEF Id, Line
<1>5. SUFFICES ASSUME NEW x \in Threads \X (1..Lines), x[2] <= LastReturned(x[1])',
                      ~(x[2] <= LastReturned(x[1]))
               PROVE  x = <<t, thread[t].nr>>
  BY <1>4 DEF Returned
<1>6. x[1] \in Threads /\ x[2] \in Nat /\ x = <<x[1], x[2]>>
  BY LogAssumption
<1>7. x[1] = t
  BY <1>5, <1>2, <1>6
<1>8. x[2] = thread[t].nr
  BY <1>5, <1>1, <1>3, <1>6, <1>7
<1>9. QED  BY <1>6, <1>7, <1>8

\* The lines that wait and those of the batch, when neither changes.
LEMMA WaitingStays ==
    ASSUME UNCHANGED <<m_log_queue, batch, done>>, Grows
    PROVE  Somewhere \subseteq Somewhere'
  BY ZenonT(60) DEF Somewhere, Queued, Held, Grows

\* A thread that goes from one section of write_log to the next.
LEMMA ThreadMoves ==
    ASSUME thread \in [Threads -> ThreadStates], NEW t \in Threads,
           NEW pc \in {"idle", "formatted", "direct"}, thread' = [thread EXCEPT ![t].pc = pc]
    PROVE  thread' \in [Threads -> ThreadStates]
  BY DEF ThreadStates

LEMMA FormatLineStep ==
    ASSUME LogInv, NEW t \in Threads, FormatLine(t)
    PROVE  LogInv'
<1> USE DEF LogInv
<1>1. Types'
  BY DEF FormatLine, Types, ThreadStates, queue
<1>2. Counted'
  BY ZenonT(60) DEF FormatLine, Counted, queue
<1>3. Leaving'
  BY ZenonT(60) DEF FormatLine, Leaving, queue, m_is_async
<1>4. Output' /\ Grows
  BY OutputStays, ZenonT(60) DEF FormatLine
<1>5. Somewhere \subseteq Somewhere'
  BY <1>4, WaitingStays, ZenonT(60) DEF FormatLine, queue
<1>6. \A u \in Threads \ {t} : thread'[u] = thread[u]
  BY DEF FormatLine, Types
<1>7. LastReturned(t)' <= LastReturned(t)
  BY DEF FormatLine, LastReturned, Types, ThreadStates
<1>8. Returned' \subseteq Returned
  BY <1>1, <1>6, <1>7, ReturnedStays, ZenonT(60)
<1>9. Placed'
  BY <1>4, <1>5, <1>8, PlacedStays, ZenonT(60) DEF FormatLine, Placed
<1>10. QED  BY <1>1, <1>2, <1>3, <1>4, <1>9, ZenonT(60)

LEMMA QueueLineStep ==
    ASSUME LogInv, NEW t \in Threads, QueueLine(t)
    PROVE  LogInv'
<1> USE DEF LogInv
<1> DEFINE line == Line(t)
<1>a. line \in Entries /\ m_log_queue \in Seq(Entries) /\ Len(m_log_queue) \in Nat
  BY DEF Line, Entries, Types, ThreadStates
<1>b. m_log_queue' = Append(m_log_queue, line)
  BY ZenonT(60) DEF QueueLine
<1> HIDE DEF line
<1>c. /\ m_log_queue' \in Seq(Entries) /\ Len(m_log_queue') = Len(m_log_queue) + 1
      /\ m_log_queue'[Len(m_log_queue) + 1] = line
      /\ \A i \in 1..Len(m_log_queue) : m_log_queue'[i] = m_log_queue[i]
  BY <1>a, <1>b
<1>1. Types'
  BY <1>c, ThreadMoves, ZenonT(60) DEF QueueLine, Types
<1>2. Counted'
  BY <1>a, <1>c DEF QueueLine, Counted, Types
<1>3. writer # "gone"
  BY ZenonT(60) DEF QueueLine, Leaving
<1>4. Leaving'
  BY <1>3 DEF QueueLine, Leaving, m_is_async
<1>5. Output' /\ Grows
  BY OutputStays, ZenonT(60) DEF QueueLine
<1>6. /\ Len(m_log_queue) + 1 \in 1..Len(m_log_queue')
      /\ \A i \in 1..Len(m_log_queue) : i \in 1..Len(m_log_queue')
  BY <1>a, <1>c
<1>7. Queued \cup {Id(line)} \subseteq Queued'
  BY <1>c, <1>6, ZenonT(60) DEF Queued
<1>8. Held' = Held
  BY ZenonT(60) DEF Held, QueueLine
<1>9. Somewhere \cup {Id(line)} \subseteq Somewhere'
  BY <1>5, <1>7, <1>8, ZenonT(60) DEF Somewhere, Grows
<1>10. Returned' \subseteq Returned \cup {Id(line)}
  <2>1. thread[t].pc # "idle"
    BY DEF QueueLine
  <2>2. QED  BY <2>1, ReturnedGrows, ZenonT(60) DEF QueueLine, line
<1>11. Placed'
  BY <1>5, <1>9, <1>10, PlacedStays, ZenonT(60) DEF QueueLine, Placed
<1>12. QED  BY <1>1, <1>2, <1>4, <1>5, <1>11, ZenonT(60)

LEMMA QueueIsFullStep ==
    ASSUME LogInv, NEW t \in Threads, QueueIsFull(t)
    PROVE  LogInv'
<1> USE DEF LogInv
<1>1. Types'
  BY ThreadMoves, ZenonT(60) DEF QueueIsFull, Types, queue
<1>2. Counted'
  BY ZenonT(60) DEF QueueIsFull, Counted, queue
<1>3. Leaving'
  BY ZenonT(60) DEF QueueIsFull, Leaving, queue, m_is_async
<1>4. Output' /\ Grows
  BY OutputStays, ZenonT(60) DEF QueueIsFull
<1>5. Somewhere \subseteq Somewhere'
  BY <1>4, WaitingStays, ZenonT(60) DEF QueueIsFull, queue
<1>6. \A u \in Threads \ {t} : thread'[u] = thread[u]
  BY DEF QueueIsFull, Types
<1>7. LastReturned(t)' <= LastReturned(t)
  BY DEF QueueIsFull, LastReturned, Types, ThreadStates
<1>8. Returned' \subseteq Returned
  BY <1>1, <1>6, <1>7, ReturnedStays, ZenonT(60)
<1>9. Placed'
  BY <1>4, <1>5, <1>8, PlacedStays, ZenonT(60) DEF QueueIsFull, Placed
<1>10. QED  BY <1>1, <1>2, <1>3, <1>4, <1>9, ZenonT(60)

LEMMA WriteDirectlyStep ==
    ASSUME LogInv, NEW t \in Threads, WriteDirectly(t)
    PROVE  LogInv'
<1> USE DEF LogInv
<1> DEFINE line == Line(t)
<1>a. line \in Entries
  BY DEF Line, Entries, Types, ThreadStates
<1>b. write_to_file_locked(line)
  BY ZenonT(60) DEF WriteDirectly
<1> HIDE DEF line
<1>1. Types'
  BY DEF WriteDirectly, Types, ThreadStates, queue
<1>2. Counted'
  BY ZenonT(60) DEF WriteDirectly, Counted, queue
<1>3. Leaving'
  BY DEF WriteDirectly, Leaving, queue, m_is_async
<1>4. Output' /\ Grows /\ Id(line) \in Handled'
  BY <1>a, <1>b, LineFiled, ZenonT(60) DEF Grows
<1>5. Somewhere \cup {Id(line)} \subseteq Somewhere'
  BY <1>4, WaitingStays, ZenonT(60) DEF WriteDirectly, queue, Somewhere
<1>6. Returned' \subseteq Returned \cup {Id(line)}
  <2>1. thread[t].pc # "idle"
    BY DEF WriteDirectly
  <2>2. QED  BY <2>1, ReturnedGrows, ZenonT(60) DEF WriteDirectly, line
<1>7. Placed'
  BY <1>4, <1>5, <1>6, PlacedStays, ZenonT(60) DEF WriteDirectly, Placed
<1>8. QED  BY <1>1, <1>2, <1>3, <1>4, <1>7, ZenonT(60)

-----------------------------------------------------------------------------
LEMMA SameReturned == UNCHANGED thread => Returned' = Returned
  BY ZenonT(60) DEF Returned, LastReturned

\* Held is empty before the batch is taken: what leaves the queue is in the batch.
LEMMA TakeBatchStep ==
    ASSUME LogInv, TakeBatch
    PROVE  LogInv'
<1> USE DEF LogInv
<1> DEFINE q == m_log_queue
           n == IF Len(q) < MaxBatch THEN Len(q) ELSE MaxBatch
<1>a. q \in Seq(Entries) /\ Len(q) \in Nat /\ n \in 0..Len(q) /\ n > 0 /\ n \in Nat
  BY LogAssumption DEF TakeBatch, Types
<1>b. batch' = SubSeq(q, 1, n) /\ q' = SubSeq(q, n + 1, Len(q))
  BY ZenonT(60) DEF TakeBatch
<1>c. writer = "wait" /\ batch = <<>> /\ done = 0
  BY ZenonT(60) DEF TakeBatch, Counted
<1> HIDE DEF n
<1>d. /\ batch' \in Seq(Entries) /\ q' \in Seq(Entries)
      /\ Len(batch') = n /\ Len(q') = Len(q) - n
      /\ \A i \in 1..n : batch'[i] = q[i]
      /\ \A i \in 1..(Len(q) - n) : q'[i] = q[n + i]
  BY <1>a, <1>b, BatchSplits, ZenonT(60)
<1>1. Types'
  BY <1>d, ZenonT(60) DEF TakeBatch, Types
<1>2. Counted'
  BY <1>a, <1>c, <1>d DEF TakeBatch, Counted
<1>3. Leaving'
  BY <1>c DEF TakeBatch, Leaving, m_is_async
<1>4. Output' /\ Grows
  BY OutputStays, ZenonT(60) DEF TakeBatch
<1>5. Held = {}
  BY <1>c DEF Held
<1>6. \A i \in 1..Len(q) : \/ i \in (done' + 1)..Len(batch') /\ batch'[i] = q[i]
                           \/ i - n \in 1..Len(q') /\ q'[i - n] = q[i]
  <2> SUFFICES ASSUME NEW i \in 1..Len(q)
               PROVE  \/ i \in (done' + 1)..Len(batch') /\ batch'[i] = q[i]
                      \/ i - n \in 1..Len(q') /\ q'[i - n] = q[i]
    OBVIOUS
  <2>0. done' = 0
    BY <1>c DEF TakeBatch
  <2>1. CASE i <= n
    BY <2>0, <2>1, <1>a, <1>d
  <2>2. CASE i > n
    <3>1. i - n \in 1..(Len(q) - n) /\ n + (i - n) = i
      BY <2>2, <1>a
    <3>2. QED  BY <3>1, <1>d, ZenonT(60)
  <2>3. QED  BY <2>1, <2>2, <1>a
<1>7. Queued \subseteq Queued' \cup Held'
  BY <1>6, ZenonT(60) DEF Queued, Held
<1>8. Somewhere \subseteq Somewhere'
  BY <1>4, <1>5, <1>7, ZenonT(60) DEF Somewhere, Grows
<1>9. Placed'
  BY <1>4, <1>8, SameReturned, PlacedStays, ZenonT(60) DEF TakeBatch, Placed
<1>10. QED  BY <1>1, <1>2, <1>3, <1>4, <1>9, ZenonT(60)

LEMMA WriteBatchStep ==
    ASSUME LogInv, WriteBatch
    PROVE  LogInv'
<1> USE DEF LogInv
<1> DEFINE line == batch[done + 1]
<1>a. /\ writer = "write" /\ done < Len(batch) /\ done \in Nat /\ Len(batch) \in Nat
      /\ line \in Entries
  BY DEF WriteBatch, Counted, Types
<1>b. write_to_file_locked(line)
  BY ZenonT(60) DEF WriteBatch
<1> HIDE DEF line
<1>1. Types'
  BY <1>a DEF WriteBatch, Types, queue
<1>2. Counted'
  BY <1>a DEF WriteBatch, Counted, queue
<1>3. Leaving'
  BY <1>a DEF WriteBatch, Leaving, queue, m_is_async
<1>4. Output' /\ Grows /\ Id(line) \in Handled'
  BY <1>a, <1>b, LineFiled, ZenonT(60) DEF Grows
<1>5. \A i \in (done + 1)..Len(batch) : i = done + 1 \/ i \in (done' + 1)..Len(batch')
  BY <1>a DEF WriteBatch
<1>6. Held \subseteq Held' \cup {Id(line)}
  BY <1>5, ZenonT(60) DEF Held, line, WriteBatch
<1>7. Queued' = Queued
  BY ZenonT(60) DEF Queued, WriteBatch, queue
<1>8. Somewhere \subseteq Somewhere'
  BY <1>4, <1>6, <1>7, ZenonT(60) DEF Somewhere, Grows
<1>9. Placed'
  BY <1>4, <1>8, SameReturned, PlacedStays, ZenonT(60) DEF WriteBatch, Placed
<1>10. QED  BY <1>1, <1>2, <1>3, <1>4, <1>9, ZenonT(60)

LEMMA AccountBatchStep ==
    ASSUME LogInv, AccountBatch
    PROVE  LogInv'
<1> USE DEF LogInv
<1>a. writer = "account" /\ done = Len(batch) /\ Len(batch) \in Nat /\ Len(m_log_queue) \in Nat
  BY DEF AccountBatch, Counted, Types
<1>1. Types'
  BY DEF AccountBatch, Types
<1>2. Counted'
  BY <1>a DEF AccountBatch, Counted
<1>3. Leaving'
  BY <1>a DEF AccountBatch, Leaving, m_is_async
<1>4. Output' /\ Grows
  BY OutputStays, ZenonT(60) DEF AccountBatch
<1>5. Held = {}
  <2>1. (done + 1)..Len(batch) = {}
    BY <1>a
  <2>2. QED  BY <2>1 DEF Held
<1>6. Queued' = Queued
  BY ZenonT(60) DEF Queued, AccountBatch
<1>7. Somewhere \subseteq Somewhere'
  BY <1>4, <1>5, <1>6, ZenonT(60) DEF Somewhere, Grows
<1>8. Placed'
  BY <1>4, <1>7, SameReturned, PlacedStays, ZenonT(60) DEF AccountBatch, Placed
<1>9. QED  BY <1>1, <1>2, <1>3, <1>4, <1>8, ZenonT(60)

LEMMA WriterLeavesStep ==
    ASSUME LogInv, WriterLeaves
    PROVE  LogInv'
<1> USE DEF LogInv
<1>1. Types'
  BY DEF WriterLeaves, Types, queue
<1>2. Counted'
  BY DEF WriterLeaves, Counted, queue
<1>3. Leaving'
  BY DEF WriterLeaves, Leaving, queue, m_is_async
<1>4. Output' /\ Grows
  BY OutputStays, ZenonT(60) DEF WriterLeaves
<1>5. Somewhere \subseteq Somewhere'
  BY <1>4, WaitingStays, ZenonT(60) DEF WriterLeaves, queue
<1>6. Placed'
  BY <1>4, <1>5, SameReturned, PlacedStays, ZenonT(60) DEF WriterLeaves, Placed
<1>7. QED  BY <1>1, <1>2, <1>3, <1>4, <1>6, ZenonT(60)

-----------------------------------------------------------------------------
\* With an empty queue and no batch every line is in the file or discarded.
LEMMA NothingWaits ==
    ASSUME m_log_queue = <<>>, batch = <<>>, done \in Nat
    PROVE  Somewhere = Handled
<1>1. Queued = {}
  BY DEF Queued
<1>2. (done + 1)..Len(batch) = {}
  OBVIOUS
<1>3. Held = {}
  BY <1>2 DEF Held
<1>4. QED  BY <1>1, <1>3, ZenonT(60) DEF Somewhere

\* The same places, when the queue, the batch and the file are left alone.
LEMMA PlacesSame ==
    ASSUME UNCHANGED <<m_log_queue, batch, done, written, discarded>>
    PROVE  Somewhere' = Somewhere /\ Handled' = Handled /\ Refused' = Refused
  BY ZenonT(60) DEF Somewhere, Queued, Held, Handled, Refused

LEMMA ReturnedType == Returned \in SUBSET (Threads \X Nat)
  BY LogAssumption DEF Returned

LEMMA flushStep ==
    ASSUME LogInv, flush
    PROVE  LogInv'
<1> USE DEF LogInv
<1>a. /\ UNCHANGED <<m_log_queue, m_pending_logs, m_stop_requested, batch, done, writer, thread, today>>
      /\ UNCHANGED <<written, discarded>>
  BY ZenonT(60) DEF flush, queue, output
<1>b. /\ flusher'.pc = IF m_is_async THEN "drain" ELSE "sync"
      /\ flusher'.since = Returned
  BY DEF flush
<1>1. Types'
  BY <1>a, ReturnedType DEF flush, Types, FlusherStates
<1>2. Counted'
  BY <1>a, ZenonT(60) DEF Counted
<1>3. Leaving'
  BY <1>a, <1>b DEF flush, Leaving, m_is_async
<1>4. Output' /\ Grows
  BY OutputStays, ZenonT(60) DEF flush
<1>5. Somewhere' = Somewhere /\ Handled' = Handled /\ Returned' = Returned
  BY <1>a, PlacesSame, SameReturned, ZenonT(60)
<1>6. ASSUME ~m_is_async PROVE Somewhere = Handled
  BY <1>6, NothingWaits, ZenonT(60) DEF Leaving, Counted, Types
<1>7. CASE m_is_async
  <2>1. flusher'.pc = "drain"
    BY <1>b, <1>7, ZenonT(60)
  <2>2. QED  BY <2>1, <1>1, <1>2, <1>3, <1>4, <1>5, <1>b, ZenonT(60) DEF Placed
<1>8. CASE ~m_is_async
  <2>1. flusher'.pc = "sync"
    BY <1>b, <1>8, ZenonT(60)
  <2>2. QED  BY <2>1, <1>1, <1>2, <1>3, <1>4, <1>5, <1>6, <1>8, <1>b, ZenonT(60) DEF Placed
<1>9. QED  BY <1>7, <1>8, ZenonT(60)

\* A count of 0 means that nothing waits.
LEMMA WaitDrainedStep ==
    ASSUME LogInv, WaitDrained
    PROVE  LogInv'
<1> USE DEF LogInv
<1>a. /\ UNCHANGED <<m_log_queue, m_pending_logs, m_stop_requested, batch, done, writer, thread, today>>
      /\ UNCHANGED <<written, discarded>>
  BY ZenonT(60) DEF WaitDrained, queue, output
<1>b. flusher.pc = "drain" /\ flusher'.pc = "sync" /\ flusher'.since = flusher.since
  BY DEF WaitDrained, Types, FlusherStates
<1>c. m_log_queue = <<>> /\ batch = <<>>
  BY DEF WaitDrained, Counted, Types
<1>1. Types'
  BY <1>a DEF WaitDrained, Types, FlusherStates
<1>2. Counted'
  BY <1>a, ZenonT(60) DEF Counted
<1>3. Leaving'
  BY <1>a, <1>b DEF Leaving, m_is_async
<1>4. Output' /\ Grows
  BY OutputStays, ZenonT(60) DEF WaitDrained
<1>5. Somewhere' = Somewhere /\ Handled' = Handled /\ Returned' = Returned
  BY <1>a, PlacesSame, SameReturned, ZenonT(60)
<1>6. Somewhere = Handled
  BY <1>c, NothingWaits, ZenonT(60) DEF Types
<1>7. Placed'
  BY <1>b, <1>5, <1>6 DEF Placed
<1>8. QED  BY <1>1, <1>2, <1>3, <1>4, <1>7, ZenonT(60)

\* fflush: all that was written leaves the buffer.
LEMMA AllKept ==
    ASSUME OutputTypes, durable' = Len(written), UNCHANGED <<written, discarded>>
    PROVE  /\ durable' \in 0..Len(written')
           /\ Handled \subseteq Kept' \cup Refused'
<1>1. Len(written) \in Nat
  BY DEF OutputTypes
<1>2. QED
  <2>1. durable' \in 0..Len(written')
    BY <1>1
  <2>2. Handled \subseteq Kept' \cup Refused'
    BY ZenonT(60) DEF Handled, Kept, Refused, Id
  <2>3. QED  BY <2>1, <2>2

LEMMA FlushFileStep ==
    ASSUME LogInv, FlushFile
    PROVE  LogInv'
<1> USE DEF LogInv
<1>a. /\ UNCHANGED <<m_log_queue, m_pending_logs, m_stop_requested, batch, done, writer, thread, today>>
      /\ UNCHANGED <<file, written, discarded, failures>>
  BY ZenonT(60) DEF FlushFile, queue
<1>b. flusher.pc = "sync" /\ flusher'.pc = "flushed" /\ flusher'.since = flusher.since
  BY DEF FlushFile, Types, FlusherStates
<1>c. durable' = Len(written)
  BY ZenonT(60) DEF FlushFile, Output
<1>d. durable' \in 0..Len(written') /\ Handled \subseteq Kept' \cup Refused'
  BY <1>a, <1>c, AllKept, ZenonT(60) DEF Output
<1>1. Types'
  BY <1>a DEF FlushFile, Types, FlusherStates
<1>2. Counted'
  BY <1>a, ZenonT(60) DEF Counted
<1>3. Leaving'
  BY <1>a, <1>b DEF Leaving, m_is_async
<1>4. Output'
  BY <1>a, <1>c, <1>d, ZenonT(60) DEF Output, OutputTypes, FiledByDay
<1>5. Somewhere' = Somewhere /\ Handled' = Handled /\ Returned' = Returned
  BY <1>a, PlacesSame, SameReturned, ZenonT(60)
<1>6. flusher'.since \subseteq Kept' \cup Refused'
  BY <1>b, <1>d, ZenonT(60) DEF Placed
<1>7. Placed'
  BY <1>b, <1>5, <1>6 DEF Placed
<1>8. QED  BY <1>1, <1>2, <1>3, <1>4, <1>7, ZenonT(60)

LEMMA shutdown_asyncStep ==
    ASSUME LogInv, shutdown_async
    PROVE  LogInv'
<1> USE DEF LogInv
<1>a. /\ UNCHANGED <<m_log_queue, m_pending_logs, batch, done, writer, thread, today>>
      /\ UNCHANGED <<written, discarded>>
  BY ZenonT(60) DEF shutdown_async, output
<1>b. flusher'.pc = "join" /\ flusher'.since = Returned
  BY DEF shutdown_async
<1>1. Types'
  BY <1>a, ReturnedType DEF shutdown_async, Types, FlusherStates
<1>2. Counted'
  BY <1>a, ZenonT(60) DEF Counted
<1>3. Leaving'
  BY <1>a, <1>b DEF shutdown_async, Leaving, m_is_async
<1>4. Output' /\ Grows
  BY OutputStays, ZenonT(60) DEF shutdown_async
<1>5. Somewhere' = Somewhere /\ Handled' = Handled /\ Returned' = Returned
  BY <1>a, PlacesSame, SameReturned, ZenonT(60)
<1>6. Placed'
  BY <1>b, <1>5 DEF Placed
<1>7. QED  BY <1>1, <1>2, <1>3, <1>4, <1>6, ZenonT(60)

\* The writer thread leaves with the queue empty: reset_queue_locked drops nothing.
LEMMA JoinAndCloseStep ==
    ASSUME LogInv, JoinAndClose
    PROVE  LogInv'
<1> USE DEF LogInv
<1>a. /\ UNCHANGED <<batch, done, writer, thread, today, written, discarded, failures>>
      /\ durable' = Len(written)
  BY ZenonT(60) DEF JoinAndClose
<1>b. /\ flusher.pc = "join" /\ flusher'.pc = "closed" /\ flusher'.since = flusher.since
      /\ m_stop_requested' = FALSE
  BY DEF JoinAndClose, Types, FlusherStates
<1>c. writer = "gone" /\ m_log_queue = <<>> /\ batch = <<>> /\ m_log_queue' = <<>>
  BY ZenonT(60) DEF JoinAndClose, Leaving, Counted
<1>d. durable' \in 0..Len(written') /\ Handled \subseteq Kept' \cup Refused'
  BY <1>a, AllKept, ZenonT(60) DEF Output
<1>1. Types'
  BY <1>a, <1>c DEF JoinAndClose, Types, FlusherStates
<1>2. Counted'
  BY <1>a, <1>c DEF JoinAndClose, Counted
<1>3. Leaving'
  BY <1>a, <1>b, <1>c DEF Leaving, m_is_async
<1>4. file' \in [open : BOOLEAN, day : Nat, index : Nat, count : Nat]
  <2>1. file \in [open : BOOLEAN, day : Nat, index : Nat, count : Nat]
    BY ZenonT(60) DEF Output, OutputTypes
  <2>2. file' = [file EXCEPT !.open = FALSE]
    BY ZenonT(60) DEF JoinAndClose
  <2>3. QED  BY <2>1, <2>2, ZenonT(60)
<1>5. Output'
  BY <1>a, <1>d, <1>4, ZenonT(60) DEF Output, OutputTypes, FiledByDay
<1>6. Somewhere' = Somewhere /\ Handled' = Handled /\ Returned' = Returned
  BY <1>a, <1>c, PlacesSame, SameReturned, ZenonT(60)
<1>7. Somewhere = Handled
  BY <1>c, NothingWaits, ZenonT(60) DEF Types
<1>8. flusher'.since \subseteq Kept' \cup Refused'
  BY <1>b, <1>d, <1>7, ZenonT(60) DEF Placed
<1>9. Placed'
  BY <1>b, <1>6, <1>8 DEF Placed
<1>10. QED  BY <1>1, <1>2, <1>3, <1>5, <1>9, ZenonT(60)

LEMMA MidnightStep ==
    ASSUME LogInv, Midnight \/ UNCHANGED vars
    PROVE  LogInv'
<1> USE DEF LogInv
<1>a. /\ UNCHANGED <<m_log_queue, m_pending_logs, m_stop_requested, batch, done, writer, thread, flusher>>
      /\ UNCHANGED output /\ today' \in Nat
  <2>1. today + 1 \in Nat
    BY DEF Types
  <2>2. QED  BY <2>1, ZenonT(60) DEF Midnight, vars, queue, Types
<1>1. Types' /\ Counted' /\ Leaving'
  BY <1>a, ZenonT(60) DEF Types, Counted, Leaving, m_is_async
<1>2. Output' /\ Grows
  BY <1>a, OutputStays, ZenonT(60)
<1>3. Somewhere \subseteq Somewhere'
  BY <1>a, <1>2, WaitingStays, ZenonT(60)
<1>4. Placed'
  BY <1>a, <1>2, <1>3, SameReturned, PlacedStays, ZenonT(60) DEF Placed
<1>5. QED  BY <1>1, <1>2, <1>4, ZenonT(60)
-----------------------------------------------------------------------------
(***************************************************************************)
(* Theorems                                                                *)
(***************************************************************************)
\* Every critical section of the logger keeps the invariant.
LEMMA LogNext == LogInv /\ [Next]_vars => LogInv'
  BY FormatLineStep, QueueLineStep, QueueIsFullStep, WriteDirectlyStep, TakeBatchStep,
     WriteBatchStep, AccountBatchStep, WriterLeavesStep, flushStep, WaitDrainedStep,
     FlushFileStep, shutdown_asyncStep, JoinAndCloseStep, MidnightStep, ZenonT(60) DEF Next

LEMMA LogAlways == Spec => []LogInv
  BY LogInit, LogNext, PTL DEF Spec

\* When the writer thread finds the queue empty, m_pending_logs is 0: the wait
\* of flush() is over.
THEOREM DrainedIsCounted == Spec => []DrainEnds
<1>1. LogInv => DrainEnds
  BY DEF LogInv, Counted, DrainEnds
<1>2. QED  BY <1>1, LogAlways, PTL

\* When flush() or ~Log returns, every line whose write_log had returned before
\* the call is in the file, or found no file.
THEOREM FlushSafe == Spec => []FlushedIsDurable
<1>1. LogInv => FlushedIsDurable
  BY ZenonT(60) DEF LogInv, Placed, FlushedIsDurable
<1>2. QED  BY <1>1, LogAlways, PTL

\* write_to_file_locked puts a line into the file of the day it was logged on.
THEOREM FiledSafe == Spec => []FiledByDay
<1>1. LogInv => FiledByDay
  BY ZenonT(60) DEF LogInv, Output
<1>2. QED  BY <1>1, LogAlways, PTL
=============================================================================
