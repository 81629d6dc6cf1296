--------------------------- MODULE LockfreeProofs ---------------------------
(***************************************************************************)
(* The thread pool in queue_mode_lockfree, for any number of producers,    *)
(* workers and tasks, any capacity and any limits on the threads: its      *)
(* counters, how far it may grow beyond the maximum, and that it           *)
(* implements TaskPool.                                                    *)
(***************************************************************************)
EXTENDS ThreadPoolLockfree, TLAPS

\* Leaves go to the SMT solver, unless they name Zenon or PTL.
USE SMTT(60)

ProducerPCs == {"idle", "claim", "publish", "count", "look", "threads", "idle_threads", "decide",
                "spawn", "counted", "post"}
AlivePCs == {"top", "choose", "wait", "timewait", "timedout", "shrink", "leave", "dequeue", "failed",
             "release", "uncount", "busy", "exec"}

Types ==
    /\ m_enqueue_pos \in Nat /\ m_dequeue_pos \in Nat
    /\ sequence \in [0..(Capacity - 1) -> Nat]
    /\ payload \in [0..(Capacity - 1) -> Tasks \cup {None}]
    /\ m_pending_task_number \in Int /\ m_current_thread_number \in Int /\ m_busy_thread_number \in Int
    /\ ppc \in [Producers -> ProducerPCs]
    /\ arg \in [Producers -> Tasks \cup {None}] /\ ppos \in [Producers -> Nat]
    /\ wpc \in [Workers -> AlivePCs \cup {"gone"}]
    /\ current \in [Workers -> Tasks \cup {None}] /\ wpos \in [Workers -> Nat]
-----------------------------------------------------------------------------
(***************************************************************************)
(* Types                                                                   *)
(***************************************************************************)

\* Positions run round the ring.
LEMMA CellType == ASSUME NEW x \in Nat PROVE Cell(x) \in 0..(Capacity - 1)
  BY PoolAssumption DEF Cell

LEMMA TypesInit == Init => Types
  BY PoolAssumption DEF Init, Types, ProducerPCs, AlivePCs

LEMMA ProducerTypes ==
    ASSUME Types, NEW p \in Producers, ProducerStep(p) \/ \E t \in Tasks : Submit(p, t)
    PROVE  Types'
<1>1. CASE \E t \in Tasks : Submit(p, t)
  BY <1>1 DEF Types, Submit, PGoto, queueVars, counterVars, workerVars, ProducerPCs
<1>2. CASE ClaimCell(p)
  BY <1>2 DEF Types, ClaimCell, PGoto, counterVars, workerVars, ProducerPCs
<1>3. CASE PublishCell(p)
  <2>1. Cell(ppos[p]) \in 0..(Capacity - 1)
    BY CellType DEF Types
  <2>2. QED  BY <1>3, <2>1 DEF Types, PublishCell, PGoto, counterVars, workerVars, ProducerPCs
<1>4. CASE QueueFull(p)
  BY <1>4 DEF Types, QueueFull, EndCall, PGoto, queueVars, counterVars, workerVars, ProducerPCs
<1>5. CASE PostTask(p)
  BY <1>5 DEF Types, PostTask, EndCall, PGoto, queueVars, counterVars, workerVars, ProducerPCs
<1>6. CASE CountPending(p)
  BY <1>6 DEF Types, CountPending, PGoto, queueVars, workerVars, ProducerPCs
<1>7. CASE LookPending(p)
  BY <1>7 DEF Types, LookPending, PGoto, queueVars, counterVars, workerVars, ProducerPCs
<1>8. CASE LookThreads(p)
  BY <1>8 DEF Types, LookThreads, PGoto, queueVars, counterVars, workerVars, ProducerPCs
<1>9. CASE LookBusy(p)
  BY <1>9 DEF Types, LookBusy, PGoto, queueVars, counterVars, workerVars, ProducerPCs
<1>10. CASE DecideGrow(p)
  BY <1>10 DEF Types, DecideGrow, PGoto, queueVars, counterVars, workerVars, ProducerPCs
<1>11. CASE SpawnFails(p)
  BY <1>11 DEF Types, SpawnFails, PGoto, queueVars, counterVars, workerVars, ProducerPCs
<1>12. CASE CountWorker(p)
  BY <1>12 DEF Types, CountWorker, PGoto, queueVars, workerVars, ProducerPCs
<1>13. CASE SpawnWorker(p)
  BY <1>13 DEF Types, SpawnWorker, PGoto, WGoto, queueVars, counterVars, ProducerPCs, AlivePCs
<1>14. QED  BY <1>1, <1>2, <1>3, <1>4, <1>5, <1>6, <1>7, <1>8, <1>9, <1>10, <1>11, <1>12, <1>13, ZenonT(60)
                DEF ProducerStep

\* The steps of a worker that only move it.
QuietWorker(w) ==
    \/ TopOfLoop(w) \/ ChooseWait(w) \/ Interrupted(w) \/ Timeout(w) \/ CheckPending(w)
    \/ CheckThreads(w) \/ DequeueNothing(w) \/ AfterFailure(w)

QuietPCs == {"top", "choose", "wait", "timewait", "timedout", "shrink", "leave", "dequeue", "failed"}

LEMMA QuietMoves ==
    ASSUME NEW w, QuietWorker(w)
    PROVE  wpc[w] \in QuietPCs /\ \E s \in QuietPCs : WorkerMoves(w, s)
<1> USE DEF QuietPCs
<1>1. CASE TopOfLoop(w)
  BY <1>1, ZenonT(60) DEF TopOfLoop
<1>2. CASE ChooseWait(w)
  BY <1>2, ZenonT(60) DEF ChooseWait
<1>3. CASE Interrupted(w)
  BY <1>3, ZenonT(60) DEF Interrupted
<1>4. CASE Timeout(w)
  BY <1>4, ZenonT(60) DEF Timeout
<1>5. CASE CheckPending(w)
  BY <1>5, ZenonT(60) DEF CheckPending
<1>6. CASE CheckThreads(w)
  BY <1>6, ZenonT(60) DEF CheckThreads
<1>7. CASE DequeueNothing(w)
  BY <1>7, ZenonT(60) DEF DequeueNothing
<1>8. CASE AfterFailure(w)
  BY <1>8, ZenonT(60) DEF AfterFailure
<1>9. QED  BY <1>1, <1>2, <1>3, <1>4, <1>5, <1>6, <1>7, <1>8, ZenonT(60) DEF QuietWorker

LEMMA WorkerTypes ==
    ASSUME Types, NEW w \in Workers, WorkerStep(w) \/ Interrupted(w) \/ Timeout(w)
    PROVE  Types'
<1>1. CASE QuietWorker(w)
  <2>1. PICK s \in QuietPCs : WorkerMoves(w, s)
    BY <1>1, QuietMoves, ZenonT(60)
  <2>2. s \in AlivePCs
    BY DEF QuietPCs, AlivePCs
  <2>3. QED  BY <2>1, <2>2 DEF Types, WorkerMoves, WGoto, queueVars, counterVars, producerVars
<1>2. CASE DequeueTask(w)
  <2>1. Cell(m_dequeue_pos) \in 0..(Capacity - 1)
    BY CellType, ZenonT(60) DEF Types
  <2>2. current' \in [Workers -> Tasks \cup {None}]
    BY <1>2, <2>1 DEF Types, DequeueTask
  <2>3. m_dequeue_pos' \in Nat /\ wpos' \in [Workers -> Nat]
    BY <1>2 DEF Types, DequeueTask
  <2>4. wpc' \in [Workers -> AlivePCs \cup {"gone"}]
    BY <1>2 DEF Types, DequeueTask, WGoto, AlivePCs
  <2>5. QED  BY <1>2, <2>2, <2>3, <2>4, ZenonT(60) DEF Types, DequeueTask, counterVars, producerVars
<1>3. CASE ReleaseCell(w)
  <2>1. wpos[w] \in Nat /\ wpos[w] + Capacity \in Nat
    BY PoolAssumption DEF Types
  <2> Cell(wpos[w]) \in 0..(Capacity - 1)
    BY <2>1, CellType, ZenonT(60)
  <2>2. sequence' \in [0..(Capacity - 1) -> Nat] /\ wpos' \in [Workers -> Nat]
    BY <1>3, <2>1 DEF Types, ReleaseCell
  <2>3. wpc' \in [Workers -> AlivePCs \cup {"gone"}]
    BY <1>3 DEF Types, ReleaseCell, WGoto, AlivePCs
  <2>4. QED  BY <1>3, <2>2, <2>3, ZenonT(60) DEF Types, ReleaseCell, counterVars, producerVars
<1>4. CASE AcquirePermit(w)
  BY <1>4 DEF Types, AcquirePermit, WGoto, queueVars, counterVars, producerVars, AlivePCs
<1>5. CASE Leave(w)
  BY <1>5 DEF Types, Leave, WGoto, queueVars, producerVars, AlivePCs
<1>6. CASE UncountPending(w)
  BY <1>6 DEF Types, UncountPending, WGoto, queueVars, producerVars, AlivePCs
<1>7. CASE CountBusy(w)
  BY <1>7 DEF Types, CountBusy, WGoto, queueVars, producerVars, AlivePCs
<1>8. CASE Execute(w)
  BY <1>8 DEF Types, Execute, WGoto, queueVars, producerVars, AlivePCs
<1>9. QED  BY <1>1, <1>2, <1>3, <1>4, <1>5, <1>6, <1>7, <1>8, ZenonT(60) DEF WorkerStep, QuietWorker

LEMMA DestructorFrames ==
    ASSUME StopPool \/ DestructorStep \/ Destroyed \/ UNCHANGED vars
    PROVE  DestructorFrame
  BY DEF StopPool, DestructorStep, CountPosts, PostStop, JoinWorkers, Destroyed, DestructorFrame, vars,
         queueVars, counterVars, producerVars, workerVars, historyVars

LEMMA TypesNext == Types /\ [Next]_vars => Types'
<1> SUFFICES ASSUME Types, [Next]_vars PROVE Types'
  OBVIOUS
<1>1. ASSUME DestructorFrame PROVE Types'
  BY <1>1 DEF Types, DestructorFrame, queueVars, counterVars, producerVars, workerVars
<1>2. QED  BY <1>1, ProducerTypes, WorkerTypes, DestructorFrames, ZenonT(60) DEF Next

-----------------------------------------------------------------------------
(***************************************************************************)
(* The counters follow the queue and the threads: what a step does to the  *)
(* numbers of threads at its control points, it does to the counters.      *)
(***************************************************************************)
\* 1 for a member of S.
One(s, S) == IF s \in S THEN 1 ELSE 0

Publishing == Cardinality(PAt({"publish", "count"}))
Counted == Cardinality(PAt({"counted"}))
Growing == Cardinality(PAt({"spawn", "counted"}))
Releasing == Cardinality(WAt({"release", "uncount"}))
Alive == Cardinality(WAt(AlivePCs))
Busy == Cardinality(WAt({"exec"}))

ProducerNumbers == <<Publishing, Counted, Growing>>
WorkerNumbers == <<Releasing, Alive, Busy>>

Counters ==
    /\ m_pending_task_number + Publishing = m_enqueue_pos - m_dequeue_pos + Releasing
    /\ m_current_thread_number + Counted = Alive
    /\ m_busy_thread_number = Busy
    /\ m_current_thread_number + Growing < MaxThreads + Cardinality(Producers)

\* The numbers are numbers, and no more producers grow the pool than there are.
Sizes ==
    /\ Publishing \in Nat /\ Counted \in Nat /\ Growing \in Nat
    /\ Releasing \in Nat /\ Alive \in Nat /\ Busy \in Nat
    /\ Growing <= Cardinality(Producers) /\ Cardinality(Producers) \in Nat

\* When one thread goes from a control point to another, the numbers change by
\* that one.
ProducersCounted ==
    \A p \in Producers, to \in ProducerPCs :
        PGoto(p, to) =>
            /\ Publishing' = Publishing + One(to, {"publish", "count"}) - One(ppc[p], {"publish", "count"})
            /\ Counted' = Counted + One(to, {"counted"}) - One(ppc[p], {"counted"})
            /\ Growing' = Growing + One(to, {"spawn", "counted"}) - One(ppc[p], {"spawn", "counted"})
            /\ Growing' <= Cardinality(Producers)

WorkersCounted ==
    \A w \in Workers, to \in AlivePCs \cup {"gone"} :
        WGoto(w, to) =>
            /\ Releasing' = Releasing + One(to, {"release", "uncount"}) - One(wpc[w], {"release", "uncount"})
            /\ Alive' = Alive + One(to, AlivePCs) - One(wpc[w], AlivePCs)
            /\ Busy' = Busy + One(to, {"exec"}) - One(wpc[w], {"exec"})

LEMMA ProducersSame == UNCHANGED ppc => UNCHANGED ProducerNumbers
  BY ZenonT(60) DEF ProducerNumbers, Publishing, Counted, Growing, PAt

LEMMA WorkersSame == UNCHANGED wpc => UNCHANGED WorkerNumbers
  BY ZenonT(60) DEF WorkerNumbers, Releasing, Alive, Busy, WAt

\* The steps of a producer that change neither the queue nor a counter.
QuietCall(p) ==
    \/ \E t \in Tasks : Submit(p, t)
    \/ QueueFull(p) \/ LookPending(p) \/ LookThreads(p) \/ LookBusy(p) \/ PostTask(p)
    \/ DecideGrow(p) /\ PGoto(p, "post")

QuietCallPCs == {"idle", "claim", "look", "threads", "idle_threads", "decide", "post"}

LEMMA QuietCalls ==
    ASSUME NEW p, QuietCall(p)
    PROVE  /\ ppc[p] \in QuietCallPCs /\ \E s \in QuietCallPCs : PGoto(p, s)
           /\ UNCHANGED <<queueVars, counterVars, workerVars, accepted, done>>
<1> USE DEF QuietCallPCs, historyVars
<1>1. CASE \E t \in Tasks : Submit(p, t)
  BY <1>1, ZenonT(60) DEF Submit
<1>2. CASE QueueFull(p)
  BY <1>2, ZenonT(60) DEF QueueFull, EndCall
<1>3. CASE LookPending(p)
  BY <1>3, ZenonT(60) DEF LookPending
<1>4. CASE LookThreads(p)
  BY <1>4, ZenonT(60) DEF LookThreads
<1>5. CASE LookBusy(p)
  BY <1>5, ZenonT(60) DEF LookBusy
<1>6. CASE PostTask(p)
  BY <1>6, ZenonT(60) DEF PostTask, EndCall
<1>7. CASE DecideGrow(p) /\ PGoto(p, "post")
  BY <1>7, ZenonT(60) DEF DecideGrow
<1>8. QED  BY <1>1, <1>2, <1>3, <1>4, <1>5, <1>6, <1>7, ZenonT(60) DEF QuietCall

LEMMA ProducerCounts ==
    ASSUME Types, Counters, Sizes, ProducersCounted, WorkersCounted, NEW p \in Producers,
           ProducerStep(p) \/ \E t \in Tasks : Submit(p, t)
    PROVE  Counters'
<1> USE PoolAssumption DEF One, Sizes
<1>moved. ASSUME NEW from \in ProducerPCs, NEW to \in ProducerPCs, ppc[p] = from, PGoto(p, to)
          PROVE  /\ Publishing' = Publishing + One(to, {"publish", "count"}) - One(from, {"publish", "count"})
                 /\ Counted' = Counted + One(to, {"counted"}) - One(from, {"counted"})
                 /\ Growing' = Growing + One(to, {"spawn", "counted"}) - One(from, {"spawn", "counted"})
                 /\ Growing' <= Cardinality(Producers)
  BY <1>moved, ZenonT(60) DEF ProducersCounted
<1>0. ASSUME UNCHANGED wpc PROVE Releasing' = Releasing /\ Alive' = Alive /\ Busy' = Busy
  BY <1>0, WorkersSame, ZenonT(60) DEF WorkerNumbers
<1>1. CASE QuietCall(p)
  <2>1. PICK s \in QuietCallPCs : PGoto(p, s)
    BY <1>1, QuietCalls, ZenonT(60)
  <2>2. /\ ppc[p] \in QuietCallPCs /\ ppc[p] \in ProducerPCs /\ s \in ProducerPCs
        /\ UNCHANGED <<queueVars, counterVars, workerVars>>
    BY <1>1, QuietCalls DEF QuietCallPCs, ProducerPCs
  <2>3. Publishing' = Publishing /\ Counted' = Counted /\ Growing' = Growing
    BY <2>1, <2>2, <1>moved DEF QuietCallPCs
  <2>4. QED  BY <1>0, <2>2, <2>3 DEF Counters, queueVars, counterVars, workerVars
<1>2. CASE ClaimCell(p)
  <2>1. ppc[p] = "claim" /\ PGoto(p, "publish") /\ UNCHANGED wpc
    BY <1>2, ZenonT(60) DEF ClaimCell, workerVars
  <2>2. Publishing' = Publishing + 1 /\ Counted' = Counted /\ Growing' = Growing
    BY <2>1, <1>moved DEF ProducerPCs
  <2>3. QED  BY <1>2, <1>0, <2>1, <2>2 DEF Counters, ClaimCell, Types, queueVars, counterVars
<1>3. CASE PublishCell(p)
  <2>1. ppc[p] = "publish" /\ PGoto(p, "count") /\ UNCHANGED wpc
    BY <1>3, ZenonT(60) DEF PublishCell, workerVars
  <2>2. Publishing' = Publishing /\ Counted' = Counted /\ Growing' = Growing
    BY <2>1, <1>moved DEF ProducerPCs
  <2>3. QED  BY <1>3, <1>0, <2>1, <2>2 DEF Counters, PublishCell, Types, queueVars, counterVars
<1>4. CASE CountPending(p)
  <2>1. ppc[p] = "count" /\ PGoto(p, "look") /\ UNCHANGED wpc
    BY <1>4, ZenonT(60) DEF CountPending, workerVars
  <2>2. Publishing' = Publishing - 1 /\ Counted' = Counted /\ Growing' = Growing
    BY <2>1, <1>moved DEF ProducerPCs
  <2>3. QED  BY <1>4, <1>0, <2>1, <2>2 DEF Counters, CountPending, Types, queueVars, counterVars
<1>5. CASE SpawnFails(p)
  <2>1. ppc[p] = "spawn" /\ PGoto(p, "post") /\ UNCHANGED wpc
    BY <1>5, ZenonT(60) DEF SpawnFails, workerVars
  <2>2. Publishing' = Publishing /\ Counted' = Counted /\ Growing' = Growing - 1
    BY <2>1, <1>moved DEF ProducerPCs
  <2>3. QED  BY <1>5, <1>0, <2>1, <2>2 DEF Counters, SpawnFails, Types, queueVars, counterVars
<1>6. CASE CountWorker(p)
  <2>1. ppc[p] = "counted" /\ PGoto(p, "threads") /\ UNCHANGED wpc
    BY <1>6, ZenonT(60) DEF CountWorker, workerVars
  <2>2. Publishing' = Publishing /\ Counted' = Counted - 1 /\ Growing' = Growing - 1
    BY <2>1, <1>moved DEF ProducerPCs
  <2>3. QED  BY <1>6, <1>0, <2>1, <2>2 DEF Counters, CountWorker, Types, queueVars, counterVars
<1>7. CASE SpawnWorker(p)
  <2>1. PICK w \in Workers \ Live : WGoto(w, "top")
    BY <1>7, ZenonT(60) DEF SpawnWorker
  <2>2. ppc[p] = "spawn" /\ PGoto(p, "counted") /\ wpc[w] = "gone"
    BY <1>7, <2>1, ZenonT(60) DEF SpawnWorker, Live
  <2>3. Publishing' = Publishing /\ Counted' = Counted + 1 /\ Growing' = Growing
    BY <2>2, <1>moved DEF ProducerPCs
  <2>4. Releasing' = Releasing /\ Alive' = Alive + 1 /\ Busy' = Busy
    BY <2>1, <2>2 DEF WorkersCounted, AlivePCs
  <2>5. QED  BY <1>7, <2>3, <2>4 DEF Counters, SpawnWorker, Types, queueVars, counterVars
<1>8. CASE DecideGrow(p) /\ ~PGoto(p, "post")
  <2>1. ppc[p] = "decide" /\ PGoto(p, "spawn") /\ m_current_thread_number < MaxThreads
    BY <1>8, ZenonT(60) DEF DecideGrow
  <2>2. Publishing' = Publishing /\ Counted' = Counted /\ Growing' = Growing + 1
    BY <2>1, <1>moved DEF ProducerPCs
  <2>3. Growing + 1 <= Cardinality(Producers)
    <3>1. "decide" \in ProducerPCs /\ "spawn" \in ProducerPCs
      BY DEF ProducerPCs
    <3>2. Growing' <= Cardinality(Producers)
      BY <1>moved, <2>1, <3>1, ZenonT(60)
    <3>3. QED  BY <2>2, <3>2, ZenonT(60)
  <2>4. QED  BY <1>8, <1>0, <2>1, <2>2, <2>3 DEF Counters, DecideGrow, Types, queueVars, counterVars, workerVars
<1>9. QED  BY <1>1, <1>2, <1>3, <1>4, <1>5, <1>6, <1>7, <1>8, ZenonT(60) DEF ProducerStep, QuietCall

LEMMA WorkerCounts ==
    ASSUME Types, Counters, Sizes, WorkersCounted, NEW w \in Workers,
           WorkerStep(w) \/ Interrupted(w) \/ Timeout(w)
    PROVE  Counters'
<1> USE PoolAssumption DEF One, Sizes, AlivePCs
<1>moved. ASSUME NEW to \in AlivePCs \cup {"gone"}, WGoto(w, to)
          PROVE  /\ Releasing' = Releasing + One(to, {"release", "uncount"})
                                 - One(wpc[w], {"release", "uncount"})
                 /\ Alive' = Alive + One(to, AlivePCs) - One(wpc[w], AlivePCs)
                 /\ Busy' = Busy + One(to, {"exec"}) - One(wpc[w], {"exec"})
  BY <1>moved, ZenonT(60) DEF WorkersCounted
<1>0. ASSUME UNCHANGED ppc PROVE Publishing' = Publishing /\ Counted' = Counted /\ Growing' = Growing
  BY <1>0, ProducersSame, ZenonT(60) DEF ProducerNumbers
<1>1. CASE QuietWorker(w)
  <2>1. PICK s \in QuietPCs : WorkerMoves(w, s)
    BY <1>1, QuietMoves, ZenonT(60)
  <2>2. wpc[w] \in QuietPCs /\ WGoto(w, s) /\ UNCHANGED <<queueVars, counterVars, ppc>>
    BY <1>1, <2>1, QuietMoves, ZenonT(60) DEF WorkerMoves, producerVars
  <2>3. Releasing' = Releasing /\ Alive' = Alive /\ Busy' = Busy
    BY <2>2, <1>moved DEF QuietPCs
  <2>4. QED  BY <1>0, <2>2, <2>3 DEF Counters, queueVars, counterVars
<1>2. CASE AcquirePermit(w)
  <2>1. wpc[w] \in {"wait", "timewait"} /\ WGoto(w, "dequeue") /\ UNCHANGED ppc
    BY <1>2, ZenonT(60) DEF AcquirePermit, producerVars
  <2>2. Releasing' = Releasing /\ Alive' = Alive /\ Busy' = Busy
    BY <2>1, <1>moved
  <2>3. QED  BY <1>0, <1>2, <2>1, <2>2 DEF Counters, AcquirePermit, queueVars, counterVars
<1>3. CASE Leave(w)
  <2>1. wpc[w] = "leave" /\ WGoto(w, "gone") /\ UNCHANGED ppc
    BY <1>3, ZenonT(60) DEF Leave, producerVars
  <2>2. Releasing' = Releasing /\ Alive' = Alive - 1 /\ Busy' = Busy
    BY <2>1, <1>moved
  <2>3. QED  BY <1>0, <1>3, <2>1, <2>2 DEF Counters, Leave, Types, queueVars
<1>4. CASE DequeueTask(w)
  <2>1. wpc[w] = "dequeue" /\ WGoto(w, "release") /\ UNCHANGED ppc
    BY <1>4, ZenonT(60) DEF DequeueTask, producerVars
  <2>2. Releasing' = Releasing + 1 /\ Alive' = Alive /\ Busy' = Busy
    BY <2>1, <1>moved
  <2>3. QED  BY <1>0, <1>4, <2>1, <2>2 DEF Counters, DequeueTask, Types, counterVars
<1>5. CASE ReleaseCell(w)
  <2>1. wpc[w] = "release" /\ WGoto(w, "uncount") /\ UNCHANGED ppc
    BY <1>5, ZenonT(60) DEF ReleaseCell, producerVars
  <2>2. Releasing' = Releasing /\ Alive' = Alive /\ Busy' = Busy
    BY <2>1, <1>moved
  <2>3. QED  BY <1>0, <1>5, <2>1, <2>2 DEF Counters, ReleaseCell, counterVars
<1>6. CASE UncountPending(w)
  <2>1. wpc[w] = "uncount" /\ WGoto(w, "busy") /\ UNCHANGED ppc
    BY <1>6, ZenonT(60) DEF UncountPending, producerVars
  <2>2. Releasing' = Releasing - 1 /\ Alive' = Alive /\ Busy' = Busy
    BY <2>1, <1>moved
  <2>3. QED  BY <1>0, <1>6, <2>1, <2>2 DEF Counters, UncountPending, Types, queueVars
<1>7. CASE CountBusy(w)
  <2>1. wpc[w] = "busy" /\ WGoto(w, "exec") /\ UNCHANGED ppc
    BY <1>7, ZenonT(60) DEF CountBusy, producerVars
  <2>2. Releasing' = Releasing /\ Alive' = Alive /\ Busy' = Busy + 1
    BY <2>1, <1>moved
  <2>3. QED  BY <1>0, <1>7, <2>1, <2>2 DEF Counters, CountBusy, Types, queueVars
<1>8. CASE Execute(w)
  <2>1. wpc[w] = "exec" /\ WGoto(w, "top") /\ UNCHANGED ppc
    BY <1>8, ZenonT(60) DEF Execute, producerVars
  <2>2. Releasing' = Releasing /\ Alive' = Alive /\ Busy' = Busy - 1
    BY <2>1, <1>moved
  <2>3. QED  BY <1>0, <1>8, <2>1, <2>2 DEF Counters, Execute, Types, queueVars
<1>9. QED  BY <1>1, <1>2, <1>3, <1>4, <1>5, <1>6, <1>7, <1>8, ZenonT(60) DEF WorkerStep, QuietWorker

-----------------------------------------------------------------------------
(***************************************************************************)
(* The ring.  The positions from m_dequeue_pos up to m_enqueue_pos are     *)
(* taken, the ones after that up to a round later are free; the sequence   *)
(* number of a cell says which, but for the cells a thread is about to     *)
(* publish or to release.                                                  *)
(***************************************************************************)
Taken == m_dequeue_pos..(m_enqueue_pos - 1)
Free == m_enqueue_pos..(m_dequeue_pos + Capacity - 1)

Claims ==
    \A p \in PAt({"publish"}) :
        /\ ppos[p] \in Taken
        /\ sequence[Cell(ppos[p])] = ppos[p]
        /\ \A q \in PAt({"publish"}) : ppos[q] = ppos[p] => q = p

Releases ==
    \A w \in WAt({"release"}) :
        /\ wpos[w] < m_dequeue_pos /\ m_enqueue_pos <= wpos[w] + Capacity
        /\ sequence[Cell(wpos[w])] = wpos[w] + 1
        /\ \A v \in WAt({"release"}) : wpos[v] = wpos[w] => v = w

Ring ==
    /\ m_dequeue_pos <= m_enqueue_pos /\ m_enqueue_pos <= m_dequeue_pos + Capacity
    /\ Claims
    /\ Releases
    /\ \A x \in Taken : sequence[Cell(x)] = x + 1 \/ \E p \in PAt({"publish"}) : ppos[p] = x
    /\ \A x \in Free : sequence[Cell(x)] = x \/ \E w \in WAt({"release"}) : wpos[w] + Capacity = x

(***************************************************************************)
(* Where a submitted task is: with the producer that offers it, at one     *)
(* position of the queue, with one worker or done.                         *)
(***************************************************************************)
Executing == WAt({"release", "uncount", "busy", "exec"})
Running == {current[w] : w \in Executing}

Offered ==
    \A p \in PAt({"claim"}) :
        /\ arg[p] \in Tasks \cap submitted
        /\ arg[p] \notin Running \cup done
        /\ \A x \in Taken : TaskAt(x) # arg[p]
        /\ \A q \in PAt({"claim"}) : arg[q] = arg[p] => q = p

Waiting ==
    \A x \in Taken :
        /\ TaskAt(x) \in Tasks \cap submitted
        /\ TaskAt(x) \notin Running \cup done
        /\ \A y \in Taken : TaskAt(y) = TaskAt(x) => y = x

Started ==
    \A w \in Executing :
        /\ current[w] \in Tasks \cap submitted
        /\ current[w] \notin done
        /\ \A v \in Executing : current[v] = current[w] => v = w

OnePlace == Offered /\ Waiting /\ Started /\ done \subseteq submitted

-----------------------------------------------------------------------------
(***************************************************************************)
(* Positions and cells                                                     *)
(***************************************************************************)

LEMMA Quotient ==
    ASSUME NEW x \in Nat
    PROVE  x = Capacity * (x \div Capacity) + (x % Capacity) /\ x \div Capacity \in Int
  BY PoolAssumption

LEMMA AtLeastOnce == ASSUME NEW k \in Int, k >= 1 PROVE Capacity * k >= Capacity
  BY PoolAssumption

LEMMA NeverPositive == ASSUME NEW k \in Int, k <= 0 PROVE Capacity * k <= 0
  BY PoolAssumption

LEMMA Distributes == ASSUME NEW k \in Int, NEW m \in Int PROVE Capacity * k - Capacity * m = Capacity * (k - m)
  BY PoolAssumption

\* Two positions less than a round apart have different cells ...
LEMMA CellsDiffer ==
    ASSUME NEW x \in Nat, NEW y \in Nat, x < y, y < x + Capacity PROVE Cell(x) # Cell(y)
<1> SUFFICES ASSUME x % Capacity = y % Capacity PROVE FALSE
  BY ZenonT(60) DEF Cell
<1> DEFINE k == x \div Capacity
           m == y \div Capacity
           r == x % Capacity
<1>1. x = Capacity * k + r /\ y = Capacity * m + r /\ k \in Int /\ m \in Int
  BY Quotient, ZenonT(60)
<1>2. r \in Int /\ Capacity \in Nat /\ Capacity * k \in Int /\ Capacity * m \in Int
  BY <1>1, PoolAssumption
<1> HIDE DEF k, m, r
<1>3. Capacity * m - Capacity * k = y - x
  BY <1>1, <1>2
<1>4. Capacity * (m - k) = y - x
  BY <1>1, <1>3, Distributes, ZenonT(60)
<1>5. CASE m - k >= 1
  BY <1>1, <1>2, <1>4, <1>5, AtLeastOnce
<1>6. CASE m - k <= 0
  BY <1>1, <1>2, <1>4, <1>6, NeverPositive
<1>7. QED  BY <1>1, <1>5, <1>6

\* ... and a round later the cell is the same.
LEMMA CellRound == ASSUME NEW x \in Nat PROVE Cell(x + Capacity) = Cell(x)
<1> DEFINE y == x + Capacity
           k == x \div Capacity
           m == y \div Capacity
           r == x % Capacity
           s == y % Capacity
<1>1. y \in Nat /\ Capacity \in Nat
  BY PoolAssumption
<1>2. r \in 0..(Capacity - 1) /\ s \in 0..(Capacity - 1)
  BY <1>1, CellType, ZenonT(60) DEF Cell
<1>3. x = Capacity * k + r /\ k \in Int
  BY Quotient, ZenonT(60)
<1>4. y = Capacity * m + s /\ m \in Int
  BY <1>1, Quotient, ZenonT(60)
<1>5. y = x + Capacity
  BY ZenonT(60)
<1> HIDE DEF y, k, m, r, s
<1>6. Capacity * k \in Int /\ Capacity * m \in Int
  BY <1>1, <1>3, <1>4
<1>7. Capacity * m - Capacity * k = Capacity * (m - k)
  BY <1>3, <1>4, Distributes, ZenonT(60)
<1>8. Capacity * (m - k) = Capacity + r - s
  BY <1>1, <1>2, <1>3, <1>4, <1>5, <1>6, <1>7
<1>9. CASE m - k <= 0
  <2>1. Capacity * (m - k) <= 0
    BY <1>3, <1>4, <1>9, NeverPositive
  <2>2. QED  BY <1>1, <1>2, <1>8, <2>1
<1>10. CASE m - k = 1
  <2>1. Capacity * (m - k) = Capacity
    BY <1>1, <1>10
  <2>2. r = s
    BY <1>1, <1>2, <1>8, <2>1
  <2>3. QED  BY <2>2, ZenonT(60) DEF Cell, r, s, y
<1>11. CASE m - k >= 2
  <2>1. Capacity * (m - k - 1) >= Capacity
    BY <1>3, <1>4, <1>11, AtLeastOnce
  <2>2. Capacity * (m - k) - Capacity * 1 = Capacity * ((m - k) - 1)
    BY <1>3, <1>4, Distributes
  <2>3. Capacity * 1 = Capacity
    BY <1>1
  <2>4. QED  BY <1>1, <1>2, <1>8, <2>1, <2>2, <2>3
<1>12. QED  BY <1>3, <1>4, <1>9, <1>10, <1>11

LEMMA CellsApart ==
    ASSUME NEW x \in Nat, NEW y \in Nat, x # y, y < x + Capacity, x < y + Capacity
    PROVE  Cell(x) # Cell(y)
<1>1. CASE x < y
  BY <1>1, CellsDiffer, ZenonT(60)
<1>2. CASE y < x
  BY <1>2, CellsDiffer, ZenonT(60)
<1>3. QED  BY <1>1, <1>2

-----------------------------------------------------------------------------
(***************************************************************************)
(* The steps of the ring                                                   *)
(***************************************************************************)

LEMMA RingInit == Init => Ring
<1> SUFFICES ASSUME Init PROVE Ring
  OBVIOUS
<1>1. PAt({"publish"}) = {} /\ WAt({"release"}) = {}
  BY DEF Init, PAt, WAt
<1>2. Taken = {} /\ Free = 0..(Capacity - 1)
  BY PoolAssumption DEF Init, Taken, Free
<1>3. ASSUME NEW x \in 0..(Capacity - 1) PROVE sequence[Cell(x)] = x
  <2>1. x % Capacity = x
    BY PoolAssumption
  <2>2. QED  BY <2>1, ZenonT(60) DEF Init, Cell
<1>4. Claims /\ Releases
  BY <1>1, ZenonT(60) DEF Claims, Releases
<1>5. m_dequeue_pos <= m_enqueue_pos /\ m_enqueue_pos <= m_dequeue_pos + Capacity
  BY PoolAssumption DEF Init
<1>6. QED  BY <1>2, <1>3, <1>4, <1>5, ZenonT(60) DEF Ring

\* What every step leaves alone that neither claims, publishes, takes nor
\* releases a cell.
RingFrame ==
    /\ UNCHANGED queueVars
    /\ PAt({"publish"})' = PAt({"publish"}) /\ WAt({"release"})' = WAt({"release"})
    /\ \A p \in PAt({"publish"}) : ppos'[p] = ppos[p] /\ arg'[p] = arg[p]
    /\ \A w \in WAt({"release"}) : wpos'[w] = wpos[w]

LEMMA RingKept == ASSUME Ring, RingFrame PROVE Ring'
<1>0. UNCHANGED <<m_enqueue_pos, m_dequeue_pos, sequence>>
  BY ZenonT(60) DEF RingFrame, queueVars
<1>1. Taken' = Taken /\ Free' = Free
  BY <1>0, ZenonT(60) DEF Taken, Free
<1>2. Claims'
  BY <1>0, <1>1 DEF Ring, RingFrame, Claims
<1>3. Releases'
  BY <1>0, <1>1 DEF Ring, RingFrame, Releases
<1>4. ASSUME NEW x \in Taken'
      PROVE  sequence'[Cell(x)] = x + 1 \/ \E p \in PAt({"publish"})' : ppos'[p] = x
  <2>1. sequence[Cell(x)] = x + 1 \/ \E p \in PAt({"publish"}) : ppos[p] = x
    BY <1>1, ZenonT(60) DEF Ring
  <2>2. QED  BY <1>0, <2>1, ZenonT(60) DEF RingFrame
<1>5. ASSUME NEW x \in Free'
      PROVE  sequence'[Cell(x)] = x \/ \E w \in WAt({"release"})' : wpos'[w] + Capacity = x
  <2>1. sequence[Cell(x)] = x \/ \E w \in WAt({"release"}) : wpos[w] + Capacity = x
    BY <1>1, ZenonT(60) DEF Ring
  <2>2. QED  BY <1>0, <2>1, ZenonT(60) DEF RingFrame
<1>6. QED  BY <1>0, <1>2, <1>3, <1>4, <1>5, ZenonT(60) DEF Ring

\* The cell at m_enqueue_pos is free when its sequence number says so ...
LEMMA ClaimFree ==
    ASSUME Types, Ring, sequence[Cell(m_enqueue_pos)] = m_enqueue_pos
    PROVE  /\ m_enqueue_pos < m_dequeue_pos + Capacity
           /\ \A w \in WAt({"release"}) : m_enqueue_pos < wpos[w] + Capacity
<1> USE PoolAssumption
<1>1. CASE m_enqueue_pos = m_dequeue_pos + Capacity
  <2>1. Cell(m_enqueue_pos) = Cell(m_dequeue_pos)
    BY <1>1, CellRound, ZenonT(60) DEF Types
  <2>2. m_dequeue_pos \in Taken
    BY <1>1 DEF Types, Taken
  <2>3. sequence[Cell(m_dequeue_pos)] = m_dequeue_pos + 1 \/ sequence[Cell(m_dequeue_pos)] = m_dequeue_pos
    BY <2>2, ZenonT(60) DEF Ring, Claims
  <2>4. QED  BY <1>1, <2>1, <2>3 DEF Types
<1>2. ASSUME NEW w \in WAt({"release"}), m_enqueue_pos = wpos[w] + Capacity PROVE FALSE
  <2>1. wpos[w] \in Nat
    BY ZenonT(60) DEF Types, WAt
  <2>2. Cell(m_enqueue_pos) = Cell(wpos[w])
    BY <1>2, <2>1, CellRound, ZenonT(60)
  <2>3. sequence[Cell(wpos[w])] = wpos[w] + 1
    BY ZenonT(60) DEF Ring, Releases
  <2>4. QED  BY <1>2, <2>1, <2>2, <2>3 DEF Types
<1>3. ASSUME NEW w \in WAt({"release"}) PROVE m_enqueue_pos < wpos[w] + Capacity
  <2>1. wpos[w] \in Nat
    BY ZenonT(60) DEF Types, WAt
  <2>2. m_enqueue_pos <= wpos[w] + Capacity /\ m_enqueue_pos # wpos[w] + Capacity
    BY <1>2, ZenonT(60) DEF Ring, Releases
  <2>3. m_enqueue_pos \in Nat /\ Capacity \in Nat
    BY ZenonT(60) DEF Types
  <2>4. QED  BY <2>1, <2>2, <2>3
<1>4. m_enqueue_pos <= m_dequeue_pos + Capacity
  BY ZenonT(60) DEF Ring
<1>5. QED  BY <1>1, <1>3, <1>4 DEF Types

LEMMA ClaimRing ==
    ASSUME Types, Ring, NEW p \in Producers, ClaimCell(p)
    PROVE  Ring'
<1> USE PoolAssumption
<1>1. /\ m_enqueue_pos < m_dequeue_pos + Capacity
      /\ \A w \in WAt({"release"}) : m_enqueue_pos < wpos[w] + Capacity
  BY ClaimFree, ZenonT(60) DEF ClaimCell
<1>2. /\ PAt({"publish"})' = PAt({"publish"}) \cup {p} /\ p \notin PAt({"publish"})
      /\ WAt({"release"})' = WAt({"release"}) /\ UNCHANGED <<sequence, m_dequeue_pos, wpos>>
  BY DEF Types, ClaimCell, PGoto, PAt, WAt, workerVars
<1>3. ppos'[p] = m_enqueue_pos /\ \A q \in PAt({"publish"}) : ppos'[q] = ppos[q]
  BY <1>2 DEF Types, ClaimCell, PAt
<1>4. Taken' = Taken \cup {m_enqueue_pos} /\ m_enqueue_pos \notin Taken /\ Free = Free' \cup {m_enqueue_pos}
  BY <1>1 DEF Types, Ring, ClaimCell, Taken, Free
<1>5. m_enqueue_pos' = m_enqueue_pos + 1 /\ sequence[Cell(m_enqueue_pos)] = m_enqueue_pos
  BY ZenonT(60) DEF ClaimCell
<1>6. Claims'
  BY <1>2, <1>3, <1>4, <1>5 DEF Claims, Ring
<1>7. Releases'
  <2>1. ASSUME NEW w \in WAt({"release"}) PROVE m_enqueue_pos + 1 <= wpos[w] + Capacity
    <3>1. wpos[w] \in Nat /\ m_enqueue_pos < wpos[w] + Capacity
      BY <1>1, ZenonT(60) DEF Types, WAt
    <3>2. QED  BY <3>1 DEF Types
  <2>2. QED  BY <1>2, <1>5, <2>1, ZenonT(60) DEF Ring, Releases
<1>8. \A x \in Taken' : sequence'[Cell(x)] = x + 1 \/ \E q \in PAt({"publish"})' : ppos'[q] = x
  BY <1>2, <1>3, <1>4, ZenonT(60) DEF Ring
<1>9. \A x \in Free' : sequence'[Cell(x)] = x \/ \E w \in WAt({"release"})' : wpos'[w] + Capacity = x
  BY <1>2, <1>4, ZenonT(60) DEF Ring
<1>10. m_dequeue_pos' <= m_enqueue_pos' /\ m_enqueue_pos' <= m_dequeue_pos' + Capacity
  BY <1>1, <1>2, <1>5 DEF Types, Ring
<1>11. QED  BY <1>6, <1>7, <1>8, <1>9, <1>10, ZenonT(60) DEF Ring

\* Publishing changes one cell, and no other position that anybody looks at
\* has that cell.
LEMMA PublishRing ==
    ASSUME Types, Ring, NEW p \in Producers, PublishCell(p)
    PROVE  Ring'
<1> USE PoolAssumption
<1> DEFINE a == ppos[p]
<1>1. p \in PAt({"publish"})
  BY ZenonT(60) DEF PublishCell, PAt
<1>2. /\ a \in Nat /\ m_dequeue_pos <= a /\ a < m_enqueue_pos
      /\ m_enqueue_pos \in Nat /\ m_dequeue_pos \in Nat /\ m_enqueue_pos <= m_dequeue_pos + Capacity
  BY <1>1 DEF Types, Ring, Claims, Taken
<1>3. /\ PAt({"publish"})' = PAt({"publish"}) \ {p} /\ WAt({"release"})' = WAt({"release"})
      /\ UNCHANGED <<m_enqueue_pos, m_dequeue_pos, ppos, wpos>>
  BY DEF Types, PublishCell, PGoto, PAt, WAt, workerVars
<1>4. Taken' = Taken /\ Free' = Free
  BY <1>3, ZenonT(60) DEF Taken, Free
<1>5. Cell(a) \in 0..(Capacity - 1)
  BY <1>2, CellType, ZenonT(60)
<1>6. sequence' = [sequence EXCEPT ![Cell(a)] = a + 1]
  BY ZenonT(60) DEF PublishCell
<1>7. sequence'[Cell(a)] = a + 1
  BY <1>5, <1>6 DEF Types
<1> HIDE DEF a
<1>8. ASSUME NEW x \in Nat, x # a, a < x + Capacity, x < a + Capacity
      PROVE  sequence'[Cell(x)] = sequence[Cell(x)]
  <2>1. Cell(x) # Cell(a) /\ Cell(x) \in 0..(Capacity - 1)
    BY <1>2, <1>8, CellsApart, CellType, ZenonT(60)
  <2>2. QED  BY <1>6, <2>1 DEF Types
<1>9. ASSUME NEW x \in Taken, x # a PROVE sequence'[Cell(x)] = sequence[Cell(x)]
  <2>1. x \in Nat /\ a < x + Capacity /\ x < a + Capacity
    BY <1>2 DEF Taken
  <2>2. QED  BY <1>8, <1>9, <2>1, ZenonT(60)
<1>10. ASSUME NEW x \in Free PROVE sequence'[Cell(x)] = sequence[Cell(x)]
  <2>1. x \in Nat /\ x # a /\ a < x + Capacity /\ x < a + Capacity
    BY <1>2 DEF Free
  <2>2. QED  BY <1>8, <2>1, ZenonT(60)
<1>11. ASSUME NEW w \in WAt({"release"}) PROVE sequence'[Cell(wpos[w])] = sequence[Cell(wpos[w])]
  <2>1. wpos[w] \in Nat /\ wpos[w] < m_dequeue_pos /\ m_enqueue_pos <= wpos[w] + Capacity
    BY ZenonT(60) DEF Types, Ring, Releases, WAt
  <2>2. wpos[w] # a /\ a < wpos[w] + Capacity /\ wpos[w] < a + Capacity
    BY <1>2, <2>1
  <2>3. QED  BY <1>8, <2>1, <2>2, ZenonT(60)
<1>12. ASSUME NEW q \in PAt({"publish"}), q # p
       PROVE  ppos[q] # a /\ sequence'[Cell(ppos[q])] = sequence[Cell(ppos[q])]
  <2>1. ppos[q] # a /\ ppos[q] \in Taken
    BY <1>1, <1>12, ZenonT(60) DEF Ring, Claims, a
  <2>2. QED  BY <1>9, <2>1, ZenonT(60)
<1>13. Claims'
  BY <1>3, <1>4, <1>12 DEF Ring, Claims
<1>14. Releases'
  BY <1>3, <1>11 DEF Ring, Releases
<1>15. \A x \in Taken' : sequence'[Cell(x)] = x + 1 \/ \E q \in PAt({"publish"})' : ppos'[q] = x
  <2> SUFFICES ASSUME NEW x \in Taken, x # a
               PROVE  sequence'[Cell(x)] = x + 1 \/ \E q \in PAt({"publish"})' : ppos'[q] = x
    BY <1>4, <1>7, ZenonT(60)
  <2>1. CASE sequence[Cell(x)] = x + 1
    BY <1>9, <2>1, ZenonT(60)
  <2>2. ASSUME NEW q \in PAt({"publish"}), ppos[q] = x PROVE q \in PAt({"publish"})' /\ ppos'[q] = x
    BY <1>3, <2>2, ZenonT(60) DEF a
  <2>3. QED  BY <2>1, <2>2, ZenonT(60) DEF Ring
<1>16. \A x \in Free' : sequence'[Cell(x)] = x \/ \E w \in WAt({"release"})' : wpos'[w] + Capacity = x
  BY <1>3, <1>4, <1>10 DEF Ring
<1>17. QED  BY <1>3, <1>13, <1>14, <1>15, <1>16, ZenonT(60) DEF Ring

\* ... and the one at m_dequeue_pos is published.
LEMMA TakenFirst ==
    ASSUME Types, Ring, sequence[Cell(m_dequeue_pos)] = m_dequeue_pos + 1
    PROVE  /\ m_dequeue_pos < m_enqueue_pos
           /\ \A p \in PAt({"publish"}) : ppos[p] # m_dequeue_pos
<1> USE PoolAssumption
<1>1. CASE m_dequeue_pos = m_enqueue_pos
  <2>1. m_dequeue_pos \in Free
    BY <1>1 DEF Types, Free
  <2>2. sequence[Cell(m_dequeue_pos)] # m_dequeue_pos
    BY DEF Types
  <2>3. PICK w \in WAt({"release"}) : wpos[w] + Capacity = m_dequeue_pos
    BY <2>1, <2>2, ZenonT(60) DEF Ring
  <2>4. wpos[w] \in Nat /\ sequence[Cell(wpos[w])] = wpos[w] + 1
    BY ZenonT(60) DEF Types, WAt, Ring, Releases
  <2>5. Cell(m_dequeue_pos) = Cell(wpos[w])
    BY <2>3, <2>4, CellRound, ZenonT(60)
  <2>6. QED  BY <2>3, <2>4, <2>5 DEF Types
<1>2. m_dequeue_pos <= m_enqueue_pos
  BY ZenonT(60) DEF Ring
<1>3. ASSUME NEW p \in PAt({"publish"}) PROVE ppos[p] # m_dequeue_pos
  <2>1. sequence[Cell(ppos[p])] = ppos[p]
    BY ZenonT(60) DEF Ring, Claims
  <2>2. QED  BY <2>1 DEF Types
<1>4. QED  BY <1>1, <1>2, <1>3 DEF Types

LEMMA TakeRing ==
    ASSUME Types, Ring, NEW w \in Workers, DequeueTask(w)
    PROVE  Ring'
<1> USE PoolAssumption
<1>1. /\ m_dequeue_pos < m_enqueue_pos
      /\ \A p \in PAt({"publish"}) : ppos[p] # m_dequeue_pos
  BY TakenFirst, ZenonT(60) DEF DequeueTask
<1>2. /\ WAt({"release"})' = WAt({"release"}) \cup {w} /\ w \notin WAt({"release"})
      /\ PAt({"publish"})' = PAt({"publish"}) /\ UNCHANGED <<sequence, m_enqueue_pos, ppos>>
  BY DEF Types, DequeueTask, WGoto, PAt, WAt, producerVars
<1>3. wpos'[w] = m_dequeue_pos /\ \A v \in WAt({"release"}) : wpos'[v] = wpos[v]
  BY <1>2 DEF Types, DequeueTask, WAt
<1>4. /\ Taken = Taken' \cup {m_dequeue_pos} /\ m_dequeue_pos \notin Taken'
      /\ Free' = Free \cup {m_dequeue_pos + Capacity}
  <2>1. /\ m_dequeue_pos \in Nat /\ m_enqueue_pos \in Nat /\ m_enqueue_pos <= m_dequeue_pos + Capacity
        /\ m_dequeue_pos' = m_dequeue_pos + 1 /\ m_enqueue_pos' = m_enqueue_pos
    BY ZenonT(60) DEF Types, Ring, DequeueTask
  <2>2. QED  BY <1>1, <2>1 DEF Taken, Free
<1>5. m_dequeue_pos' = m_dequeue_pos + 1 /\ sequence[Cell(m_dequeue_pos)] = m_dequeue_pos + 1
  BY ZenonT(60) DEF DequeueTask
<1>6. Claims'
  BY <1>1, <1>2, <1>4 DEF Claims, Ring
<1>7. Releases'
  <2>1. ASSUME NEW v \in WAt({"release"}) PROVE wpos[v] # m_dequeue_pos /\ wpos[v] < m_dequeue_pos + 1
    <3>1. wpos[v] \in Nat /\ wpos[v] < m_dequeue_pos
      BY ZenonT(60) DEF Types, WAt, Ring, Releases
    <3>2. QED  BY <3>1 DEF Types
  <2>2. m_dequeue_pos < m_dequeue_pos + 1 /\ m_enqueue_pos <= m_dequeue_pos + Capacity
    BY DEF Types, Ring
  <2>3. QED  BY <1>2, <1>3, <1>5, <2>1, <2>2 DEF Ring, Releases
<1>8. \A x \in Taken' : sequence'[Cell(x)] = x + 1 \/ \E q \in PAt({"publish"})' : ppos'[q] = x
  BY <1>2, <1>4, ZenonT(60) DEF Ring
<1>9. \A x \in Free' : sequence'[Cell(x)] = x \/ \E v \in WAt({"release"})' : wpos'[v] + Capacity = x
  BY <1>2, <1>3, <1>4, ZenonT(60) DEF Ring
<1>10. m_dequeue_pos' <= m_enqueue_pos' /\ m_enqueue_pos' <= m_dequeue_pos' + Capacity
  BY <1>1, <1>2, <1>5 DEF Types, Ring
<1>11. QED  BY <1>6, <1>7, <1>8, <1>9, <1>10, ZenonT(60) DEF Ring

LEMMA ReleaseRing ==
    ASSUME Types, Ring, NEW w \in Workers, ReleaseCell(w)
    PROVE  Ring'
<1> USE PoolAssumption
<1> DEFINE a == wpos[w]
<1>1. w \in WAt({"release"})
  BY ZenonT(60) DEF ReleaseCell, WAt
<1>2. /\ a \in Nat /\ a < m_dequeue_pos /\ m_enqueue_pos <= a + Capacity
      /\ m_enqueue_pos \in Nat /\ m_dequeue_pos \in Nat
      /\ m_dequeue_pos <= m_enqueue_pos /\ m_enqueue_pos <= m_dequeue_pos + Capacity
  BY <1>1, ZenonT(60) DEF Types, Ring, Releases
<1>3. /\ WAt({"release"})' = WAt({"release"}) \ {w} /\ PAt({"publish"})' = PAt({"publish"})
      /\ UNCHANGED <<m_enqueue_pos, m_dequeue_pos, ppos>>
      /\ \A v \in WAt({"release"}) \ {w} : wpos'[v] = wpos[v]
  <2>1. WAt({"release"})' = WAt({"release"}) \ {w} /\ \A v \in WAt({"release"}) \ {w} : wpos'[v] = wpos[v]
    BY DEF Types, ReleaseCell, WGoto, WAt
  <2>2. QED  BY <2>1, ZenonT(60) DEF ReleaseCell, PAt, producerVars
<1>4. Taken' = Taken /\ Free' = Free
  BY <1>3, ZenonT(60) DEF Taken, Free
<1>5. Cell(a) \in 0..(Capacity - 1) /\ Cell(a + Capacity) = Cell(a)
  BY <1>2, CellType, CellRound, ZenonT(60)
<1>6. sequence' = [sequence EXCEPT ![Cell(a)] = a + Capacity]
  BY ZenonT(60) DEF ReleaseCell
<1>7. sequence'[Cell(a + Capacity)] = a + Capacity
  BY <1>5, <1>6 DEF Types
<1> HIDE DEF a
<1>8. ASSUME NEW x \in Nat, NEW y \in Nat, Cell(y) = Cell(a), x # y, y < x + Capacity, x < y + Capacity
      PROVE  sequence'[Cell(x)] = sequence[Cell(x)]
  <2>1. Cell(x) # Cell(a) /\ Cell(x) \in 0..(Capacity - 1)
    BY <1>8, CellsApart, CellType, ZenonT(60)
  <2>2. QED  BY <1>6, <2>1 DEF Types
<1>9. ASSUME NEW x \in Taken PROVE sequence'[Cell(x)] = sequence[Cell(x)]
  <2>1. x \in Nat /\ x # a /\ a < x + Capacity /\ x < a + Capacity
    BY <1>2 DEF Taken
  <2>2. QED  BY <1>2, <1>8, <2>1, ZenonT(60)
<1>10. ASSUME NEW x \in Free, x # a + Capacity PROVE sequence'[Cell(x)] = sequence[Cell(x)]
  <2>1. x \in Nat /\ a + Capacity \in Nat /\ a + Capacity < x + Capacity /\ x < a + Capacity + Capacity
    BY <1>2 DEF Free
  <2>2. QED  BY <1>5, <1>8, <1>10, <2>1, ZenonT(60)
<1>11. ASSUME NEW v \in WAt({"release"}), v # w
       PROVE  wpos[v] # a /\ sequence'[Cell(wpos[v])] = sequence[Cell(wpos[v])]
  <2>1. /\ wpos[v] \in Nat /\ wpos[v] < m_dequeue_pos /\ m_enqueue_pos <= wpos[v] + Capacity
        /\ wpos[v] # a
    BY <1>1, <1>11, ZenonT(60) DEF Types, Ring, Releases, WAt, a
  <2>2. a < wpos[v] + Capacity /\ wpos[v] < a + Capacity
    BY <1>2, <2>1
  <2>3. QED  BY <1>2, <1>8, <2>1, <2>2, ZenonT(60)
<1>12. Claims'
  BY <1>3, <1>4, <1>9 DEF Ring, Claims
<1>13. Releases'
  BY <1>3, <1>11 DEF Ring, Releases
<1>14. \A x \in Taken' : sequence'[Cell(x)] = x + 1 \/ \E q \in PAt({"publish"})' : ppos'[q] = x
  BY <1>3, <1>4, <1>9 DEF Ring
<1>15. \A x \in Free' : sequence'[Cell(x)] = x \/ \E v \in WAt({"release"})' : wpos'[v] + Capacity = x
  <2> SUFFICES ASSUME NEW x \in Free, x # a + Capacity
               PROVE  sequence'[Cell(x)] = x \/ \E v \in WAt({"release"})' : wpos'[v] + Capacity = x
    BY <1>4, <1>7, ZenonT(60)
  <2>1. CASE sequence[Cell(x)] = x
    BY <1>10, <2>1, ZenonT(60)
  <2>2. ASSUME NEW v \in WAt({"release"}), wpos[v] + Capacity = x
        PROVE  v \in WAt({"release"})' /\ wpos'[v] + Capacity = x
    BY <1>3, <2>2, ZenonT(60) DEF a
  <2>3. QED  BY <2>1, <2>2, ZenonT(60) DEF Ring
<1>16. QED  BY <1>2, <1>3, <1>12, <1>13, <1>14, <1>15, ZenonT(60) DEF Ring

-----------------------------------------------------------------------------
(***************************************************************************)
(* The steps that leave the ring and the places of the tasks alone         *)
(***************************************************************************)

PlaceFrame ==
    /\ RingFrame
    /\ Executing' = Executing /\ \A w \in Executing : current'[w] = current[w]
    /\ \A p \in PAt({"claim"})' : p \in PAt({"claim"}) /\ arg'[p] = arg[p]
    /\ UNCHANGED <<submitted, done>>

\* A producer step other than the submission and the two of the queue moves one
\* producer between points that are neither "claim" nor "publish" afterwards.
CallMoves(p) ==
    /\ ppc[p] # "publish" /\ ppc'[p] \notin {"claim", "publish"}
    /\ \A q \in Producers : q # p => ppc'[q] = ppc[q] /\ ppos'[q] = ppos[q] /\ arg'[q] = arg[q]
    /\ UNCHANGED <<queueVars, current, wpos, submitted, done>>

LEMMA CallsMove ==
    ASSUME Types, NEW p \in Producers, ProducerStep(p), ~ClaimCell(p), ~PublishCell(p)
    PROVE  CallMoves(p)
<1> USE DEF CallMoves, PGoto
<1>1. CASE QueueFull(p)
  BY <1>1 DEF Types, QueueFull, EndCall, workerVars, historyVars
<1>2. CASE CountPending(p)
  BY <1>2 DEF Types, CountPending, workerVars, historyVars
<1>3. CASE LookPending(p)
  BY <1>3 DEF Types, LookPending, workerVars, historyVars
<1>4. CASE LookThreads(p)
  BY <1>4 DEF Types, LookThreads, workerVars, historyVars
<1>5. CASE LookBusy(p)
  BY <1>5 DEF Types, LookBusy, workerVars, historyVars
<1>6. CASE DecideGrow(p)
  BY <1>6 DEF Types, DecideGrow, workerVars, historyVars
<1>7. CASE SpawnWorker(p)
  BY <1>7 DEF Types, SpawnWorker, workerVars, historyVars
<1>8. CASE SpawnFails(p)
  BY <1>8 DEF Types, SpawnFails, workerVars, historyVars
<1>9. CASE CountWorker(p)
  BY <1>9 DEF Types, CountWorker, workerVars, historyVars
<1>10. CASE PostTask(p)
  BY <1>10 DEF Types, PostTask, EndCall, workerVars, historyVars
<1>11. QED  BY <1>1, <1>2, <1>3, <1>4, <1>5, <1>6, <1>7, <1>8, <1>9, <1>10, ZenonT(60) DEF ProducerStep

LEMMA SpawnKeeps ==
    ASSUME Types, NEW p \in Producers, SpawnWorker(p) \/ UNCHANGED wpc
    PROVE  WAt({"release"})' = WAt({"release"}) /\ Executing' = Executing
<1>1. CASE SpawnWorker(p)
  BY <1>1 DEF Types, SpawnWorker, WGoto, Live, WAt, Executing
<1>2. CASE UNCHANGED wpc
  BY <1>2, ZenonT(60) DEF WAt, Executing
<1>3. QED  BY <1>1, <1>2

LEMMA CallsKeep ==
    ASSUME Types, NEW p \in Producers, ProducerStep(p), ~ClaimCell(p), ~PublishCell(p)
    PROVE  PlaceFrame
<1>1. CallMoves(p)
  BY CallsMove, ZenonT(60)
<1>2. SpawnWorker(p) \/ UNCHANGED wpc
  BY ZenonT(60) DEF ProducerStep, QueueFull, CountPending, LookPending, LookThreads, LookBusy, DecideGrow,
                    SpawnFails, CountWorker, PostTask, workerVars
<1>3. WAt({"release"})' = WAt({"release"}) /\ Executing' = Executing
  BY <1>2, SpawnKeeps, ZenonT(60)
<1>4. /\ \A q \in PAt({"publish"}) : q # p
      /\ \A q \in PAt({"publish"})' : q # p
      /\ \A q \in PAt({"claim"})' : q # p
  BY <1>1, ZenonT(60) DEF CallMoves, PAt
<1>5. /\ PAt({"publish"})' = PAt({"publish"})
      /\ \A q \in PAt({"publish"}) : ppos'[q] = ppos[q] /\ arg'[q] = arg[q]
  BY <1>1, <1>4, ZenonT(60) DEF CallMoves, PAt
<1>6. \A q \in PAt({"claim"})' : q \in PAt({"claim"}) /\ arg'[q] = arg[q]
  BY <1>1, <1>4, ZenonT(60) DEF CallMoves, PAt
<1>7. QED  BY <1>1, <1>3, <1>5, <1>6, ZenonT(60) DEF PlaceFrame, RingFrame, CallMoves

\* A worker step other than taking, releasing and executing.
WorkMoves(w) ==
    /\ wpc[w] # "release" /\ wpc'[w] # "release"
    /\ wpc[w] \in {"uncount", "busy", "exec"} <=> wpc'[w] \in {"uncount", "busy", "exec"}
    /\ \A v \in Workers : v # w => wpc'[v] = wpc[v]
    /\ UNCHANGED <<queueVars, ppc, ppos, arg, current, wpos, submitted, done>>

LEMMA WorksMove ==
    ASSUME Types, NEW w \in Workers, WorkerStep(w) \/ Interrupted(w) \/ Timeout(w),
           ~DequeueTask(w), ~ReleaseCell(w), ~Execute(w)
    PROVE  WorkMoves(w)
<1> USE DEF WorkMoves, WGoto
<1>1. CASE QuietWorker(w)
  <2>1. PICK s \in QuietPCs : WorkerMoves(w, s)
    BY <1>1, QuietMoves, ZenonT(60)
  <2>2. wpc[w] \in QuietPCs
    BY <1>1, QuietMoves, ZenonT(60)
  <2>3. QED  BY <2>1, <2>2 DEF Types, WorkerMoves, QuietPCs, producerVars, historyVars
<1>2. CASE AcquirePermit(w)
  BY <1>2 DEF Types, AcquirePermit, producerVars, historyVars
<1>3. CASE Leave(w)
  BY <1>3 DEF Types, Leave, producerVars, historyVars
<1>4. CASE UncountPending(w)
  BY <1>4 DEF Types, UncountPending, producerVars, historyVars
<1>5. CASE CountBusy(w)
  BY <1>5 DEF Types, CountBusy, producerVars, historyVars
<1>6. QED  BY <1>1, <1>2, <1>3, <1>4, <1>5, ZenonT(60) DEF WorkerStep, QuietWorker

LEMMA WorksKeep ==
    ASSUME Types, NEW w \in Workers, WorkerStep(w) \/ Interrupted(w) \/ Timeout(w),
           ~DequeueTask(w), ~ReleaseCell(w), ~Execute(w)
    PROVE  PlaceFrame
<1>1. WorkMoves(w)
  BY WorksMove, ZenonT(60)
<1>2. WAt({"release"})' = WAt({"release"})
  BY <1>1, ZenonT(60) DEF WorkMoves, WAt
<1> DEFINE S == {"release", "uncount", "busy", "exec"}
<1>3. ASSUME NEW v \in Workers PROVE wpc'[v] \in S <=> wpc[v] \in S
  <2>1. CASE v = w
    BY <1>1, <2>1, ZenonT(60) DEF WorkMoves
  <2>2. CASE v # w
    <3>1. wpc'[v] = wpc[v]
      BY <1>1, <2>2, ZenonT(60) DEF WorkMoves
    <3>2. QED  BY <3>1, ZenonT(60)
  <2>3. QED  BY <2>1, <2>2, ZenonT(60)
<1> HIDE DEF S
<1>4. Executing' = Executing
  BY <1>3, ZenonT(60) DEF WAt, Executing, S
<1>5. PAt({"publish"})' = PAt({"publish"}) /\ PAt({"claim"})' = PAt({"claim"})
  BY <1>1, ZenonT(60) DEF WorkMoves, PAt
<1>6. QED  BY <1>1, <1>2, <1>4, <1>5, ZenonT(60) DEF PlaceFrame, RingFrame, WorkMoves

LEMMA DestructorKeeps == ASSUME DestructorFrame PROVE PlaceFrame
<1>1. UNCHANGED <<queueVars, ppc, ppos, arg, wpc, current, wpos, submitted, done>>
  BY ZenonT(60) DEF DestructorFrame, producerVars, workerVars, historyVars
<1>2. /\ PAt({"publish"})' = PAt({"publish"}) /\ PAt({"claim"})' = PAt({"claim"})
      /\ WAt({"release"})' = WAt({"release"}) /\ Executing' = Executing
  BY <1>1, ZenonT(60) DEF PAt, WAt, Executing
<1>3. QED  BY <1>1, <1>2, ZenonT(60) DEF PlaceFrame, RingFrame

-----------------------------------------------------------------------------
(***************************************************************************)
(* The task at a position                                                  *)
(***************************************************************************)

\* A position has the task of the producer that claimed it, or the payload of
\* its cell once that is published; before a step and after it.
LEMMA ClaimedTask ==
    ASSUME Claims, NEW p \in PAt({"publish"}), NEW x, ppos[p] = x
    PROVE  TaskAt(x) = arg[p]
<1>1. (CHOOSE q \in PAt({"publish"}) : ppos[q] = x) = p
  BY DEF Claims
<1>2. \E q \in PAt({"publish"}) : ppos[q] = x
  BY ZenonT(60)
<1>3. TaskAt(x) = arg[CHOOSE q \in PAt({"publish"}) : ppos[q] = x]
  BY <1>2, ZenonT(60) DEF TaskAt
<1>4. QED  BY <1>1, <1>3, ZenonT(60)

LEMMA ClaimedTaskNext ==
    ASSUME Claims', NEW p \in PAt({"publish"})', NEW x, ppos'[p] = x
    PROVE  TaskAt(x)' = arg'[p]
<1>1. (CHOOSE q \in PAt({"publish"})' : ppos'[q] = x) = p
  BY DEF Claims
<1>2. \E q \in PAt({"publish"})' : ppos'[q] = x
  BY ZenonT(60)
<1>3. TaskAt(x)' = arg'[CHOOSE q \in PAt({"publish"})' : ppos'[q] = x]
  BY <1>2, ZenonT(60) DEF TaskAt
<1>4. QED  BY <1>1, <1>3, ZenonT(60)

LEMMA PublishedTask ==
    ASSUME NEW x, \A q \in PAt({"publish"}) : ppos[q] # x
    PROVE  TaskAt(x) = payload[Cell(x)]
  BY ZenonT(60) DEF TaskAt

LEMMA PublishedTaskNext ==
    ASSUME NEW x, \A q \in PAt({"publish"})' : ppos'[q] # x
    PROVE  TaskAt(x)' = payload'[Cell(x)]
  BY ZenonT(60) DEF TaskAt

LEMMA TasksKept ==
    ASSUME Ring, Ring', RingFrame, NEW x
    PROVE  TaskAt(x)' = TaskAt(x)
<1>1. CASE \E p \in PAt({"publish"}) : ppos[p] = x
  <2>1. PICK p \in PAt({"publish"}) : ppos[p] = x
    BY <1>1
  <2>2. p \in PAt({"publish"})' /\ ppos'[p] = x /\ arg'[p] = arg[p]
    BY <2>1, ZenonT(60) DEF RingFrame
  <2>3. TaskAt(x) = arg[p]
    BY <2>1, ClaimedTask, ZenonT(60) DEF Ring
  <2>4. TaskAt(x)' = arg'[p]
    BY <2>2, ClaimedTaskNext, ZenonT(60) DEF Ring
  <2>5. QED  BY <2>2, <2>3, <2>4, ZenonT(60)
<1>2. CASE \A p \in PAt({"publish"}) : ppos[p] # x
  <2>1. \A p \in PAt({"publish"})' : ppos'[p] # x
    BY <1>2, ZenonT(60) DEF RingFrame
  <2>2. TaskAt(x) = payload[Cell(x)] /\ TaskAt(x)' = payload'[Cell(x)]
    BY <1>2, <2>1, PublishedTask, PublishedTaskNext, ZenonT(60)
  <2>3. QED  BY <2>2, ZenonT(60) DEF RingFrame, queueVars
<1>3. QED  BY <1>1, <1>2, ZenonT(60)

LEMMA TasksClaimed ==
    ASSUME Types, Ring, Ring', NEW p \in Producers, ClaimCell(p)
    PROVE  /\ \A x : x = m_enqueue_pos => TaskAt(x)' = arg[p]
           /\ \A x \in Taken : TaskAt(x)' = TaskAt(x)
<1>1. /\ PAt({"publish"})' = PAt({"publish"}) \cup {p} /\ p \notin PAt({"publish"})
      /\ UNCHANGED <<arg, payload>>
  BY DEF Types, ClaimCell, PGoto, PAt
<1>2. ppos'[p] = m_enqueue_pos /\ \A q \in PAt({"publish"}) : ppos'[q] = ppos[q]
  BY <1>1 DEF Types, ClaimCell, PAt
<1>3. ASSUME NEW x, x = m_enqueue_pos PROVE TaskAt(x)' = arg[p]
  <2>1. p \in PAt({"publish"})' /\ ppos'[p] = x
    BY <1>1, <1>2, <1>3, ZenonT(60)
  <2>2. TaskAt(x)' = arg'[p]
    BY <2>1, ClaimedTaskNext, ZenonT(60) DEF Ring
  <2>3. QED  BY <1>1, <2>2, ZenonT(60)
<1>4. ASSUME NEW x \in Taken PROVE TaskAt(x)' = TaskAt(x)
  <2>1. x # m_enqueue_pos
    BY DEF Types, Taken
  <2>2. CASE \E q \in PAt({"publish"}) : ppos[q] = x
    <3>1. PICK q \in PAt({"publish"}) : ppos[q] = x
      BY <2>2
    <3>2. q \in PAt({"publish"})' /\ ppos'[q] = x
      BY <1>1, <1>2, <3>1, ZenonT(60)
    <3>3. TaskAt(x) = arg[q]
      BY <3>1, ClaimedTask, ZenonT(60) DEF Ring
    <3>4. TaskAt(x)' = arg'[q]
      BY <3>2, ClaimedTaskNext, ZenonT(60) DEF Ring
    <3>5. QED  BY <1>1, <3>3, <3>4, ZenonT(60)
  <2>3. CASE \A q \in PAt({"publish"}) : ppos[q] # x
    <3>1. \A q \in PAt({"publish"})' : ppos'[q] # x
      BY <1>1, <1>2, <2>1, <2>3, ZenonT(60)
    <3>2. TaskAt(x) = payload[Cell(x)] /\ TaskAt(x)' = payload'[Cell(x)]
      BY <2>3, <3>1, PublishedTask, PublishedTaskNext, ZenonT(60)
    <3>3. QED  BY <1>1, <3>2, ZenonT(60)
  <2>4. QED  BY <2>2, <2>3, ZenonT(60)
<1>5. QED  BY <1>3, <1>4, ZenonT(60)

LEMMA TasksPublished ==
    ASSUME Types, Ring, Ring', NEW p \in Producers, PublishCell(p), NEW x \in Taken
    PROVE  TaskAt(x)' = TaskAt(x)
<1> USE PoolAssumption
<1>1. p \in PAt({"publish"}) /\ ppos[p] \in Taken
  BY ZenonT(60) DEF PublishCell, PAt, Ring, Claims
<1>2. PAt({"publish"})' = PAt({"publish"}) \ {p} /\ UNCHANGED <<ppos, arg>>
  BY DEF Types, PublishCell, PGoto, PAt
<1>3. ppos[p] \in Nat /\ Cell(ppos[p]) \in 0..(Capacity - 1) /\ x \in Nat /\ Cell(x) \in 0..(Capacity - 1)
  <2>1. ppos[p] \in Nat /\ x \in Nat
    BY DEF Types, Taken
  <2>2. QED  BY <2>1, CellType, ZenonT(60)
<1>4. payload' = [payload EXCEPT ![Cell(ppos[p])] = arg[p]]
  BY ZenonT(60) DEF PublishCell
<1>5. CASE x = ppos[p]
  <2>1. TaskAt(x) = arg[p]
    BY <1>1, <1>5, ClaimedTask, ZenonT(60) DEF Ring
  <2>2. \A q \in PAt({"publish"})' : ppos'[q] # x
    BY <1>1, <1>2, <1>5, ZenonT(60) DEF Ring, Claims
  <2>3. TaskAt(x)' = payload'[Cell(x)]
    BY <2>2, PublishedTaskNext, ZenonT(60)
  <2>4. payload'[Cell(x)] = arg[p]
    BY <1>3, <1>4, <1>5 DEF Types
  <2>5. QED  BY <2>1, <2>3, <2>4, ZenonT(60)
<1>6. CASE x # ppos[p]
  <2>1. CASE \E q \in PAt({"publish"}) : ppos[q] = x
    <3>1. PICK q \in PAt({"publish"}) : ppos[q] = x
      BY <2>1
    <3>2. q \in PAt({"publish"})' /\ ppos'[q] = x
      BY <1>2, <1>6, <3>1, ZenonT(60)
    <3>3. TaskAt(x) = arg[q]
      BY <3>1, ClaimedTask, ZenonT(60) DEF Ring
    <3>4. TaskAt(x)' = arg'[q]
      BY <3>2, ClaimedTaskNext, ZenonT(60) DEF Ring
    <3>5. QED  BY <1>2, <3>3, <3>4, ZenonT(60)
  <2>2. CASE \A q \in PAt({"publish"}) : ppos[q] # x
    <3>1. \A q \in PAt({"publish"})' : ppos'[q] # x
      BY <1>2, <2>2, ZenonT(60)
    <3>2. TaskAt(x) = payload[Cell(x)] /\ TaskAt(x)' = payload'[Cell(x)]
      BY <2>2, <3>1, PublishedTask, PublishedTaskNext, ZenonT(60)
    <3>3. x < ppos[p] + Capacity /\ ppos[p] < x + Capacity
      BY <1>1 DEF Types, Ring, Taken
    <3>4. Cell(x) # Cell(ppos[p])
      BY <1>3, <1>6, <3>3, CellsApart, ZenonT(60)
    <3>5. payload'[Cell(x)] = payload[Cell(x)]
      BY <1>3, <1>4, <3>4 DEF Types
    <3>6. QED  BY <3>2, <3>5, ZenonT(60)
  <2>3. QED  BY <2>1, <2>2, ZenonT(60)
<1>7. QED  BY <1>5, <1>6

\* Taking and releasing a cell change the task at no position.
LEMMA TasksSame ==
    ASSUME NEW w \in Workers, DequeueTask(w) \/ ReleaseCell(w), NEW x
    PROVE  TaskAt(x)' = TaskAt(x)
<1>1. UNCHANGED <<payload, ppc, ppos, arg>>
  BY ZenonT(60) DEF DequeueTask, ReleaseCell, producerVars
<1>2. QED  BY <1>1, ZenonT(60) DEF TaskAt, PAt

LEMMA TaskTaken ==
    ASSUME Types, Ring, NEW w \in Workers, DequeueTask(w), NEW x, x = m_dequeue_pos
    PROVE  current'[w] = TaskAt(x)
<1>1. TaskAt(x) = payload[Cell(x)]
  BY TakenFirst, PublishedTask, ZenonT(60) DEF DequeueTask
<1>2. QED  BY <1>1 DEF Types, DequeueTask

-----------------------------------------------------------------------------
(***************************************************************************)
(* The abstract queue lists the tasks at the taken positions               *)
(***************************************************************************)
Listed(f, first, n) == [i \in 1..n |-> f[first + i - 1]]
Within(f, first, n, S) == \A x \in first..(first + n - 1) : f[x] \in S
Agree(f, g, first, last) == \A x \in first..last : g[x] = f[x]

\* What a list of f is.
Lists(f, first, n, q) == Len(q) = n /\ \A i \in 1..n : q[i] = f[first + i - 1]

\* From f to g the list gets an element at its end, or loses its first one.
Pushed(f, g, first, n) == Listed(g, first, n + 1) = Append(Listed(f, first, n), g[first + n])
Popped(f, g, first, n) ==
    /\ Listed(f, first, n) # <<>> /\ Head(Listed(f, first, n)) = f[first]
    /\ Listed(g, first + 1, n - 1) = Tail(Listed(f, first, n))

PosTask == [x \in Taken |-> TaskAt(x)]
Queue == [i \in 1..(m_enqueue_pos - m_dequeue_pos) |-> TaskAt(m_dequeue_pos + i - 1)]

LEMMA ListedSeq ==
    ASSUME NEW S, NEW f, NEW b \in Nat, NEW n \in Nat, Within(f, b, n, S)
    PROVE  Lists(f, b, n, Listed(f, b, n))
<1>1. \A i \in 1..n : b + i - 1 \in b..(b + n - 1)
  OBVIOUS
<1>2. QED  BY <1>1 DEF Listed, Lists, Within

LEMMA ListedAppend ==
    ASSUME NEW S, NEW f, NEW g, NEW b \in Nat, NEW n \in Nat,
           Within(f, b, n, S), Agree(f, g, b, b + n - 1), g[b + n] \in S
    PROVE  Pushed(f, g, b, n)
<1> USE DEF Within, Agree
<1>1. Listed(f, b, n) \in Seq(S) /\ Len(Listed(f, b, n)) = n
  <2>1. \A i \in 1..n : b + i - 1 \in b..(b + n - 1)
    OBVIOUS
  <2>2. QED  BY <2>1 DEF Listed
<1>2. n + 1 \in Nat /\ \A x \in b..(b + (n + 1) - 1) : g[x] \in S
  OBVIOUS
<1>3. Listed(g, b, n + 1) \in Seq(S) /\ Len(Listed(g, b, n + 1)) = n + 1
  <2>1. \A i \in 1..(n + 1) : b + i - 1 \in b..(b + (n + 1) - 1)
    OBVIOUS
  <2>2. QED  BY <1>2, <2>1 DEF Listed
<1>4. ASSUME NEW i \in 1..(n + 1) PROVE Listed(g, b, n + 1)[i] = Append(Listed(f, b, n), g[b + n])[i]
  <2>1. CASE i = n + 1
    BY <1>1, <2>1 DEF Listed
  <2>2. CASE i \in 1..n
    <3>1. b + i - 1 \in b..(b + n - 1)
      BY <2>2
    <3>2. QED  BY <1>1, <2>2, <3>1 DEF Listed
  <2>3. i = n + 1 \/ i \in 1..n
    OBVIOUS
  <2>4. QED  BY <2>1, <2>2, <2>3, ZenonT(60)
<1>5. Listed(g, b, n + 1) = Append(Listed(f, b, n), g[b + n])
  BY <1>1, <1>3, <1>4
<1>6. QED  BY <1>5, ZenonT(60) DEF Pushed

LEMMA ListedTail ==
    ASSUME NEW S, NEW f, NEW g, NEW b \in Nat, NEW n \in Nat, n - 1 \in Nat,
           Within(f, b, n, S), Agree(f, g, b + 1, b + n - 1)
    PROVE  Popped(f, g, b, n)
<1> n >= 1
  OBVIOUS
<1> USE DEF Within, Agree
<1>1. Listed(f, b, n) \in Seq(S) /\ Len(Listed(f, b, n)) = n
  <2>1. \A i \in 1..n : b + i - 1 \in b..(b + n - 1)
    OBVIOUS
  <2>2. QED  BY <2>1 DEF Listed
<1>2. Listed(f, b, n) # <<>> /\ Head(Listed(f, b, n)) = f[b]
  BY <1>1 DEF Listed
<1>3. Listed(g, b + 1, n - 1) \in Seq(S) /\ Len(Listed(g, b + 1, n - 1)) = n - 1
  <2>1. b + 1 \in Nat /\ n - 1 \in Nat /\ \A x \in (b + 1)..(b + 1 + (n - 1) - 1) : g[x] \in S
    OBVIOUS
  <2>2. \A i \in 1..(n - 1) : b + 1 + i - 1 \in (b + 1)..(b + 1 + (n - 1) - 1)
    OBVIOUS
  <2>3. QED  BY <2>1, <2>2 DEF Listed
<1>4. Tail(Listed(f, b, n)) \in Seq(S) /\ Len(Tail(Listed(f, b, n))) = n - 1
  BY <1>1
<1>5. ASSUME NEW i \in 1..(n - 1) PROVE Listed(g, b + 1, n - 1)[i] = Tail(Listed(f, b, n))[i]
  <2>1. b + i \in (b + 1)..(b + n - 1) /\ i + 1 \in 1..n
    OBVIOUS
  <2>2. Tail(Listed(f, b, n))[i] = Listed(f, b, n)[i + 1]
    BY <1>1
  <2>3. Listed(f, b, n)[i + 1] = f[b + i] /\ Listed(g, b + 1, n - 1)[i] = g[b + i]
    BY <2>1 DEF Listed
  <2>4. g[b + i] = f[b + i]
    BY <2>1, ZenonT(60)
  <2>5. QED  BY <2>2, <2>3, <2>4, ZenonT(60)
<1>6. Listed(g, b + 1, n - 1) = Tail(Listed(f, b, n))
  BY <1>3, <1>4, <1>5
<1>7. QED  BY <1>2, <1>6, ZenonT(60) DEF Popped

LEMMA ListedPosition ==
    ASSUME NEW b \in Nat, NEW e \in Nat, NEW i \in 1..(e - b) PROVE b + i - 1 \in b..(e - 1)
  OBVIOUS

LEMMA QueueListed ==
    ASSUME Types, Types'
    PROVE  /\ Queue = Listed(PosTask, m_dequeue_pos, m_enqueue_pos - m_dequeue_pos)
           /\ Queue' = Listed(PosTask', m_dequeue_pos', m_enqueue_pos' - m_dequeue_pos')
<1>1. ASSUME NEW i \in 1..(m_enqueue_pos - m_dequeue_pos)
      PROVE  PosTask[m_dequeue_pos + i - 1] = TaskAt(m_dequeue_pos + i - 1)
  <2>1. m_dequeue_pos \in Nat /\ m_enqueue_pos \in Nat
    BY ZenonT(60) DEF Types
  <2>2. m_dequeue_pos + i - 1 \in Taken
    BY <2>1 DEF Taken
  <2>3. QED  BY <2>2, ZenonT(60) DEF PosTask, TaskAt
<1>2. ASSUME NEW i \in 1..(m_enqueue_pos' - m_dequeue_pos')
      PROVE  PosTask'[m_dequeue_pos' + i - 1] = TaskAt(m_dequeue_pos + i - 1)'
  <2>1. m_dequeue_pos' \in Nat /\ m_enqueue_pos' \in Nat
    BY ZenonT(60) DEF Types
  <2>2. m_dequeue_pos' + i - 1 \in m_dequeue_pos'..(m_enqueue_pos' - 1)
    BY <2>1, ListedPosition, ZenonT(60)
  <2>3. m_dequeue_pos' + i - 1 \in Taken'
    BY <2>2, ZenonT(60) DEF Taken
  <2>4. QED  BY <2>3, ZenonT(60) DEF PosTask, TaskAt
<1>3. QED  BY <1>1, <1>2, ZenonT(60) DEF Queue, Listed

-----------------------------------------------------------------------------
(***************************************************************************)
(* The steps of the tasks, each a step of TaskPool or none                 *)
(***************************************************************************)
Inv == Types /\ Ring /\ OnePlace
Keeps == OnePlace' /\ UNCHANGED Abstract!vars

LEMMA PlacesSame ==
    ASSUME Types, Types', OnePlace, UNCHANGED <<m_enqueue_pos, m_dequeue_pos>>,
           \A x \in Taken : TaskAt(x)' = TaskAt(x),
           Executing' = Executing, \A w \in Executing : current'[w] = current[w],
           \A p \in PAt({"claim"})' : p \in PAt({"claim"}) /\ arg'[p] = arg[p],
           UNCHANGED <<submitted, done>>
    PROVE  Keeps
<1>1. Taken' = Taken
  BY DEF Taken
<1>2. Running' = Running
  BY ZenonT(60) DEF Running
<1>3. Offered'
  BY <1>1, <1>2 DEF OnePlace, Offered
<1>4. Waiting'
  BY <1>1, <1>2 DEF OnePlace, Waiting
<1>5. Started'
  BY DEF OnePlace, Started
<1>6. PosTask' = PosTask
  BY <1>1, ZenonT(60) DEF PosTask
<1>7. Queue' = Queue
  BY <1>6, QueueListed, ZenonT(60)
<1>8. QED
  BY <1>2, <1>3, <1>4, <1>5, <1>7, ZenonT(60) DEF Keeps, OnePlace, Abstract!vars, Queue, Running, Executing

LEMMA FrameStep ==
    ASSUME Inv, Types', Ring', PlaceFrame
    PROVE  Keeps
<1>1. \A x \in Taken : TaskAt(x)' = TaskAt(x)
  BY TasksKept, ZenonT(60) DEF Inv, PlaceFrame
<1>2. QED  BY <1>1, PlacesSame, ZenonT(60) DEF Inv, PlaceFrame, RingFrame, queueVars

LEMMA PublishStep ==
    ASSUME Inv, Types', Ring', NEW p \in Producers, PublishCell(p)
    PROVE  Keeps
<1>1. \A x \in Taken : TaskAt(x)' = TaskAt(x)
  BY TasksPublished, ZenonT(60) DEF Inv
<1>2. PAt({"claim"})' = PAt({"claim"})
  BY DEF Inv, Types, PublishCell, PGoto, PAt
<1>3. Executing' = Executing /\ UNCHANGED <<m_enqueue_pos, m_dequeue_pos, current, arg, submitted, done>>
  BY ZenonT(60) DEF PublishCell, Executing, WAt, workerVars, historyVars
<1>4. QED  BY <1>1, <1>2, <1>3, PlacesSame, ZenonT(60) DEF Inv

LEMMA ReleaseStep ==
    ASSUME Inv, Types', Ring', NEW w \in Workers, ReleaseCell(w)
    PROVE  Keeps
<1>1. \A x \in Taken : TaskAt(x)' = TaskAt(x)
  BY TasksSame, ZenonT(60)
<1>2. Executing' = Executing
  BY DEF Inv, Types, ReleaseCell, WGoto, Executing, WAt
<1>3. PAt({"claim"})' = PAt({"claim"}) /\ UNCHANGED <<m_enqueue_pos, m_dequeue_pos, current, arg, submitted, done>>
  BY ZenonT(60) DEF ReleaseCell, PAt, producerVars, historyVars
<1>4. QED  BY <1>1, <1>2, <1>3, PlacesSame, ZenonT(60) DEF Inv

\* A new task is nowhere yet, because everything that is somewhere has been
\* submitted.
LEMMA SubmitStep ==
    ASSUME Inv, NEW p \in Producers, NEW t \in Tasks, Submit(p, t)
    PROVE  Types' /\ Ring' /\ Keeps
<1>1. Types'
  BY ProducerTypes, ZenonT(60) DEF Inv
<1>2. /\ PAt({"publish"})' = PAt({"publish"}) /\ PAt({"claim"})' = PAt({"claim"}) \cup {p}
      /\ p \notin PAt({"publish"}) /\ p \notin PAt({"claim"})
      /\ arg'[p] = t /\ \A q \in Producers \ {p} : arg'[q] = arg[q]
  BY DEF Inv, Types, Submit, PGoto, PAt
<1>3. /\ t \notin submitted /\ submitted' = submitted \cup {t}
      /\ UNCHANGED <<queueVars, ppos, wpc, current, wpos, done>>
  BY ZenonT(60) DEF Submit, workerVars
<1>4. WAt({"release"})' = WAt({"release"}) /\ Executing' = Executing /\ Running' = Running
  BY <1>3, ZenonT(60) DEF WAt, Executing, Running
<1>5. RingFrame
  <2>1. \A q \in PAt({"publish"}) : q \in Producers \ {p}
    BY <1>2, ZenonT(60) DEF PAt
  <2>2. QED  BY <1>2, <1>3, <1>4, <2>1, ZenonT(60) DEF RingFrame
<1>6. Ring'
  BY <1>5, RingKept, ZenonT(60) DEF Inv
<1>7. Taken' = Taken /\ \A x : TaskAt(x)' = TaskAt(x)
  BY <1>3, <1>5, <1>6, TasksKept, ZenonT(60) DEF Inv, Taken, queueVars
<1>8. Running \subseteq submitted /\ done \subseteq submitted
  BY ZenonT(60) DEF Inv, OnePlace, Started, Running
<1>9. \A q \in PAt({"claim"}) : q # p /\ arg'[q] = arg[q] /\ arg[q] # t
  BY <1>2, <1>3, ZenonT(60) DEF Inv, OnePlace, Offered, PAt
<1>10. \A x \in Taken : TaskAt(x) # t
  BY <1>3, ZenonT(60) DEF Inv, OnePlace, Waiting
<1>11. Offered'
  BY <1>2, <1>3, <1>4, <1>7, <1>8, <1>9, <1>10 DEF Inv, OnePlace, Offered
<1>12. Waiting'
  BY <1>3, <1>4, <1>7 DEF Inv, OnePlace, Waiting
<1>13. Started'
  BY <1>3, <1>4 DEF Inv, OnePlace, Started
<1>14. OnePlace'
  BY <1>3, <1>8, <1>11, <1>12, <1>13, ZenonT(60) DEF OnePlace
<1>15. PosTask' = PosTask
  BY <1>7, ZenonT(60) DEF PosTask
<1>16. Queue' = Queue
  BY <1>1, <1>3, <1>15, QueueListed, ZenonT(60) DEF Inv, queueVars
<1>17. QED
  BY <1>1, <1>3, <1>4, <1>6, <1>14, <1>16, ZenonT(60) DEF Keeps, Abstract!vars, Queue, Running, Executing

LEMMA AcceptStep ==
    ASSUME Inv, Types', Ring', NEW p \in Producers, ClaimCell(p)
    PROVE  OnePlace' /\ arg[p] \in Tasks /\ Abstract!Accept(arg[p])
<1> DEFINE t == arg[p]
           n == m_enqueue_pos - m_dequeue_pos
<1>1. p \in PAt({"claim"})
  BY ZenonT(60) DEF ClaimCell, PAt
<1>2. /\ t \in Tasks /\ t \in submitted /\ t \notin Running /\ t \notin done
      /\ \A x \in Taken : TaskAt(x) # t
      /\ \A q \in PAt({"claim"}) : q # p => arg[q] # t
  BY <1>1, ZenonT(60) DEF Inv, OnePlace, Offered
<1>3. /\ m_enqueue_pos \in Nat /\ m_dequeue_pos \in Nat /\ m_dequeue_pos <= m_enqueue_pos
      /\ m_enqueue_pos < m_dequeue_pos + Capacity
      /\ m_enqueue_pos' = m_enqueue_pos + 1 /\ m_dequeue_pos' = m_dequeue_pos
  BY ClaimFree, ZenonT(60) DEF Inv, Types, Ring, ClaimCell
<1>4. n \in Nat /\ n < Capacity /\ m_enqueue_pos' - m_dequeue_pos' = n + 1 /\ m_dequeue_pos + n = m_enqueue_pos
  BY <1>3, PoolAssumption
<1>5. Taken' = Taken \cup {m_enqueue_pos} /\ m_enqueue_pos \notin Taken
  BY <1>3 DEF Taken
<1>6. /\ Executing' = Executing /\ Running' = Running /\ UNCHANGED <<arg, current, submitted, done>>
      /\ PAt({"claim"})' = PAt({"claim"}) \ {p}
  <2>1. PAt({"claim"})' = PAt({"claim"}) \ {p}
    BY DEF Inv, Types, ClaimCell, PGoto, PAt
  <2>2. QED  BY <2>1, ZenonT(60) DEF ClaimCell, Executing, Running, WAt, workerVars
<1>7. /\ \A x : x = m_enqueue_pos => TaskAt(x)' = t
      /\ \A x \in Taken : TaskAt(x)' = TaskAt(x)
  BY TasksClaimed, ZenonT(60) DEF Inv
<1>8. PosTask'[m_enqueue_pos] = t /\ \A x \in Taken : PosTask'[x] = PosTask[x]
  BY <1>5, <1>7, ZenonT(60) DEF PosTask
<1>9. \A x \in Taken : PosTask[x] = TaskAt(x) /\ PosTask[x] \in Tasks /\ PosTask[x] # t
  BY <1>2, ZenonT(60) DEF PosTask, Inv, OnePlace, Waiting
<1>10. Taken = m_dequeue_pos..(m_dequeue_pos + n - 1)
  BY <1>3, <1>4 DEF Taken
<1> HIDE DEF t, n
<1>11. Offered'
  BY <1>2, <1>5, <1>6, <1>7 DEF Inv, OnePlace, Offered
<1>12. Waiting'
  BY <1>2, <1>5, <1>6, <1>7 DEF Inv, OnePlace, Waiting
<1>13. Started'
  BY <1>6 DEF Inv, OnePlace, Started
<1>14. OnePlace'
  BY <1>6, <1>11, <1>12, <1>13, ZenonT(60) DEF Inv, OnePlace
<1>15. /\ Queue = Listed(PosTask, m_dequeue_pos, n)
       /\ Queue' = Listed(PosTask', m_dequeue_pos, n + 1)
  BY <1>3, <1>4, QueueListed, ZenonT(60) DEF Inv, n
<1>16. /\ Within(PosTask, m_dequeue_pos, n, Tasks)
       /\ Agree(PosTask, PosTask', m_dequeue_pos, m_dequeue_pos + n - 1)
  BY <1>8, <1>9, <1>10, ZenonT(60) DEF Within, Agree
<1>17. PosTask'[m_dequeue_pos + n] = t
  BY <1>4, <1>8, ZenonT(60)
<1>18. Queue' = Append(Queue, t)
  <2>1. Listed(PosTask', m_dequeue_pos, n + 1) = Append(Listed(PosTask, m_dequeue_pos, n), t)
    <3>1. m_dequeue_pos \in Nat /\ n \in Nat /\ PosTask'[m_dequeue_pos + n] \in Tasks
      BY <1>2, <1>3, <1>4, <1>17, ZenonT(60)
    <3>2. Pushed(PosTask, PosTask', m_dequeue_pos, n)
      BY <1>16, <3>1, ListedAppend, ZenonT(60)
    <3>3. QED  BY <1>17, <3>2, ZenonT(60) DEF Pushed
  <2>2. QED  BY <1>15, <2>1, ZenonT(60)
<1>19. Len(Queue) = n /\ \A i \in 1..n : Queue[i] = PosTask[m_dequeue_pos + i - 1]
  <2>1. m_dequeue_pos \in Nat /\ n \in Nat
    BY <1>3, <1>4, ZenonT(60)
  <2>2. Lists(PosTask, m_dequeue_pos, n, Queue)
    BY <1>15, <1>16, <2>1, ListedSeq, ZenonT(60)
  <2>3. QED  BY <2>2, ZenonT(60) DEF Lists
<1>20. \A i \in 1..Len(Queue) : Queue[i] # t
  <2> SUFFICES ASSUME NEW i \in 1..n PROVE Queue[i] # t
    BY <1>19, ZenonT(60)
  <2>1. m_dequeue_pos + i - 1 \in Taken
    BY <1>3, <1>4, <1>10
  <2>2. QED  BY <1>9, <1>19, <2>1, ZenonT(60)
<1>21. Abstract!Accept(t)
  BY <1>2, <1>4, <1>6, <1>18, <1>19, <1>20, ZenonT(60) DEF Abstract!Accept, Queue, Running, Executing
<1>22. QED  BY <1>2, <1>14, <1>21, ZenonT(60) DEF t

LEMMA StartStep ==
    ASSUME Inv, Types', Ring', NEW w \in Workers, DequeueTask(w)
    PROVE  OnePlace' /\ Abstract!Start
<1> DEFINE t == PosTask[m_dequeue_pos]
           n == m_enqueue_pos - m_dequeue_pos
<1>1. /\ m_enqueue_pos \in Nat /\ m_dequeue_pos \in Nat /\ m_dequeue_pos < m_enqueue_pos
      /\ m_enqueue_pos' = m_enqueue_pos /\ m_dequeue_pos' = m_dequeue_pos + 1
  BY TakenFirst, ZenonT(60) DEF Inv, Types, DequeueTask
<1>2. n \in Nat /\ n # 0 /\ m_enqueue_pos' - m_dequeue_pos' = n - 1
  BY <1>1
<1>3. /\ Taken = Taken' \cup {m_dequeue_pos} /\ m_dequeue_pos \notin Taken'
      /\ Taken = m_dequeue_pos..(m_dequeue_pos + n - 1)
      /\ Taken' = (m_dequeue_pos + 1)..(m_dequeue_pos + n - 1)
  BY <1>1 DEF Taken
<1>4. /\ Executing' = Executing \cup {w} /\ w \notin Executing
      /\ \A v \in Executing : current'[v] = current[v]
  <2>1. w \in Workers /\ wpc[w] = "dequeue" /\ wpc' = [wpc EXCEPT ![w] = "release"]
    BY ZenonT(60) DEF DequeueTask, WGoto
  <2>2. /\ wpc'[w] = "release" /\ \A v \in Workers : v # w => wpc'[v] = wpc[v]
        /\ \A v \in Workers : v # w => current'[v] = current[v]
    BY <2>1 DEF Inv, Types, DequeueTask
  <2>3. QED  BY <2>1, <2>2 DEF Executing, WAt
<1>5. UNCHANGED <<arg, submitted, done>> /\ PAt({"claim"})' = PAt({"claim"})
  BY ZenonT(60) DEF DequeueTask, PAt, producerVars, historyVars
<1>6. \A x : TaskAt(x)' = TaskAt(x)
  BY TasksSame, ZenonT(60)
<1>7. \A x \in Taken : PosTask[x] = TaskAt(x)
  BY ZenonT(60) DEF PosTask
<1>8. \A x \in Taken' : PosTask'[x] = PosTask[x]
  BY <1>3, <1>6, ZenonT(60) DEF PosTask
<1>9. current'[w] = t
  <2>1. PICK x \in Taken : x = m_dequeue_pos
    BY <1>3, ZenonT(60)
  <2>2. current'[w] = TaskAt(x)
    BY <2>1, TaskTaken, ZenonT(60) DEF Inv
  <2>3. QED  BY <1>7, <2>1, <2>2, ZenonT(60)
<1> HIDE DEF t
<1>10. Running' = Running \cup {t}
  BY <1>4, <1>9, ZenonT(60) DEF Running
<1>11. /\ t \in Tasks /\ t \in submitted /\ t \notin Running /\ t \notin done
       /\ \A x \in Taken' : TaskAt(x) # t
  <2>1. PICK x \in Taken : x = m_dequeue_pos
    BY <1>3, ZenonT(60)
  <2>2. TaskAt(x) = t
    BY <1>7, <2>1, ZenonT(60) DEF t
  <2>3. QED  BY <1>3, <2>1, <2>2, ZenonT(60) DEF Inv, OnePlace, Waiting
<1>12. \A p \in PAt({"claim"}) : arg[p] # t
  <2>1. PICK x \in Taken : x = m_dequeue_pos
    BY <1>3, ZenonT(60)
  <2>2. TaskAt(x) = t
    BY <1>7, <2>1, ZenonT(60) DEF t
  <2>3. QED  BY <2>2, ZenonT(60) DEF Inv, OnePlace, Offered
<1>13. Offered'
  BY <1>3, <1>5, <1>6, <1>10, <1>12 DEF Inv, OnePlace, Offered
<1>14. Waiting'
  BY <1>3, <1>5, <1>6, <1>10, <1>11 DEF Inv, OnePlace, Waiting
<1>15. Started'
  <2>1. \A v \in Executing : current[v] # t
    BY <1>11, ZenonT(60) DEF Running
  <2>2. QED  BY <1>4, <1>5, <1>9, <1>11, <2>1 DEF Inv, OnePlace, Started
<1>16. OnePlace'
  BY <1>5, <1>13, <1>14, <1>15, ZenonT(60) DEF Inv, OnePlace
<1> HIDE DEF n
<1>17. /\ Queue = Listed(PosTask, m_dequeue_pos, n)
       /\ Queue' = Listed(PosTask', m_dequeue_pos + 1, n - 1)
  BY <1>1, <1>2, QueueListed, ZenonT(60) DEF Inv, n
<1>18. /\ Within(PosTask, m_dequeue_pos, n, Tasks)
       /\ Agree(PosTask, PosTask', m_dequeue_pos + 1, m_dequeue_pos + n - 1)
  <2>1. \A x \in Taken : PosTask[x] \in Tasks
    BY <1>7, ZenonT(60) DEF Inv, OnePlace, Waiting
  <2>2. QED  BY <1>3, <1>8, <2>1, ZenonT(60) DEF Within, Agree
<1>19. Queue # <<>> /\ Head(Queue) = t /\ Queue' = Tail(Queue)
  <2>1. /\ Listed(PosTask, m_dequeue_pos, n) # <<>>
        /\ Head(Listed(PosTask, m_dequeue_pos, n)) = PosTask[m_dequeue_pos]
        /\ Listed(PosTask', m_dequeue_pos + 1, n - 1) = Tail(Listed(PosTask, m_dequeue_pos, n))
    <3>1. m_dequeue_pos \in Nat /\ n \in Nat /\ n - 1 \in Nat
      BY <1>1, <1>2
    <3>2. Popped(PosTask, PosTask', m_dequeue_pos, n)
      BY <1>18, <3>1, ListedTail, ZenonT(60)
    <3>3. QED  BY <3>2, ZenonT(60) DEF Popped
  <2>2. QED  BY <1>17, <2>1, ZenonT(60) DEF t
<1>20. Abstract!Start
  BY <1>5, <1>10, <1>19, ZenonT(60) DEF Abstract!Start, Queue, Running, Executing
<1>21. QED  BY <1>16, <1>20, ZenonT(60)

LEMMA FinishStep ==
    ASSUME Inv, Types', Ring', NEW w \in Workers, Execute(w)
    PROVE  OnePlace' /\ current[w] \in Tasks /\ Abstract!Finish(current[w])
<1> DEFINE t == current[w]
<1>1. w \in Executing
  BY ZenonT(60) DEF Execute, Executing, WAt
<1>2. t \in Tasks /\ t \in submitted /\ \A v \in Executing : v # w => current[v] # t
  BY <1>1, ZenonT(60) DEF Inv, OnePlace, Started
<1>3. Executing' = Executing \ {w} /\ \A v \in Executing \ {w} : current'[v] = current[v]
  <2>1. /\ wpc \in [Workers -> AlivePCs \cup {"gone"}]
        /\ current \in [Workers -> Tasks \cup {None}]
        /\ wpc' = [wpc EXCEPT ![w] = "top"] /\ current' = [current EXCEPT ![w] = None]
    BY ZenonT(60) DEF Inv, Types, Execute, WGoto
  <2>2. /\ wpc'[w] = "top"
        /\ \A v \in Workers \ {w} : wpc'[v] = wpc[v] /\ current'[v] = current[v]
    BY <2>1, ZenonT(60)
  <2>3. Executing' = Executing \ {w}
    BY <2>2, ZenonT(60) DEF Executing, WAt
  <2>4. QED  BY <2>2, <2>3, ZenonT(60) DEF Executing, WAt
<1>4. /\ UNCHANGED <<queueVars, ppc, ppos, arg, submitted>> /\ done' = done \cup {t}
      /\ PAt({"claim"})' = PAt({"claim"})
  BY ZenonT(60) DEF Execute, producerVars, PAt
<1>5. \A x : TaskAt(x)' = TaskAt(x)
  BY <1>4, ZenonT(60) DEF TaskAt, PAt, queueVars
<1>6. Taken' = Taken
  BY <1>4, ZenonT(60) DEF Taken, queueVars
<1>7. t \in Running
  BY <1>1, ZenonT(60) DEF Running
<1> HIDE DEF t
<1>8. Running' = Running \ {t}
  <2>1. \A v \in Executing : v # w <=> current[v] # t
    BY <1>2, ZenonT(60) DEF t
  <2>2. QED  BY <1>3, <2>1, ZenonT(60) DEF Running
<1>9. Offered'
  BY <1>4, <1>5, <1>6, <1>7, <1>8, ZenonT(60) DEF Inv, OnePlace, Offered
<1>10. Waiting'
  BY <1>4, <1>5, <1>6, <1>7, <1>8, ZenonT(60) DEF Inv, OnePlace, Waiting
<1>11. Started'
  BY <1>2, <1>3, <1>4 DEF Inv, OnePlace, Started
<1>12. OnePlace'
  BY <1>2, <1>4, <1>9, <1>10, <1>11, ZenonT(60) DEF Inv, OnePlace
<1>13. PosTask' = PosTask
  BY <1>5, <1>6, ZenonT(60) DEF PosTask
<1>14. Queue' = Queue
  BY <1>4, <1>13, QueueListed, ZenonT(60) DEF Inv, queueVars
<1>15. Abstract!Finish(t)
  BY <1>4, <1>7, <1>8, <1>14, ZenonT(60) DEF Abstract!Finish, Queue, Running, Executing
<1>16. QED  BY <1>2, <1>12, <1>15, ZenonT(60) DEF t

LEMMA PoolInit == Init => Inv /\ Abstract!Init
<1> SUFFICES ASSUME Init PROVE Inv /\ Abstract!Init
  OBVIOUS
<1>1. Types /\ Ring
  BY TypesInit, RingInit
<1>2. PAt({"claim"}) = {} /\ Executing = {}
  BY DEF Init, PAt, WAt, Executing
<1>3. Taken = {} /\ m_enqueue_pos - m_dequeue_pos = 0
  BY DEF Init, Taken
<1>4. OnePlace
  BY <1>2, <1>3, ZenonT(60) DEF OnePlace, Offered, Waiting, Started, Init
<1>5. Queue = <<>>
  <2>1. 1..(m_enqueue_pos - m_dequeue_pos) = {}
    BY <1>3
  <2>2. QED  BY <2>1 DEF Queue
<1>6. Running = {} /\ done = {}
  BY <1>2, ZenonT(60) DEF Running, Init
<1>7. QED  BY <1>1, <1>4, <1>5, <1>6, ZenonT(60) DEF Inv, Abstract!Init, Queue, Running, Executing

LEMMA PoolNext == Inv /\ [Next]_vars => Inv' /\ [Abstract!Next]_Abstract!vars
<1> SUFFICES ASSUME Inv, [Next]_vars PROVE Inv' /\ [Abstract!Next]_Abstract!vars
  OBVIOUS
<1>1. Types'
  BY TypesNext, ZenonT(60) DEF Inv
<1>2. ASSUME PlaceFrame PROVE Inv' /\ UNCHANGED Abstract!vars
  <2>1. Ring'
    BY <1>2, RingKept, ZenonT(60) DEF Inv, PlaceFrame
  <2>2. QED  BY <1>1, <1>2, <2>1, FrameStep, ZenonT(60) DEF Inv, Keeps
<1>3. ASSUME NEW p \in Producers, NEW t \in Tasks, Submit(p, t) PROVE Inv' /\ UNCHANGED Abstract!vars
  BY <1>3, SubmitStep, ZenonT(60) DEF Inv, Keeps
<1>4. ASSUME NEW p \in Producers, ClaimCell(p) PROVE Inv' /\ Abstract!Next
  <2>1. Ring'
    BY <1>4, ClaimRing, ZenonT(60) DEF Inv
  <2>2. OnePlace' /\ arg[p] \in Tasks /\ Abstract!Accept(arg[p])
    BY <1>1, <1>4, <2>1, AcceptStep, ZenonT(60)
  <2>3. PICK t \in Tasks : t = arg[p]
    BY <2>2, ZenonT(60)
  <2>4. Abstract!Accept(t)
    BY <2>2, <2>3, ZenonT(60) DEF Abstract!Accept
  <2>5. QED  BY <1>1, <2>1, <2>2, <2>4, ZenonT(60) DEF Inv, Abstract!Next
<1>5. ASSUME NEW p \in Producers, PublishCell(p) PROVE Inv' /\ UNCHANGED Abstract!vars
  <2>1. Ring'
    BY <1>5, PublishRing, ZenonT(60) DEF Inv
  <2>2. QED  BY <1>1, <1>5, <2>1, PublishStep, ZenonT(60) DEF Inv, Keeps
<1>6. ASSUME NEW w \in Workers, DequeueTask(w) PROVE Inv' /\ Abstract!Next
  <2>1. Ring'
    BY <1>6, TakeRing, ZenonT(60) DEF Inv
  <2>2. QED  BY <1>1, <1>6, <2>1, StartStep, ZenonT(60) DEF Inv, Abstract!Next
<1>7. ASSUME NEW w \in Workers, ReleaseCell(w) PROVE Inv' /\ UNCHANGED Abstract!vars
  <2>1. Ring'
    BY <1>7, ReleaseRing, ZenonT(60) DEF Inv
  <2>2. QED  BY <1>1, <1>7, <2>1, ReleaseStep, ZenonT(60) DEF Inv, Keeps
<1>8. ASSUME NEW w \in Workers, Execute(w) PROVE Inv' /\ Abstract!Next
  <2>1. RingFrame
    <3>1. WAt({"release"})' = WAt({"release"})
      BY <1>8 DEF Inv, Types, Execute, WGoto, WAt
    <3>2. QED  BY <1>8, <3>1, ZenonT(60) DEF Execute, RingFrame, PAt, producerVars
  <2>2. Ring'
    BY <2>1, RingKept, ZenonT(60) DEF Inv
  <2>3. OnePlace' /\ current[w] \in Tasks /\ Abstract!Finish(current[w])
    BY <1>1, <1>8, <2>2, FinishStep, ZenonT(60)
  <2>4. PICK t \in Tasks : t = current[w]
    BY <2>3, ZenonT(60)
  <2>5. Abstract!Finish(t)
    BY <2>3, <2>4 DEF Abstract!Finish
  <2>6. QED  BY <1>1, <2>2, <2>3, <2>5, ZenonT(60) DEF Inv, Abstract!Next
<1>9. ASSUME NEW p \in Producers, ProducerStep(p) PROVE Inv' /\ [Abstract!Next]_Abstract!vars
  BY <1>2, <1>4, <1>5, <1>9, CallsKeep, ZenonT(60) DEF Inv
<1>10. ASSUME NEW w \in Workers, WorkerStep(w) \/ Interrupted(w) \/ Timeout(w)
       PROVE  Inv' /\ [Abstract!Next]_Abstract!vars
  BY <1>2, <1>6, <1>7, <1>8, <1>10, WorksKeep, ZenonT(60) DEF Inv
<1>11. ASSUME StopPool \/ DestructorStep \/ Destroyed \/ UNCHANGED vars PROVE Inv' /\ UNCHANGED Abstract!vars
  BY <1>2, <1>11, DestructorFrames, DestructorKeeps, ZenonT(60)
<1>12. QED  BY <1>3, <1>9, <1>10, <1>11, ZenonT(60) DEF Next

\* ImplementsTaskPool: whatever producers, workers and the destructor do at
\* once, a task that append_p of the lock-free pool accepted is taken by one
\* worker only, in the order of the exchanges of m_enqueue_pos.
THEOREM LockfreeRefines == Spec => ImplementsTaskPool
  BY PoolInit, PoolNext, PTL DEF Spec, ImplementsTaskPool, Abstract!Spec

-----------------------------------------------------------------------------
(***************************************************************************)
(* The counters.  The facts about finite sets are taken under a name, here *)
(* where they are first needed.                                            *)
(***************************************************************************)
LOCAL Fin == INSTANCE FiniteSetTheorems

\* A set is as large by either name.
LEMMA SameSets ==
    ASSUME NEW S
    PROVE  (Fin!IsFiniteSet(S) <=> IsFiniteSet(S)) /\ Fin!Cardinality(S) = Cardinality(S)
BY ZenonT(60) DEF Fin!IsFiniteSet, IsFiniteSet, Fin!Cardinality, Cardinality

LEMMA SubsetSize ==
    ASSUME NEW S, IsFiniteSet(S), NEW T \in SUBSET S
    PROVE  IsFiniteSet(T) /\ Cardinality(T) <= Cardinality(S)
BY Fin!FS_Subset, SameSets, ZenonT(60)

LEMMA SizeType == ASSUME NEW S, IsFiniteSet(S) PROVE Cardinality(S) \in Nat
BY Fin!FS_CardinalityType, SameSets, ZenonT(60)

LEMMA EmptySize ==
    Cardinality({}) = 0 /\ \A S : IsFiniteSet(S) => (Cardinality(S) = 0 <=> S = {})
BY Fin!FS_EmptySet, SameSets, ZenonT(60)

LEMMA SizeWithout ==
    ASSUME NEW S, IsFiniteSet(S), NEW x
    PROVE  Cardinality(S \ {x}) = IF x \in S THEN Cardinality(S) - 1 ELSE Cardinality(S)
BY Fin!FS_RemoveElement, SameSets, ZenonT(60)

\* When one thread goes from a control point to another, the number of threads
\* at a set of points changes by that one.
LEMMA OneMoves ==
    ASSUME NEW A, IsFiniteSet(A), NEW F \in SUBSET A, NEW G \in SUBSET A, NEW a, F \ {a} = G \ {a}
    PROVE  /\ Cardinality(F) \in Nat
           /\ Cardinality(G) = Cardinality(F) + One(a, G) - One(a, F)
<1>1. IsFiniteSet(F) /\ IsFiniteSet(G)
  BY SubsetSize, ZenonT(60)
<1>2. Cardinality(F) \in Nat /\ Cardinality(G) \in Nat
  BY <1>1, SizeType, ZenonT(60)
<1>3. Cardinality(F \ {a}) = IF a \in F THEN Cardinality(F) - 1 ELSE Cardinality(F)
  BY <1>1, SizeWithout, ZenonT(60)
<1>4. Cardinality(G \ {a}) = IF a \in G THEN Cardinality(G) - 1 ELSE Cardinality(G)
  BY <1>1, SizeWithout, ZenonT(60)
<1>5. QED  BY <1>2, <1>3, <1>4 DEF One

LEMMA CountProducers == ASSUME Types PROVE ProducersCounted
<1> SUFFICES ASSUME NEW p \in Producers, NEW to \in ProducerPCs, PGoto(p, to)
             PROVE  /\ Publishing' = Publishing + One(to, {"publish", "count"}) - One(ppc[p], {"publish", "count"})
                    /\ Counted' = Counted + One(to, {"counted"}) - One(ppc[p], {"counted"})
                    /\ Growing' = Growing + One(to, {"spawn", "counted"}) - One(ppc[p], {"spawn", "counted"})
                    /\ Growing' <= Cardinality(Producers)
  BY ZenonT(60) DEF ProducersCounted
<1>1. ppc'[p] = to /\ \A q \in Producers : q # p => ppc'[q] = ppc[q]
  BY DEF Types, PGoto
<1>2. IsFiniteSet(Producers)
  BY PoolAssumption, ZenonT(60)
<1>3. ASSUME NEW S
      PROVE  /\ Cardinality(PAt(S))' = Cardinality(PAt(S)) + One(to, S) - One(ppc[p], S)
             /\ Cardinality(PAt(S))' <= Cardinality(Producers)
  <2>1. PAt(S) \in SUBSET Producers /\ PAt(S)' \in SUBSET Producers
    BY ZenonT(60) DEF PAt
  <2>2. PAt(S) \ {p} = PAt(S)' \ {p}
    BY <1>1, ZenonT(60) DEF PAt
  <2>3. Cardinality(PAt(S))' = Cardinality(PAt(S)) + One(p, PAt(S)') - One(p, PAt(S))
    BY <1>2, <2>1, <2>2, OneMoves, ZenonT(60)
  <2>4. (p \in PAt(S)' <=> to \in S) /\ (p \in PAt(S) <=> ppc[p] \in S)
    BY <1>1, ZenonT(60) DEF PAt
  <2>5. One(p, PAt(S)') = One(to, S) /\ One(p, PAt(S)) = One(ppc[p], S)
    BY <2>4, ZenonT(60) DEF One
  <2>6. Cardinality(PAt(S))' <= Cardinality(Producers)
    BY <1>2, <2>1, SubsetSize, ZenonT(60)
  <2>7. QED  BY <2>3, <2>5, <2>6, ZenonT(60)
<1>4. QED  BY <1>3, ZenonT(60) DEF Publishing, Counted, Growing

LEMMA CountWorkers == ASSUME Types PROVE WorkersCounted
<1> SUFFICES ASSUME NEW w \in Workers, NEW to \in AlivePCs \cup {"gone"}, WGoto(w, to)
             PROVE  /\ Releasing' = Releasing + One(to, {"release", "uncount"})
                                    - One(wpc[w], {"release", "uncount"})
                    /\ Alive' = Alive + One(to, AlivePCs) - One(wpc[w], AlivePCs)
                    /\ Busy' = Busy + One(to, {"exec"}) - One(wpc[w], {"exec"})
  BY ZenonT(60) DEF WorkersCounted
<1>1. wpc'[w] = to /\ \A v \in Workers : v # w => wpc'[v] = wpc[v]
  BY DEF Types, WGoto
<1>2. IsFiniteSet(Workers)
  BY PoolAssumption, ZenonT(60)
<1>3. ASSUME NEW S
      PROVE  Cardinality(WAt(S))' = Cardinality(WAt(S)) + One(to, S) - One(wpc[w], S)
  <2>1. WAt(S) \in SUBSET Workers /\ WAt(S)' \in SUBSET Workers
    BY ZenonT(60) DEF WAt
  <2>2. WAt(S) \ {w} = WAt(S)' \ {w}
    BY <1>1, ZenonT(60) DEF WAt
  <2>3. Cardinality(WAt(S))' = Cardinality(WAt(S)) + One(w, WAt(S)') - One(w, WAt(S))
    BY <1>2, <2>1, <2>2, OneMoves, ZenonT(60)
  <2>4. (w \in WAt(S)' <=> to \in S) /\ (w \in WAt(S) <=> wpc[w] \in S)
    BY <1>1, ZenonT(60) DEF WAt
  <2>5. One(w, WAt(S)') = One(to, S) /\ One(w, WAt(S)) = One(wpc[w], S)
    BY <2>4, ZenonT(60) DEF One
  <2>6. QED  BY <2>3, <2>5, ZenonT(60)
<1>4. QED  BY <1>3, ZenonT(60) DEF Releasing, Alive, Busy

LEMMA NumbersType == Sizes
<1>1. ASSUME NEW S
      PROVE  /\ IsFiniteSet(PAt(S)) /\ IsFiniteSet(WAt(S))
             /\ Cardinality(PAt(S)) <= Cardinality(Producers)
  <2>1. PAt(S) \in SUBSET Producers /\ WAt(S) \in SUBSET Workers
    BY ZenonT(60) DEF PAt, WAt
  <2>2. QED  BY <2>1, PoolAssumption, SubsetSize, ZenonT(60)
<1>2. QED  BY <1>1, PoolAssumption, SizeType, ZenonT(60)
              DEF Sizes, Publishing, Counted, Growing, Releasing, Alive, Busy

LEMMA CountersInit == Init => Counters
<1> SUFFICES ASSUME Init PROVE Counters
  OBVIOUS
<1>2. Publishing = 0 /\ Counted = 0 /\ Growing = 0
  <2>1. PAt({"publish", "count"}) = {} /\ PAt({"counted"}) = {} /\ PAt({"spawn", "counted"}) = {}
    BY DEF Init, PAt
  <2>2. QED  BY <2>1, EmptySize, ZenonT(60) DEF Publishing, Counted, Growing
<1>3. Releasing = 0 /\ Busy = 0
  <2>1. WAt({"release", "uncount"}) = {} /\ WAt({"exec"}) = {}
    BY DEF Init, WAt
  <2>2. QED  BY <2>1, EmptySize, ZenonT(60) DEF Releasing, Busy
<1>4. Alive = MinThreads
  <2>1. PICK first \in SUBSET Workers :
            /\ Cardinality(first) = MinThreads
            /\ wpc = [w \in Workers |-> IF w \in first THEN "top" ELSE "gone"]
    BY ZenonT(60) DEF Init
  <2>2. WAt(AlivePCs) = first
    BY <2>1 DEF WAt, AlivePCs
  <2>3. QED  BY <2>1, <2>2, ZenonT(60) DEF Alive
<1>5. Cardinality(Producers) \in Nat /\ Cardinality(Producers) # 0
  BY PoolAssumption, SizeType, EmptySize, ZenonT(60)
<1>6. QED  BY <1>2, <1>3, <1>4, <1>5, PoolAssumption DEF Init, Counters

LEMMA CountersNext == Types /\ Counters /\ [Next]_vars => Counters'
<1> SUFFICES ASSUME Types, Counters, [Next]_vars PROVE Counters'
  OBVIOUS
<1>1. ASSUME DestructorFrame PROVE Counters'
  <2>1. UNCHANGED <<queueVars, counterVars, ppc, wpc>>
    BY <1>1, ZenonT(60) DEF DestructorFrame, producerVars, workerVars
  <2>2. UNCHANGED <<ProducerNumbers, WorkerNumbers>>
    BY <2>1, ProducersSame, WorkersSame, ZenonT(60)
  <2>3. QED  BY <2>1, <2>2 DEF Counters, queueVars, counterVars, ProducerNumbers, WorkerNumbers
<1>2. QED  BY <1>1, NumbersType, CountProducers, CountWorkers, ProducerCounts, WorkerCounts, DestructorFrames,
              ZenonT(60) DEF Next

\* CountersTrackQueue: m_pending_task_number, m_current_thread_number and
\* m_busy_thread_number of threadpool.h are exact up to the threads between a
\* change and the counter that follows it.
THEOREM CountersSafe == Spec => []CountersTrackQueue
<1>1. Types /\ Counters => CountersTrackQueue
  <2> SUFFICES ASSUME Types, Counters PROVE CountersTrackQueue
    OBVIOUS
  <2>1. Live = WAt(AlivePCs)
    BY DEF Types, Live, WAt, AlivePCs
  <2>2. QED  BY <2>1, ZenonT(60) DEF CountersTrackQueue, Counters, Publishing, Counted, Releasing, Alive, Busy
<1>2. QED
  BY <1>1, TypesInit, TypesNext, CountersInit, CountersNext, PTL DEF Spec

\* OvershootBounded: the unlocked check of the maximum in maybe_grow_unlocked
\* lets the pool have fewer threads than the maximum and one per producer.
THEOREM OvershootSafe == Spec => []OvershootBounded
<1>1. Counters => OvershootBounded
  BY ZenonT(60) DEF Counters, OvershootBounded, Growing
<1>2. QED
  BY <1>1, TypesInit, TypesNext, CountersInit, CountersNext, PTL DEF Spec
=============================================================================
