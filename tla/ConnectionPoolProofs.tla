------------------------ MODULE ConnectionPoolProofs ------------------------
(***************************************************************************)
(* Proofs about ConnectionPool, for any number of threads, connections and *)
(* requests, with and without outages and interrupted waits.               *)
(***************************************************************************)
EXTENDS ConnectionPool, FiniteSetTheorems, TLAPS

\* Leaves go to the SMT solver, unless they name Zenon or PTL.
USE SMTT(60)

\* The threads whose control point is in S.
ThreadsAt(f, S) == {t \in Threads : f[t] \in S}

\* Every set of threads is finite and has a natural cardinality.
LEMMA ThreadSets ==
    ASSUME NEW f, NEW S
    PROVE  IsFiniteSet(ThreadsAt(f, S)) /\ Cardinality(ThreadsAt(f, S)) \in Nat
<1>1. ThreadsAt(f, S) \subseteq Threads
    BY DEF ThreadsAt
<1>2. IsFiniteSet(ThreadsAt(f, S))
    BY <1>1, PoolAssumption, FS_Subset
<1> QED
    BY <1>2, FS_CardinalityType

\* How the number of threads at a set of control points changes when one
\* thread moves: the arithmetic of every counter of the pool.
LEMMA CountStep ==
    ASSUME NEW f \in [Threads -> PCs], NEW t \in Threads, NEW q \in PCs, NEW S
    PROVE  LET g == [f EXCEPT ![t] = q]
               n == Cardinality(ThreadsAt(f, S))
               m == Cardinality(ThreadsAt(g, S))
           IN  /\ n \in Nat
               /\ m \in Nat
               /\ f[t] \in S /\ q \in S => m = n
               /\ f[t] \notin S /\ q \notin S => m = n
               /\ f[t] \in S /\ q \notin S => m = n - 1 /\ n > 0
               /\ f[t] \notin S /\ q \in S => m = n + 1
<1> DEFINE g == [f EXCEPT ![t] = q]
<1>1. /\ IsFiniteSet(ThreadsAt(f, S)) /\ Cardinality(ThreadsAt(f, S)) \in Nat
      /\ IsFiniteSet(ThreadsAt(g, S)) /\ Cardinality(ThreadsAt(g, S)) \in Nat
    BY ThreadSets
<1>2. f[t] \in S /\ q \in S => ThreadsAt(g, S) = ThreadsAt(f, S)
    BY DEF ThreadsAt
<1>3. f[t] \notin S /\ q \notin S => ThreadsAt(g, S) = ThreadsAt(f, S)
    BY DEF ThreadsAt
<1>4. ASSUME f[t] \in S, q \notin S
      PROVE  Cardinality(ThreadsAt(g, S)) = Cardinality(ThreadsAt(f, S)) - 1
             /\ Cardinality(ThreadsAt(f, S)) > 0
  <2>1. ThreadsAt(g, S) = ThreadsAt(f, S) \ {t} /\ t \in ThreadsAt(f, S)
    BY <1>4 DEF ThreadsAt
  <2>2. Cardinality(ThreadsAt(f, S)) # 0
    BY <2>1, <1>1, FS_EmptySet
  <2>3. Cardinality(ThreadsAt(f, S) \ {t}) = Cardinality(ThreadsAt(f, S)) - 1
    BY <2>1, <1>1, FS_RemoveElement, ZenonT(60)
  <2>4. Cardinality(ThreadsAt(g, S)) = Cardinality(ThreadsAt(f, S)) - 1
    BY <2>1, <2>3, ZenonT(60)
  <2> QED
    BY <2>2, <2>4, <1>1
<1>5. ASSUME f[t] \notin S, q \in S
      PROVE  Cardinality(ThreadsAt(g, S)) = Cardinality(ThreadsAt(f, S)) + 1
  <2>1. ThreadsAt(g, S) = ThreadsAt(f, S) \cup {t} /\ t \notin ThreadsAt(f, S)
    BY <1>5 DEF ThreadsAt
  <2> QED
    BY <2>1, <1>1, FS_AddElement, ZenonT(60)
<1> QED
    BY <1>1, <1>2, <1>3, <1>4, <1>5

\* The sets the invariant counts are sets of threads at control points.
LEMMA CountedSets ==
    /\ Holders = ThreadsAt(pc, HoldingPCs)
    /\ \A p : At(p) = ThreadsAt(pc, {p})
    /\ Holders' = ThreadsAt(pc', HoldingPCs)
    /\ \A p : At(p)' = ThreadsAt(pc', {p})
BY DEF Holders, At, ThreadsAt
-----------------------------------------------------------------------------
(***************************************************************************)
(* Types                                                                   *)
(***************************************************************************)

\* What the invariant says of the variables one at a time.
Shape == TypeOK /\ HandleShape /\ JoinedTogether

\* A step of one thread keeps the types of the variables.
LEMMA ThreadStepKeepsShape ==
    ASSUME IndInv, NEW t \in Threads,
           GetConnection(t) \/ SemInterrupted(t) \/ ThreadStep(t)
    PROVE  Shape'
<1> USE PoolAssumption DEF IndInv, Shape, TypeOK, HandleShape, JoinedTogether,
        HandlePCs, HoldingPCs, PCs, Goto, counters, environment
<1>0. t \in Holders => m_CurConn > 0 /\ m_MaxConn > 0
    BY CountedSets, ThreadSets, FS_EmptySet DEF CountersExact
<1>1. CASE GetConnection(t)
    BY <1>1 DEF GetConnection
<1>2. CASE SemInterrupted(t)
    BY <1>2 DEF SemInterrupted
<1>3. CASE SemWait(t)
    BY <1>3 DEF SemWait
<1>4. CASE TakeConnection(t)
  <2>1. Len(connList) > 0
    BY <1>4 DEF TakeConnection
  <2>2. m_FreeConn - 1 \in Nat
    BY <2>1 DEF CountersExact
  <2>3. Head(connList) \in Conns /\ Tail(connList) \in Seq(Conns)
    BY <1>4 DEF TakeConnection
  <2>4. TypeOK'
    <3>1. connList' \in Seq(Conns) /\ con' \in [Threads -> Conns \cup {NULL}]
      BY <1>4, <2>3 DEF TakeConnection
    <3>2. m_FreeConn' \in Nat /\ m_CurConn' \in Nat
      BY <1>4, <2>2 DEF TakeConnection
    <3>3. pc' \in [Threads -> PCs]
          /\ UNCHANGED <<m_MaxConn, m_connLastActive, reserve, open, phase, dbUp, requests>>
      BY <1>4 DEF TakeConnection
    <3> QED
      BY <3>1, <3>2, <3>3
  <2>5. HandleShape' /\ JoinedTogether'
    BY <1>4, <2>3 DEF TakeConnection
  <2> QED
    BY <2>4, <2>5
<1>5. CASE TakeNothing(t)
    BY <1>5 DEF TakeNothing
<1>6. CASE StampConnection(t)
    BY <1>6 DEF StampConnection, With
<1>7. CASE CheckConnection(t)
    BY <1>7 DEF CheckConnection, With, Healthy
<1>8. CASE PingConnection(t)
    BY <1>8 DEF PingConnection
<1>9. CASE TouchConnection(t)
    BY <1>9, ZenonT(60) DEF TouchConnection, Healthy
<1>10. CASE EraseConnection(t)
    BY <1>10 DEF EraseConnection, Without
<1>11. CASE CloseConnection(t)
    BY <1>11 DEF CloseConnection
<1>12. CASE CreateConnection(t)
    BY <1>12 DEF CreateConnection
<1>13. CASE CreateFails(t)
    BY <1>13 DEF CreateFails
<1>14. CASE InsertConnection(t)
    BY <1>14 DEF InsertConnection, With, Healthy
<1>15. CASE DropSlot(t)
    BY <1>0, <1>15 DEF DropSlot, Holders
<1>16. CASE ReleaseConnection(t)
    BY <1>16 DEF ReleaseConnection
<1>17. CASE GiveConnection(t)
  <2>0. t \in Holders /\ con[t] \in Conns
    BY <1>17, ZenonT(60) DEF GiveConnection, PushBack, Holders
  <2>1. m_CurConn - 1 \in Nat /\ con[t] \in Conns
    BY <1>0, <2>0
  <2>2. connList' \in Seq(Conns)
    BY <1>17, <2>1 DEF GiveConnection, PushBack
  <2>3. DOMAIN m_connLastActive' \subseteq Conns
        /\ m_connLastActive' \in [DOMAIN m_connLastActive' -> {"recent", "idle"}]
    BY <1>17, <2>1 DEF GiveConnection, PushBack, With
  <2>4. TypeOK'
    BY <1>17, <2>1, <2>2, <2>3 DEF GiveConnection, PushBack
  <2>5. HandleShape' /\ JoinedTogether'
    BY <1>17 DEF GiveConnection, PushBack
  <2> QED
    BY <2>4, <2>5
<1>18. CASE SemPost(t)
    BY <1>18 DEF SemPost
<1> QED
    BY <1>1, <1>2, <1>3, <1>4, <1>5, <1>6, <1>7, <1>8, <1>9, <1>10, <1>11,
       <1>12, <1>13, <1>14, <1>15, <1>16, <1>17, <1>18, ZenonT(60) DEF ThreadStep
-----------------------------------------------------------------------------
(***************************************************************************)
(* Counting: list, counters, permits                                       *)
(***************************************************************************)

\* What the invariant says of numbers.
Counting == CountersExact /\ NoStrandedConnection /\ PermitBalance

\* A number of threads goes from n to m when a thread moves.
Moved(n, m, was, now) ==
    /\ n \in Nat
    /\ m \in Nat
    /\ was /\ now => m = n
    /\ ~was /\ ~now => m = n
    /\ was /\ ~now => m = n - 1 /\ n > 0
    /\ ~was /\ now => m = n + 1

\* CountStep for the three sets of threads the invariant counts.
LEMMA Moves ==
    ASSUME TypeOK, NEW t \in Threads, NEW q \in PCs, Goto(t, q)
    PROVE  /\ Moved(Cardinality(Holders), Cardinality(Holders'),
                    pc[t] \in HoldingPCs, q \in HoldingPCs)
           /\ Moved(Cardinality(At("permit")), Cardinality(At("permit")'),
                    pc[t] = "permit", q = "permit")
           /\ Moved(Cardinality(At("post")), Cardinality(At("post")'),
                    pc[t] = "post", q = "post")
<1>1. pc \in [Threads -> PCs] /\ pc' = [pc EXCEPT ![t] = q]
    BY DEF TypeOK, Goto
<1>2. ASSUME NEW S
      PROVE  Moved(Cardinality(ThreadsAt(pc, S)), Cardinality(ThreadsAt(pc', S)),
                   pc[t] \in S, q \in S)
    BY <1>1, CountStep, ZenonT(60) DEF Moved
<1>3. Moved(Cardinality(Holders), Cardinality(Holders'),
            pc[t] \in HoldingPCs, q \in HoldingPCs)
    BY <1>2, CountedSets, ZenonT(60)
<1>4. ASSUME NEW p
      PROVE  Moved(Cardinality(At(p)), Cardinality(At(p)'), pc[t] \in {p}, q \in {p})
    BY <1>2, CountedSets, ZenonT(60)
<1> QED
    BY <1>3, <1>4 DEF Moved

\* A step of one thread keeps the counters and the permits in balance.
LEMMA ThreadStepKeepsCounting ==
    ASSUME IndInv, NEW t \in Threads,
           GetConnection(t) \/ SemInterrupted(t) \/ ThreadStep(t)
    PROVE  Counting'
<1> DEFINE H == Cardinality(Holders)
           P == Cardinality(At("permit"))
           Q == Cardinality(At("post"))
           Running == \A u \in Threads : pc[u] # "joined"
           Balance(n, r, p, q) == Signals \/ n = r + p + q
<1> USE DEF IndInv
<1>1. /\ m_FreeConn = Len(connList) /\ m_CurConn = H /\ m_MaxConn = m_FreeConn + m_CurConn
      /\ Len(connList) <= reserve + P + Q
      /\ Len(connList) \in Nat /\ reserve \in Nat /\ H \in Nat /\ P \in Nat /\ Q \in Nat
    BY CountedSets, ThreadSets, ZenonT(60) DEF CountersExact, NoStrandedConnection, TypeOK
<1>2. pc[t] # "joined"
    BY DEF GetConnection, SemInterrupted, ThreadStep, SemWait, TakeConnection, TakeNothing,
           StampConnection, CheckConnection, PingConnection, TouchConnection,
           EraseConnection, CloseConnection, CreateConnection, CreateFails,
           InsertConnection, DropSlot, ReleaseConnection, GiveConnection, PushBack, SemPost
<1>3. Running
    BY <1>2 DEF JoinedTogether
<1>4. Balance(Len(connList), reserve, P, Q)
    BY <1>3 DEF PermitBalance
<1>5. ASSUME NEW q \in PCs, Goto(t, q), q # "nopermit" \/ Signals,
             m_FreeConn' = Len(connList'), m_CurConn' = H', m_MaxConn' = m_FreeConn' + m_CurConn',
             Len(connList') <= reserve' + P' + Q',
             Balance(Len(connList'), reserve', P', Q')
      PROVE  Counting'
  <2>1. Signals \/ At("nopermit")' = {}
    BY <1>5 DEF PermitBalance, At, Goto, TypeOK
  <2>2. PermitBalance'
    BY <1>5, <2>1 DEF PermitBalance
  <2> QED
    BY <1>5, <2>2 DEF Counting, CountersExact, NoStrandedConnection
<1>6. ASSUME NEW q \in PCs, Goto(t, q), UNCHANGED <<connList, counters, reserve>>,
             pc[t] \in HoldingPCs <=> q \in HoldingPCs,
             pc[t] \notin {"permit", "post"}, q \notin {"permit", "nopermit", "post"}
      PROVE  Counting'
  <2>1. H' = H /\ P' = P /\ Q' = Q
    BY <1>6, Moves DEF Moved
  <2> QED
    BY <1>1, <1>4, <1>5, <1>6, <2>1 DEF counters
<1>7. CASE GetConnection(t)
    BY <1>6, <1>7 DEF GetConnection, PCs, HoldingPCs
<1>8. CASE SemInterrupted(t)
  <2>1. H' = H /\ P' = P /\ Q' = Q
    BY <1>8, Moves DEF SemInterrupted, PCs, HoldingPCs, Moved
  <2> QED
    BY <1>1, <1>5, <1>8, <2>1 DEF SemInterrupted, counters, PCs
<1>9. CASE SemWait(t)
  <2>1. H' = H /\ P' = P + 1 /\ Q' = Q
    BY <1>9, Moves DEF SemWait, PCs, HoldingPCs, Moved
  <2> QED
    BY <1>1, <1>4, <1>5, <1>9, <2>1 DEF SemWait, counters, PCs
<1>10. CASE TakeConnection(t)
  <2>1. H' = H + 1 /\ Q' = Q /\ P \in Nat /\ P' \in Nat
        /\ (pc[t] = "permit" => P' = P - 1)
        /\ (pc[t] = "nopermit" => P' = P)
    BY <1>10, Moves DEF TakeConnection, PCs, HoldingPCs, Moved
  <2>2. Len(connList') = Len(connList) - 1
    BY <1>10 DEF TakeConnection, TypeOK
  <2>3. pc[t] = "nopermit" => Signals
    BY DEF PermitBalance, At
  <2>4. pc[t] = "nopermit" => Len(connList') <= reserve + P' + Q'
    BY <1>1, <2>1, <2>2
  <2>5. Balance(Len(connList'), reserve, P', Q') /\ Len(connList') <= reserve + P' + Q'
    BY <1>1, <1>4, <1>10, <2>1, <2>2, <2>3, <2>4 DEF TakeConnection
  <2> QED
    BY <1>1, <1>5, <1>10, <2>1, <2>2, <2>5 DEF TakeConnection, PCs
<1>11. CASE TakeNothing(t)
  <2>1. H' = H /\ Q' = Q /\ P \in Nat /\ P' \in Nat
        /\ (pc[t] = "permit" => P' = P - 1 /\ P > 0)
    BY <1>11, Moves DEF TakeNothing, PCs, HoldingPCs, Moved
  <2>2. Len(connList) = 0 /\ Len(connList') = 0
    BY <1>11 DEF TakeNothing
  <2>3. pc[t] = "nopermit" => Signals
    BY DEF PermitBalance, At
  <2>4. Signals
    BY <1>1, <1>4, <1>11, <2>1, <2>2, <2>3 DEF TakeNothing
  <2> QED
    BY <1>1, <1>5, <1>11, <2>1, <2>2, <2>4 DEF TakeNothing, PCs, counters
<1>12. CASE StampConnection(t)
    BY <1>6, <1>12 DEF StampConnection, PCs, HoldingPCs
<1>13. CASE CheckConnection(t)
    BY <1>6, <1>13 DEF CheckConnection, Healthy, PCs, HoldingPCs
<1>14. CASE PingConnection(t)
    BY <1>6, <1>14 DEF PingConnection, PCs, HoldingPCs
<1>15. CASE TouchConnection(t)
    BY <1>6, <1>15 DEF TouchConnection, Healthy, PCs, HoldingPCs
<1>16. CASE EraseConnection(t)
    BY <1>6, <1>16 DEF EraseConnection, PCs, HoldingPCs
<1>17. CASE CloseConnection(t)
    BY <1>6, <1>17 DEF CloseConnection, PCs, HoldingPCs
<1>18. CASE CreateConnection(t)
    BY <1>6, <1>18 DEF CreateConnection, PCs, HoldingPCs
<1>19. CASE CreateFails(t)
    BY <1>6, <1>19 DEF CreateFails, PCs, HoldingPCs
<1>20. CASE InsertConnection(t)
    BY <1>6, <1>20 DEF InsertConnection, Healthy, PCs, HoldingPCs
<1>21. CASE DropSlot(t)
  <2>1. H' = H - 1 /\ P' = P /\ Q' = Q /\ H > 0
    BY <1>21, Moves DEF DropSlot, PCs, HoldingPCs, Moved
  <2> QED
    BY <1>1, <1>4, <1>5, <1>21, <2>1 DEF DropSlot, PCs
<1>22. CASE ReleaseConnection(t)
    BY <1>6, <1>22 DEF ReleaseConnection, PCs, HoldingPCs
<1>23. CASE GiveConnection(t)
  <2>1. H' = H - 1 /\ P' = P /\ Q' = Q + 1 /\ H > 0
    BY <1>23, Moves DEF GiveConnection, PushBack, PCs, HoldingPCs, Moved
  <2>0. con[t] \in Conns /\ connList \in Seq(Conns)
    BY <1>23, ZenonT(60) DEF GiveConnection, PushBack, TypeOK, HandleShape, HandlePCs, HoldingPCs
  <2>2. Len(connList') = Len(connList) + 1
    <3>1. connList' = Append(connList, con[t])
      BY <1>23 DEF GiveConnection, PushBack
    <3>2. \A s \in Seq(Conns), c \in Conns : Len(Append(s, c)) = Len(s) + 1
      OBVIOUS
    <3> QED
      BY <3>1, <3>2, <2>0
  <2>3. /\ m_FreeConn' = m_FreeConn + 1 /\ m_CurConn' = m_CurConn - 1
        /\ m_MaxConn' = m_MaxConn /\ reserve' = reserve /\ Goto(t, "post") /\ "post" \in PCs
    BY <1>23 DEF GiveConnection, PushBack, PCs
  <2>4. m_FreeConn' = Len(connList') /\ m_CurConn' = H' /\ m_MaxConn' = m_FreeConn' + m_CurConn'
    <3>1. m_FreeConn \in Nat /\ m_CurConn \in Nat
      BY <1>1
    <3>2. m_FreeConn' = Len(connList') /\ m_CurConn' = H'
      BY <1>1, <2>1, <2>2, <2>3
    <3>3. m_MaxConn' = m_FreeConn' + m_CurConn'
      BY <1>1, <2>3, <3>1
    <3> QED
      BY <3>2, <3>3
  <2>5. Len(connList') <= reserve' + P' + Q'
    BY <1>1, <2>1, <2>2, <2>3
  <2>6. Balance(Len(connList'), reserve', P', Q')
    BY <1>1, <1>4, <2>1, <2>2, <2>3
  <2> QED
    BY <1>5, <2>3, <2>4, <2>5, <2>6
<1>24. CASE SemPost(t)
  <2>1. H' = H /\ P' = P /\ Q' = Q - 1 /\ Q > 0
    BY <1>24, Moves DEF SemPost, PCs, HoldingPCs, Moved
  <2> QED
    BY <1>1, <1>4, <1>5, <1>24, <2>1 DEF SemPost, PCs, counters
<1> QED
    BY <1>7, <1>8, <1>9, <1>10, <1>11, <1>12, <1>13, <1>14, <1>15, <1>16, <1>17,
       <1>18, <1>19, <1>20, <1>21, <1>22, <1>23, <1>24 DEF ThreadStep
-----------------------------------------------------------------------------
(***************************************************************************)
(* Ownership: who has which handle                                         *)
(***************************************************************************)

\* What the invariant says of handles.
Ownership == ExclusiveOwnership /\ NoHandleLeak /\ EntriesMatchHandles

\* Popping the front and pushing at the back of a duplicate-free list.
LEMMA PopFront ==
    ASSUME NEW s \in Seq(Conns), s # <<>>, IsInjective(s)
    PROVE  /\ IsInjective(Tail(s))
           /\ Head(s) \in Range(s)
           /\ Range(Tail(s)) = Range(s) \ {Head(s)}
<1>1. /\ Len(s) \in Nat \ {0} /\ DOMAIN s = 1..Len(s)
      /\ Head(s) = s[1]
      /\ DOMAIN Tail(s) = 1..(Len(s) - 1)
      /\ \A i \in 1..(Len(s) - 1) : Tail(s)[i] = s[i + 1]
    OBVIOUS
<1>2. IsInjective(Tail(s))
    BY <1>1 DEF IsInjective
<1>3. Head(s) \in Range(s)
    BY <1>1 DEF Range
<1>4. ASSUME NEW x \in Range(Tail(s))
      PROVE  x \in Range(s) \ {Head(s)}
    BY <1>1 DEF Range, IsInjective
<1>5. ASSUME NEW x \in Range(s) \ {Head(s)}
      PROVE  x \in Range(Tail(s))
  <2>1. PICK i \in 2..Len(s) : x = s[i]
    BY <1>1 DEF Range
  <2>2. i - 1 \in DOMAIN Tail(s) /\ Tail(s)[i - 1] = x
    BY <1>1, <2>1
  <2> QED
    BY <2>2 DEF Range
<1> QED
    BY <1>2, <1>3, <1>4, <1>5

\* A new last element keeps a list duplicate-free and joins its elements.
LEMMA PushAtBack ==
    ASSUME NEW s \in Seq(Conns), NEW c \in Conns, c \notin Range(s), IsInjective(s)
    PROVE  /\ IsInjective(Append(s, c))
           /\ Range(Append(s, c)) = Range(s) \cup {c}
<1>1. /\ Len(s) \in Nat /\ DOMAIN s = 1..Len(s)
      /\ DOMAIN Append(s, c) = 1..(Len(s) + 1)
      /\ \A i \in 1..Len(s) : Append(s, c)[i] = s[i]
      /\ Append(s, c)[Len(s) + 1] = c
    OBVIOUS
<1>2. IsInjective(Append(s, c))
    BY <1>1 DEF IsInjective, Range
<1>3. ASSUME NEW x \in Range(Append(s, c))
      PROVE  x \in Range(s) \cup {c}
    BY <1>1 DEF Range
<1>4. ASSUME NEW x \in Range(s) \cup {c}
      PROVE  x \in Range(Append(s, c))
    BY <1>1 DEF Range
<1> QED
    BY <1>2, <1>3, <1>4

\* The ownership part of the invariant, said of one handle or thread at a
\* time: L is the set of idle handles, o of open ones, D of those with an
\* entry in the map; p and h are the control points and handles of threads.
OwnershipPoints(L, o, D, p, h) ==
    /\ \A u \in Threads : h[u] # NULL => h[u] \notin L
    /\ \A u, v \in Threads : u # v /\ h[u] # NULL => h[u] # h[v]
    /\ \A c : c \in o <=> c \in L \/ \E u \in Threads : h[u] = c /\ c # NULL
    /\ \A c : c \in D <=> c \in o /\ \A u \in Threads : p[u] \in {"close", "insert"} => h[u] # c

\* The ownership part of the invariant, stated handle by handle.
LEMMA OwnershipPointwise ==
    Ownership <=> /\ IsInjective(connList)
                  /\ OwnershipPoints(Range(connList), open, DOMAIN m_connLastActive, pc, con)
<1>1. NoHandleLeak <=>
        \A c : c \in open <=> c \in Range(connList) \/ \E u \in Threads : con[u] = c /\ c # NULL
    BY DEF NoHandleLeak
<1>2. EntriesMatchHandles <=>
        \A c : c \in DOMAIN m_connLastActive
               <=> c \in open /\ \A u \in Threads : pc[u] \in {"close", "insert"} => con[u] # c
    BY DEF EntriesMatchHandles, At
<1> QED
    BY <1>1, <1>2 DEF Ownership, OwnershipPoints, ExclusiveOwnership

\* The same in the next state.
LEMMA OwnershipPointwiseNext ==
    Ownership' <=> /\ IsInjective(connList')
                   /\ OwnershipPoints(Range(connList'), open', DOMAIN m_connLastActive', pc', con')
<1>1. NoHandleLeak' <=>
        \A c : c \in open' <=> c \in Range(connList') \/ \E u \in Threads : con'[u] = c /\ c # NULL
    BY DEF NoHandleLeak
<1>2. EntriesMatchHandles' <=>
        \A c : c \in DOMAIN m_connLastActive'
               <=> c \in open' /\ \A u \in Threads : pc'[u] \in {"close", "insert"} => con'[u] # c
    BY DEF EntriesMatchHandles, At
<1> QED
    BY <1>1, <1>2 DEF Ownership, OwnershipPoints, ExclusiveOwnership

\* A step of one thread keeps handles exclusive, accounted for and recorded.
LEMMA ThreadStepKeepsOwnership ==
    ASSUME IndInv, NEW t \in Threads,
           GetConnection(t) \/ SemInterrupted(t) \/ ThreadStep(t)
    PROVE  Ownership'
<1> DEFINE Busy == {"close", "insert"}
           L == Range(connList)
           D == DOMAIN m_connLastActive
<1>1. /\ IsInjective(connList)
      /\ OwnershipPoints(L, open, D, pc, con)
      /\ pc \in [Threads -> PCs] /\ con \in [Threads -> Conns \cup {NULL}]
      /\ connList \in Seq(Conns) /\ open \subseteq Conns
      /\ con[t] # NULL <=> pc[t] \in HandlePCs
      /\ NULL \notin Conns
    BY OwnershipPointwise, PoolAssumption DEF IndInv, Ownership, TypeOK, HandleShape
<1>2. con[t] # NULL /\ pc[t] \notin Busy => con[t] \in D
    BY <1>1 DEF OwnershipPoints
<1>3. ASSUME NEW q \in PCs, Goto(t, q), UNCHANGED <<connList, open, con>>,
             D' = D, pc[t] \notin Busy, q \notin Busy
      PROVE  Ownership'
  <2>1. \A u \in Threads : pc'[u] \in Busy <=> pc[u] \in Busy
    BY <1>1, <1>3 DEF Goto
  <2>2. OwnershipPoints(L', open', D', pc', con')
    BY <1>1, <1>3, <2>1 DEF OwnershipPoints
  <2> QED
    BY <1>1, <1>3, <2>2, OwnershipPointwiseNext
<1> HIDE DEF L, D
<1>4. CASE GetConnection(t)
    BY <1>3, <1>4 DEF GetConnection, PCs, D
<1>5. CASE SemInterrupted(t)
    BY <1>3, <1>5 DEF SemInterrupted, PCs, environment, D
<1>6. CASE SemWait(t)
    BY <1>3, <1>6 DEF SemWait, PCs, environment, D
<1>7. CASE TakeConnection(t)
  <2> DEFINE c == Head(connList)
  <2>1. /\ IsInjective(connList') /\ c \in L /\ L' = L \ {c} /\ c \in Conns
    BY <1>1, <1>7, PopFront DEF TakeConnection, L
  <2>2. /\ open' = open /\ D' = D /\ con[t] = NULL
        /\ con' = [con EXCEPT ![t] = c]
        /\ \A u \in Threads : pc'[u] \in Busy <=> pc[u] \in Busy
        /\ pc[t] \notin Busy
    BY <1>1, <1>7 DEF TakeConnection, Goto, HandlePCs, HoldingPCs, D
  <2>3. OwnershipPoints(L', open', D', pc', con')
    BY <1>1, <2>1, <2>2 DEF OwnershipPoints
  <2> QED
    BY <2>1, <2>3, OwnershipPointwiseNext DEF L, D
<1>8. CASE TakeNothing(t)
    BY <1>3, <1>8 DEF TakeNothing, PCs, environment, D
<1>9. CASE StampConnection(t)
    BY <1>1, <1>2, <1>3, <1>9, ZenonT(60) DEF StampConnection, With, HandlePCs, HoldingPCs, PCs, environment, D
<1>10. CASE CheckConnection(t)
    BY <1>1, <1>2, <1>3, <1>10
       DEF CheckConnection, Healthy, With, HandlePCs, HoldingPCs, PCs, environment, D
<1>11. CASE PingConnection(t)
    BY <1>3, <1>11 DEF PingConnection, PCs, environment, D
<1>12. CASE TouchConnection(t)
    BY <1>3, <1>12 DEF TouchConnection, Healthy, PCs, environment, D
<1>13. CASE CreateFails(t)
    BY <1>3, <1>13 DEF CreateFails, PCs, environment, D
<1>14. CASE DropSlot(t)
    BY <1>3, <1>14 DEF DropSlot, PCs, environment, D
<1>15. CASE ReleaseConnection(t)
    BY <1>3, <1>15 DEF ReleaseConnection, PCs, environment, D
<1>16. CASE SemPost(t)
    BY <1>3, <1>16 DEF SemPost, PCs, environment, D
<1>17. CASE EraseConnection(t)
  <2>1. /\ UNCHANGED <<connList, open, con>> /\ D' = D \ {con[t]} /\ con[t] # NULL
        /\ pc' = [pc EXCEPT ![t] = "close"] /\ pc[t] \notin Busy
    BY <1>1, <1>17 DEF EraseConnection, Without, Goto, HandlePCs, HoldingPCs, D
  <2>2. L' = L
    BY <2>1 DEF L
  <2>3. OwnershipPoints(L', open', D', pc', con')
    BY <1>1, <2>1, <2>2 DEF OwnershipPoints
  <2> QED
    BY <1>1, <2>1, <2>3, OwnershipPointwiseNext DEF L, D
<1>18. CASE CloseConnection(t)
  <2>1. /\ UNCHANGED connList /\ D' = D /\ con[t] # NULL
        /\ open' = open \ {con[t]} /\ con' = [con EXCEPT ![t] = NULL]
        /\ pc' = [pc EXCEPT ![t] = "create"] /\ pc[t] \in Busy
    BY <1>1, <1>18 DEF CloseConnection, Goto, HandlePCs, HoldingPCs, D
  <2>2. L' = L
    BY <2>1 DEF L
  <2>3. OwnershipPoints(L', open', D', pc', con')
    BY <1>1, <2>1, <2>2 DEF OwnershipPoints
  <2> QED
    BY <1>1, <2>1, <2>3, OwnershipPointwiseNext DEF L, D
<1>19. CASE CreateConnection(t)
  <2>1. PICK c \in Conns \ open : open' = open \cup {c} /\ con' = [con EXCEPT ![t] = c]
    BY <1>19, ZenonT(60) DEF CreateConnection
  <2>2. /\ UNCHANGED connList /\ D' = D /\ con[t] = NULL
        /\ pc' = [pc EXCEPT ![t] = "insert"] /\ pc[t] \notin Busy
    BY <1>1, <1>19 DEF CreateConnection, Goto, HandlePCs, HoldingPCs, D
  <2>3. L' = L
    BY <2>2 DEF L
  <2>4. OwnershipPoints(L', open', D', pc', con')
    BY <1>1, <2>1, <2>2, <2>3 DEF OwnershipPoints
  <2> QED
    BY <1>1, <2>2, <2>4, OwnershipPointwiseNext DEF L, D
<1>20. CASE InsertConnection(t)
  <2>1. /\ UNCHANGED <<connList, open, con>> /\ D' = D \cup {con[t]} /\ con[t] # NULL
        /\ pc' = [pc EXCEPT ![t] = Healthy(t)] /\ pc[t] \in Busy /\ Healthy(t) \notin Busy
    BY <1>1, <1>20 DEF InsertConnection, With, Healthy, Goto, HandlePCs, HoldingPCs, D
  <2>2. L' = L
    BY <2>1 DEF L
  <2>3. OwnershipPoints(L', open', D', pc', con')
    BY <1>1, <2>1, <2>2 DEF OwnershipPoints
  <2> QED
    BY <1>1, <2>1, <2>3, OwnershipPointwiseNext DEF L, D
<1>21. CASE GiveConnection(t)
  <2>1. con[t] \in Conns /\ con[t] \notin L /\ pc[t] \notin Busy /\ con[t] \in D
    BY <1>1, <1>2, <1>21 DEF GiveConnection, PushBack, OwnershipPoints, HandlePCs, HoldingPCs
  <2>2. IsInjective(connList') /\ L' = L \cup {con[t]}
    BY <1>1, <1>21, <2>1, PushAtBack DEF GiveConnection, PushBack, L
  <2>3. /\ open' = open /\ D' = D /\ con' = [con EXCEPT ![t] = NULL]
        /\ \A u \in Threads : pc'[u] \in Busy <=> pc[u] \in Busy
    BY <1>1, <1>21, <2>1, ZenonT(60) DEF GiveConnection, PushBack, With, Goto, D
  <2>4. OwnershipPoints(L', open', D', pc', con')
    BY <1>1, <2>1, <2>2, <2>3 DEF OwnershipPoints
  <2> QED
    BY <2>2, <2>4, OwnershipPointwiseNext DEF L, D
<1> QED
    BY <1>4, <1>5, <1>6, <1>7, <1>8, <1>9, <1>10, <1>11, <1>12, <1>13, <1>14, <1>15,
       <1>16, <1>17, <1>18, <1>19, <1>20, <1>21 DEF ThreadStep
-----------------------------------------------------------------------------
(***************************************************************************)
(* The whole invariant                                                     *)
(***************************************************************************)

\* The steps of the process and of its environment.
LEMMA OtherStepsKeepIndInv ==
    ASSUME IndInv, DestroyPool \/ Exited \/ IdleTimeout \/ DatabaseChanges \/ UNCHANGED vars
    PROVE  IndInv'
<1>1. CASE DestroyPool
  <2>1. /\ \A t \in Threads : pc[t] = "idle" /\ pc'[t] = "joined"
        /\ connList' = <<>> /\ UNCHANGED <<reserve, phase, con, dbUp, requests>>
        /\ pc' = [t \in Threads |-> "joined"]
    BY <1>1 DEF DestroyPool, environment
  <2>2. Holders = {} /\ Holders' = {} /\ At("close")' = {} /\ At("insert")' = {}
        /\ At("close") = {} /\ At("insert") = {} /\ At("nopermit")' = {}
    BY <2>1 DEF Holders, At, HoldingPCs
  <2>3. \A t \in Threads : con[t] = NULL
    BY <2>1 DEF IndInv, HandleShape, HandlePCs, HoldingPCs
  <2>4. m_CurConn = 0 /\ m_FreeConn = Len(connList) /\ m_MaxConn = m_FreeConn
        /\ m_FreeConn \in Nat
    BY <2>2, FS_EmptySet DEF IndInv, CountersExact, TypeOK
  <2>5. m_FreeConn' = 0 /\ m_CurConn' = 0 /\ m_MaxConn' = 0
    BY <1>1, <2>4 DEF DestroyPool, counters
  <2>6. open = Range(connList) /\ DOMAIN m_connLastActive = open
    BY <2>2, <2>3 DEF IndInv, NoHandleLeak, EntriesMatchHandles
  <2>7. open' = {} /\ DOMAIN m_connLastActive' = {} /\ Range(connList') = {}
        /\ m_connLastActive' \in [DOMAIN m_connLastActive' -> {"recent", "idle"}]
    BY <1>1, <2>6 DEF DestroyPool, Range
  <2>8. TypeOK'
    BY <2>1, <2>5, <2>7 DEF IndInv, TypeOK, PCs
  <2>9. HandleShape' /\ JoinedTogether'
    BY <2>1, <2>3 DEF HandleShape, JoinedTogether, HandlePCs, HoldingPCs
  <2>10. ExclusiveOwnership' /\ NoHandleLeak' /\ EntriesMatchHandles'
    BY <2>1, <2>2, <2>3, <2>7 DEF ExclusiveOwnership, NoHandleLeak, EntriesMatchHandles, IsInjective
  <2>11. Cardinality(At("permit")') \in Nat /\ Cardinality(At("post")') \in Nat
    BY CountedSets, ThreadSets, ZenonT(60)
  <2>12. CountersExact' /\ NoStrandedConnection'
    BY <2>1, <2>2, <2>5, <2>8, <2>11, FS_EmptySet DEF CountersExact, NoStrandedConnection, TypeOK
  <2>13. PermitBalance'
    BY <2>1, <2>2, PoolAssumption DEF PermitBalance
  <2> QED
    BY <2>8, <2>9, <2>10, <2>12, <2>13 DEF IndInv
<1>2. CASE Exited \/ UNCHANGED vars
  <2>1. UNCHANGED <<connList, counters, m_connLastActive, reserve, open, pc, phase, con, environment>>
    BY <1>2 DEF Exited, vars, counters, environment
  <2> QED
    BY <2>1 DEF IndInv, TypeOK, HandleShape, JoinedTogether, ExclusiveOwnership, NoHandleLeak,
       EntriesMatchHandles, CountersExact, NoStrandedConnection, PermitBalance, At, Holders,
       counters, environment
<1>3. CASE IdleTimeout
  <2>1. /\ UNCHANGED <<connList, counters, reserve, open, pc, phase, con, environment>>
        /\ DOMAIN m_connLastActive' = DOMAIN m_connLastActive
        /\ m_connLastActive' \in [DOMAIN m_connLastActive' -> {"recent", "idle"}]
    BY <1>3 DEF IdleTimeout, IndInv, TypeOK
  <2> QED
    BY <2>1 DEF IndInv, TypeOK, HandleShape, JoinedTogether, ExclusiveOwnership, NoHandleLeak,
       EntriesMatchHandles, CountersExact, NoStrandedConnection, PermitBalance, At, Holders,
       counters, environment
<1>4. CASE DatabaseChanges
    BY <1>4 DEF DatabaseChanges, IndInv, TypeOK, HandleShape, JoinedTogether, ExclusiveOwnership,
       NoHandleLeak, EntriesMatchHandles, CountersExact, NoStrandedConnection, PermitBalance,
       At, Holders, counters
<1> QED
    BY <1>1, <1>2, <1>3, <1>4

\* The pool as init leaves it satisfies the invariant.
LEMMA InitIndInv == Init => IndInv
<1> SUFFICES ASSUME Init PROVE IndInv
    OBVIOUS
<1>1. /\ connList \in [1..MaxConn -> Conns] /\ IsInjective(connList) /\ MaxConn \in Nat \ {0}
      /\ pc = [t \in Threads |-> "idle"] /\ con = [t \in Threads |-> NULL]
    BY PoolAssumption DEF Init
<1>2. connList \in Seq(Conns) /\ Len(connList) = MaxConn /\ DOMAIN connList = 1..MaxConn
    BY <1>1
<1>3. open = Range(connList) /\ open \subseteq Conns
    BY <1>1, <1>2 DEF Init, Range
<1>4. Holders = {} /\ \A p \in PCs \ {"idle"} : At(p) = {}
    BY <1>1 DEF Holders, At, HoldingPCs
<1>5. TypeOK
    BY <1>1, <1>2, <1>3, PoolAssumption DEF Init, TypeOK, PCs
<1>6. HandleShape /\ JoinedTogether
    BY <1>1 DEF HandleShape, JoinedTogether, HandlePCs, HoldingPCs
<1>7. ExclusiveOwnership /\ NoHandleLeak /\ EntriesMatchHandles
  <2>1. At("close") = {} /\ At("insert") = {}
    BY <1>4 DEF PCs
  <2>2. DOMAIN m_connLastActive = open
    BY DEF Init
  <2> QED
    BY <1>1, <1>3, <2>1, <2>2 DEF ExclusiveOwnership, NoHandleLeak, EntriesMatchHandles
<1>8. CountersExact /\ NoStrandedConnection /\ PermitBalance
  <2>1. At("permit") = {} /\ At("post") = {} /\ At("nopermit") = {} /\ Cardinality({}) = 0
    BY <1>4, FS_EmptySet DEF PCs
  <2>2. Cardinality(At("permit")) = 0 /\ Cardinality(At("post")) = 0 /\ Cardinality(Holders) = 0
    BY <1>4, <2>1, ZenonT(60)
  <2> QED
    BY <1>1, <1>2, <2>1, <2>2 DEF Init, CountersExact, NoStrandedConnection, PermitBalance
<1> QED
    BY <1>5, <1>6, <1>7, <1>8 DEF IndInv

\* Every step of the program keeps the invariant.
LEMMA NextKeepsIndInv == IndInv /\ [Next]_vars => IndInv'
<1> SUFFICES ASSUME IndInv, [Next]_vars PROVE IndInv'
    OBVIOUS
<1>1. ASSUME NEW t \in Threads, GetConnection(t) \/ SemInterrupted(t) \/ ThreadStep(t)
      PROVE  IndInv'
    BY <1>1, ThreadStepKeepsShape, ThreadStepKeepsCounting, ThreadStepKeepsOwnership
       DEF IndInv, Shape, Counting, Ownership
<1> QED
    BY <1>1, OtherStepsKeepIndInv DEF Next

\* The inductive invariant holds in every reachable state of the pool.
THEOREM PoolInvariant == Spec => []IndInv
BY InitIndInv, NextKeepsIndInv, PTL DEF Spec

\* GetConnection and ReleaseConnection never let two owners share a MYSQL
\* handle, whatever threads, outages and signals do.
THEOREM PoolExclusiveOwnership == Spec => []ExclusiveOwnership
<1>1. IndInv => ExclusiveOwnership
    BY DEF IndInv
<1> QED
    BY <1>1, PoolInvariant, PTL

\* m_FreeConn, m_CurConn and m_MaxConn are exact at every step boundary.
THEOREM PoolCountersExact == Spec => []CountersExact
<1>1. IndInv => CountersExact
    BY DEF IndInv
<1> QED
    BY <1>1, PoolInvariant, PTL

\* No idle connection is without a permit: reserve never sleeps beside one.
THEOREM PoolNoStrandedConnection == Spec => []NoStrandedConnection
<1>1. IndInv => NoStrandedConnection
    BY DEF IndInv
<1> QED
    BY <1>1, PoolInvariant, PTL

\* Handles do not leak, and the map of last uses has exactly the open ones, so
\* that the iterator kept across mysql_ping is valid when it is written.
THEOREM PoolHandles == Spec => [](NoHandleLeak /\ EntriesMatchHandles)
<1>1. IndInv => NoHandleLeak /\ EntriesMatchHandles
    BY DEF IndInv
<1> QED
    BY <1>1, PoolInvariant, PTL

\* Without interrupted waits GetConnection never returns NULL for an empty list.
THEOREM PoolPermitFindsConnection == Spec => []PermitFindsConnection
<1>1. IndInv => PermitFindsConnection
  <2> SUFFICES ASSUME IndInv, ~Signals, NEW t \in Threads, pc[t] = "permit"
               PROVE  connList # <<>>
    BY DEF PermitFindsConnection
  <2>1. \A u \in Threads : pc[u] # "joined"
    BY DEF IndInv, JoinedTogether
  <2>2. Len(connList) = reserve + Cardinality(At("permit")) + Cardinality(At("post"))
    BY <2>1 DEF IndInv, PermitBalance
  <2>0. t \in At("permit") /\ reserve \in Nat
    BY DEF At, IndInv, TypeOK
  <2>3. /\ IsFiniteSet(At("permit")) /\ Cardinality(At("permit")) \in Nat
        /\ Cardinality(At("post")) \in Nat
    BY CountedSets, ThreadSets, ZenonT(60)
  <2>4. Cardinality(At("permit")) # 0
    BY <2>0, <2>3, FS_EmptySet
  <2>5. Len(connList) # 0
    BY <2>0, <2>2, <2>3, <2>4
  <2> QED
    BY <2>5
<1> QED
    BY <1>1, PoolInvariant, PTL
=============================================================================
