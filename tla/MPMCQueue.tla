----------------------------- MODULE MPMCQueue ------------------------------
(***************************************************************************)
(* bounded_mpmc_queue of infra/threadpool/threadpool.h, load by load and   *)
(* store by store.  Positions and sequence numbers are size_t of Width     *)
(* bits and wrap; differences are taken as signed numbers of that width.   *)
(* The queue is explored from the state in which Passed tasks have gone    *)
(* through it, so that the wrap is reached.                                *)
(***************************************************************************)
EXTENDS Naturals, Integers, Sequences, FiniteSets

CONSTANTS
    Producers,   \* threads inside enqueue
    Consumers,   \* threads inside dequeue
    Tasks,       \* each is enqueued at most once
    None,        \* no task
    LogCapacity, \* m_capacity = 2^LogCapacity
    Width,       \* bits of size_t
    Passed       \* tasks that went through the queue before

\* Holds of the constants of every instance.
QueueAssumption ==
    /\ LogCapacity \in Nat \ {0}
    /\ Width \in Nat /\ Width > LogCapacity + 1
    /\ Passed \in Nat
    /\ Cardinality(Tasks) < 2^(Width - 1)
    /\ None \notin Tasks

m_capacity == 2^LogCapacity
Word(n) == n % 2^Width
Signed(n) == Word(n + 2^(Width - 1)) - 2^(Width - 1)
Cell(pos) == pos % m_capacity
Cells == 0..(m_capacity - 1)
Threads == Producers \cup Consumers

VARIABLES
    m_enqueue_pos,
    m_dequeue_pos,
    sequence,   \* of each cell
    payload,    \* of each cell
    pc,         \* control point of each thread
    pos,        \* the local variable of that name
    value,      \* argument of enqueue, result of dequeue
    submitted,  \* tasks handed to enqueue
    returned    \* tasks dequeue returned

vars == <<m_enqueue_pos, m_dequeue_pos, sequence, payload, pc, pos, value, submitted, returned>>

\* After the constructor and Passed tasks.
Init ==
    /\ m_enqueue_pos = Word(Passed)
    /\ m_dequeue_pos = Word(Passed)
    /\ sequence = [i \in Cells |-> Word(Passed + ((i - Passed) % m_capacity))]
    /\ payload = [i \in Cells |-> None]
    /\ pc = [x \in Threads |-> "idle"]
    /\ pos = [x \in Threads |-> 0]
    /\ value = [x \in Threads |-> None]
    /\ submitted = {}
    /\ returned = {}

Goto(x, s) == pc' = [pc EXCEPT ![x] = s]
SetPos(x, n) == pos' = [pos EXCEPT ![x] = n]
Same == UNCHANGED <<m_enqueue_pos, m_dequeue_pos, sequence, payload, value, submitted, returned>>

\* The first load of the position.
EnqueueCall(x, t) ==
    /\ pc[x] = "idle" /\ t \notin submitted
    /\ submitted' = submitted \cup {t}
    /\ value' = [value EXCEPT ![x] = t]
    /\ SetPos(x, m_enqueue_pos)
    /\ Goto(x, "seq")
    /\ UNCHANGED <<m_enqueue_pos, m_dequeue_pos, sequence, payload, returned>>

DequeueCall(x) ==
    /\ pc[x] = "idle"
    /\ SetPos(x, m_dequeue_pos)
    /\ Goto(x, "seq")
    /\ Same

\* The position is loaded again, because the cell is ahead of it.
Reload(x) ==
    /\ pc[x] = "reload"
    /\ SetPos(x, IF x \in Producers THEN m_enqueue_pos ELSE m_dequeue_pos)
    /\ Goto(x, "seq")
    /\ Same

\* seq is loaded and compared with the expected number: pos for an empty cell,
\* pos + 1 for a full one.  A negative difference makes the call return false.
Expected(x) == IF x \in Producers THEN pos[x] ELSE Word(pos[x] + 1)
LoadSequence(x) ==
    LET diff == Signed(sequence[Cell(pos[x])] - Expected(x))
    IN  /\ pc[x] = "seq"
        /\ Goto(x, IF diff = 0 THEN "cas" ELSE IF diff < 0 THEN "idle" ELSE "reload")
        /\ UNCHANGED pos
        /\ Same

\* compare_exchange_weak fails, perhaps spuriously, and loads the position.
ExchangeFails(x) ==
    /\ pc[x] = "cas"
    /\ SetPos(x, IF x \in Producers THEN m_enqueue_pos ELSE m_dequeue_pos)
    /\ Goto(x, "seq")
    /\ Same

\* A plausible slip: the exchange is a load followed by a store.
EnqueueExchangeTorn(x) ==
    /\ pc[x] = "cas"
    /\ m_enqueue_pos' = Word(pos[x] + 1)
    /\ Goto(x, "move")
    /\ UNCHANGED <<m_dequeue_pos, sequence, payload, pos, value, submitted, returned>>

EnqueueExchange(x) ==
    /\ pc[x] = "cas"
    /\ m_enqueue_pos = pos[x]
    /\ m_enqueue_pos' = Word(pos[x] + 1)
    /\ Goto(x, "move")
    /\ UNCHANGED <<m_dequeue_pos, sequence, payload, pos, value, submitted, returned>>

DequeueExchange(x) ==
    /\ pc[x] = "cas"
    /\ m_dequeue_pos = pos[x]
    /\ m_dequeue_pos' = Word(pos[x] + 1)
    /\ Goto(x, "move")
    /\ UNCHANGED <<m_enqueue_pos, sequence, payload, pos, value, submitted, returned>>

WritePayload(x) ==
    /\ pc[x] = "move"
    /\ payload' = [payload EXCEPT ![Cell(pos[x])] = value[x]]
    /\ Goto(x, "store")
    /\ UNCHANGED <<m_enqueue_pos, m_dequeue_pos, sequence, pos, value, submitted, returned>>

ReadPayload(x) ==
    /\ pc[x] = "move"
    /\ value' = [value EXCEPT ![x] = payload[Cell(pos[x])]]
    /\ Goto(x, "store")
    /\ UNCHANGED <<m_enqueue_pos, m_dequeue_pos, sequence, payload, pos, submitted, returned>>

\* The cell is full: enqueue returns true.
PublishCell(x) ==
    /\ pc[x] = "store"
    /\ sequence' = [sequence EXCEPT ![Cell(pos[x])] = Word(pos[x] + 1)]
    /\ Goto(x, "idle")
    /\ UNCHANGED <<m_enqueue_pos, m_dequeue_pos, payload, pos, value, submitted, returned>>

\* The cell is empty for the next round: dequeue returns true.
ReleaseCell(x) ==
    /\ pc[x] = "store"
    /\ sequence' = [sequence EXCEPT ![Cell(pos[x])] = Word(pos[x] + m_capacity)]
    /\ returned' = returned \cup {value[x]}
    /\ Goto(x, "idle")
    /\ UNCHANGED <<m_enqueue_pos, m_dequeue_pos, payload, pos, value, submitted>>

Next ==
    \/ \E x \in Threads : Reload(x) \/ LoadSequence(x) \/ ExchangeFails(x)
    \/ \E x \in Producers :
          \/ \E t \in Tasks : EnqueueCall(x, t)
          \/ EnqueueExchange(x) \/ WritePayload(x) \/ PublishCell(x)
    \/ \E x \in Consumers :
          DequeueCall(x) \/ DequeueExchange(x) \/ ReadPayload(x) \/ ReleaseCell(x)

Spec == Init /\ [][Next]_vars
-----------------------------------------------------------------------------
\* The payload of a cell is not an atomic: between its exchange and its store
\* a thread has the cell to itself.
PayloadNotShared ==
    \A x, y \in Threads :
        x # y /\ pc[x] \in {"move", "store"} /\ pc[y] \in {"move", "store"}
            => Cell(pos[x]) # Cell(pos[y])

\* What was loaded before the exchange is still true at an exchange that
\* succeeds, and a call that returns false does so while its position is the
\* current one and its cell is not ready: both loops act as one atomic step.
ExchangeIsAtomic ==
    /\ \A x \in Threads :
          pc[x] = "cas" /\ pos[x] = (IF x \in Producers THEN m_enqueue_pos ELSE m_dequeue_pos)
            => sequence[Cell(pos[x])] = Expected(x)
    /\ \A x \in Threads :
          pc[x] = "seq" /\ Signed(sequence[Cell(pos[x])] - Expected(x)) < 0
            => pos[x] = (IF x \in Producers THEN m_enqueue_pos ELSE m_dequeue_pos)

\* The queue implements TaskPool: first in, first out, nothing lost, nothing
\* twice, never more than m_capacity tasks.
Length == Word(m_enqueue_pos - m_dequeue_pos)
Unwritten(n) == {x \in Producers : pc[x] = "move" /\ pos[x] = n}
TaskAt(n) == IF Unwritten(n) = {} THEN payload[Cell(n)] ELSE value[CHOOSE x \in Unwritten(n) : TRUE]
TakenBy(x) == IF pc[x] = "move" THEN payload[Cell(pos[x])] ELSE value[x]
Abstract == INSTANCE TaskPool WITH
    Capacity <- m_capacity,
    waiting <- [i \in 1..Length |-> TaskAt(Word(m_dequeue_pos + i - 1))],
    running <- {TakenBy(x) : x \in {y \in Consumers : pc[y] \in {"move", "store"}}},
    done <- returned
ImplementsTaskPool == Abstract!Spec
=============================================================================
