------------------------------ MODULE TaskPool ------------------------------
(***************************************************************************)
(* What threadpool<T> promises its callers, in both queue modes: a task    *)
(* for which append or append_p returns true is started at most once, in   *)
(* the order the pool accepted the tasks, and no more tasks wait than the  *)
(* queue has room for.  ThreadPoolMutex and ThreadPoolLockfree implement   *)
(* this specification.                                                     *)
(***************************************************************************)
EXTENDS Naturals, Sequences

CONSTANTS Tasks, Capacity

VARIABLES
    waiting,  \* accepted tasks that no worker has taken yet, oldest first
    running,  \* tasks in the hands of a worker
    done      \* executed tasks

vars == <<waiting, running, done>>

Init == waiting = <<>> /\ running = {} /\ done = {}

Accept(t) ==
    /\ Len(waiting) < Capacity
    /\ t \notin running \cup done
    /\ \A i \in 1..Len(waiting) : waiting[i] # t
    /\ waiting' = Append(waiting, t)
    /\ UNCHANGED <<running, done>>

Start ==
    /\ waiting # <<>>
    /\ waiting' = Tail(waiting)
    /\ running' = running \cup {Head(waiting)}
    /\ UNCHANGED done

Finish(t) ==
    /\ t \in running
    /\ running' = running \ {t}
    /\ done' = done \cup {t}
    /\ UNCHANGED waiting

Next == Start \/ \E t \in Tasks : Accept(t) \/ Finish(t)

Spec == Init /\ [][Next]_vars
=============================================================================
