----------------------------- MODULE HeapTimer ------------------------------
(***************************************************************************)
(* infra/timer/heap_timer.cpp and its use by one sub reactor: refresh_timer *)
(* after every event, remove_connection, and scan_timeout after every      *)
(* batch of events.                                                        *)
(*                                                                         *)
(* The heap is a binary heap in a vector, with an index from descriptors   *)
(* to places.  Places count from 1 (parent n \div 2, children 2n, 2n + 1). *)
(* Workers record activity on a connection without touching its timer.     *)
(***************************************************************************)
EXTENDS Naturals, Integers, Sequences, FiniteSets

CONSTANTS
    Fds,
    Shared,    \* descriptors on which workers act, too
    Timeout,   \* m_conn_timeout
    MaxTime    \* bound: the clock

\* Holds of the constants of every instance.
TimerAssumption == Shared \subseteq Fds /\ Timeout \in Nat \ {0} /\ MaxTime \in Nat

VARIABLES
    now,
    m_heap,      \* sequence of [sockfd, expire]
    m_index,     \* descriptor -> place in m_heap
    tick_now,    \* the time tick() read
    ticking,     \* tick() is under way
    last_active  \* of the descriptors with an open connection

vars == <<now, m_heap, m_index, tick_now, ticking, last_active>>
open == DOMAIN last_active

Init ==
    /\ now = 0
    /\ m_heap = <<>>
    /\ m_index = [f \in {} |-> 0]
    /\ tick_now = 0 /\ ticking = FALSE
    /\ last_active = [f \in {} |-> 0]
-----------------------------------------------------------------------------
(***************************************************************************)
(* The heap.  h is a record of m_heap and m_index.                         *)
(***************************************************************************)
Timer == [heap |-> m_heap, index |-> m_index]
Expire(h, i) == h.heap[i].expire
Without(f, k) == [x \in DOMAIN f \ {k} |-> f[x]]
Put(f, k, v) == [x \in DOMAIN f \cup {k} |-> IF x = k THEN v ELSE f[x]]

swap_node(h, i, j) ==
    [heap  |-> [h.heap EXCEPT ![i] = h.heap[j], ![j] = h.heap[i]],
     index |-> [h.index EXCEPT ![h.heap[j].sockfd] = i, ![h.heap[i].sockfd] = j]]

RECURSIVE sift_up(_, _)
sift_up(h, i) ==
    LET parent == i \div 2
    IN  IF i = 1 \/ Expire(h, parent) <= Expire(h, i) THEN h
        ELSE sift_up(swap_node(h, parent, i), parent)

RECURSIVE sift_down(_, _)
sift_down(h, i) ==
    LET below == {c \in {2 * i, 2 * i + 1} : c <= Len(h.heap) /\ Expire(h, c) < Expire(h, i)}
        smallest == CHOOSE c \in below : \A d \in below :
                        Expire(h, c) < Expire(h, d) \/ (Expire(h, c) = Expire(h, d) /\ c <= d)
    IN  IF below = {} THEN h ELSE sift_down(swap_node(h, i, smallest), smallest)

\* Up; down only when nothing moved up.
sift(h, i) == LET up == sift_up(h, i) IN IF up # h THEN up ELSE sift_down(h, i)

add_or_update(h, f, e) ==
    IF f \in DOMAIN h.index
    THEN sift([h EXCEPT !.heap[h.index[f]].expire = e], h.index[f])
    ELSE LET n == Len(h.heap) + 1
         IN  sift_up([heap |-> Append(h.heap, [sockfd |-> f, expire |-> e]),
                      index |-> Put(h.index, f, n)], n)

\* A plausible slip: the node that takes the place of the deleted one is only
\* moved down.
DeleteAtDownOnly(h, i) ==
    LET last == Len(h.heap)
        swapped == IF i = last THEN h ELSE swap_node(h, i, last)
        rest == [heap |-> SubSeq(swapped.heap, 1, last - 1),
                 index |-> Without(swapped.index, h.heap[i].sockfd)]
    IN  IF i >= last THEN rest ELSE sift_down(rest, i)

delete_at(h, i) ==
    LET last == Len(h.heap)
        swapped == IF i = last THEN h ELSE swap_node(h, i, last)
        rest == [heap |-> SubSeq(swapped.heap, 1, last - 1),
                 index |-> Without(swapped.index, h.heap[i].sockfd)]
    IN  IF i >= last THEN rest ELSE sift(rest, i)

Store(h) == m_heap' = h.heap /\ m_index' = h.index

\* In the time units of the clock; -1 is no timer.
get_next_timeout_ms ==
    IF m_heap = <<>> THEN -1
    ELSE IF m_heap[1].expire <= now THEN 0
    ELSE m_heap[1].expire - now
-----------------------------------------------------------------------------
(***************************************************************************)
(* The sub reactor                                                         *)
(***************************************************************************)

\* register_connection: init() records activity, refresh_timer adds the timer.
register_connection(f) ==
    /\ ~ticking /\ f \notin open
    /\ last_active' = Put(last_active, f, now)
    /\ Store(add_or_update(Timer, f, now + Timeout))
    /\ UNCHANGED <<now, tick_now, ticking>>

\* An event was handled; reading or writing recorded activity.
refresh_timer(f) ==
    /\ ~ticking /\ f \in open
    /\ last_active' = [last_active EXCEPT ![f] = now]
    /\ Store(add_or_update(Timer, f, now + Timeout))
    /\ UNCHANGED <<now, tick_now, ticking>>

\* The connection turned out to be closed, or was closed by its event.
remove_connection(f) ==
    /\ ~ticking
    /\ last_active' = Without(last_active, f)
    /\ IF f \in DOMAIN m_index THEN Store(delete_at(Timer, m_index[f]))
       ELSE UNCHANGED <<m_heap, m_index>>
    /\ UNCHANGED <<now, tick_now, ticking>>

\* A worker reads or writes, or closes the connection; its timer stays.
WorkerActive(f) ==
    /\ f \in open \cap Shared
    /\ last_active' = [last_active EXCEPT ![f] = now]
    /\ UNCHANGED <<now, m_heap, m_index, tick_now, ticking>>

WorkerCloses(f) ==
    /\ f \in open \cap Shared
    /\ last_active' = Without(last_active, f)
    /\ UNCHANGED <<now, m_heap, m_index, tick_now, ticking>>

\* scan_timeout reads the clock ...
scan_timeout ==
    /\ ~ticking
    /\ ticking' = TRUE /\ tick_now' = now
    /\ UNCHANGED <<now, m_heap, m_index, last_active>>

Due == m_heap # <<>> /\ m_heap[1].expire <= tick_now

\* A plausible slip: the timer of an active connection is not added again.
TickForgets ==
    /\ ticking
    /\ Due
    /\ Store(delete_at(Timer, 1))
    /\ last_active' = IF m_heap[1].sockfd \in open /\ now - last_active[m_heap[1].sockfd] < Timeout
                      THEN last_active ELSE Without(last_active, m_heap[1].sockfd)
    /\ UNCHANGED <<now, tick_now, ticking>>

\* ... tick takes the first timer out and calls back: nothing for a closed
\* connection, another full timeout for an active one, or the end of it.
tick ==
    LET f == m_heap[1].sockfd
        rest == delete_at(Timer, 1)
    IN  /\ ticking
        /\ Due
        /\ IF f \in open /\ now - last_active[f] < Timeout
           THEN Store(add_or_update(rest, f, now + Timeout)) /\ UNCHANGED last_active
           ELSE Store(rest) /\ last_active' = Without(last_active, f)
        /\ UNCHANGED <<now, tick_now, ticking>>

tick_ends ==
    /\ ticking
    /\ ~Due
    /\ ticking' = FALSE
    /\ UNCHANGED <<now, m_heap, m_index, tick_now, last_active>>

\* epoll_wait sleeps no longer than get_next_timeout_ms says, and the reactor
\* is assumed to be prompt: a time at which a timer is due does not pass before
\* scan_timeout has run.
Advance ==
    /\ now < MaxTime
    /\ ~ticking /\ get_next_timeout_ms # 0
    /\ now' = now + 1
    /\ UNCHANGED <<m_heap, m_index, tick_now, ticking, last_active>>

Next ==
    \/ \E f \in Fds :
          \/ register_connection(f) \/ refresh_timer(f) \/ remove_connection(f)
          \/ WorkerActive(f) \/ WorkerCloses(f)
    \/ scan_timeout \/ tick \/ tick_ends \/ Advance

Spec == Init /\ [][Next]_vars
-----------------------------------------------------------------------------
(***************************************************************************)
(* Properties                                                              *)
(***************************************************************************)

\* An open connection has a timer and is idle for less than twice m_conn_timeout
\* (scan_timeout grants an active one a full timeout again, counted from the
\* scan and not from the activity).
IdleClosedInTime ==
    \A f \in open : f \in DOMAIN m_index /\ now - last_active[f] < 2 * Timeout

\* The heap of heap_timer.cpp behaves like a set of timers of which tick takes
\* the earliest first and leaves none that is due.
Timers == [f \in {m_heap[i].sockfd : i \in DOMAIN m_heap} |->
             m_heap[CHOOSE i \in DOMAIN m_heap : m_heap[i].sockfd = f].expire]
Abstract == INSTANCE TimerSet WITH timers <- Timers, asof <- tick_now
ImplementsTimerSet == Abstract!Spec
=============================================================================
