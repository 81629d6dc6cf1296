------------------------------ MODULE TimerSet ------------------------------
(***************************************************************************)
(* What HeapTimer promises a sub reactor: at most one timer per            *)
(* descriptor, and a tick that takes the expired timers out one after the  *)
(* other, the earliest first, until none is left.                          *)
(***************************************************************************)
EXTENDS Naturals

CONSTANTS Fds

VARIABLES
    timers,   \* descriptor -> time at which its timer expires
    ticking,  \* a tick is under way
    asof      \* the time the last tick works with

vars == <<timers, ticking, asof>>

Init == timers = [f \in {} |-> 0] /\ ticking = FALSE /\ asof = 0

Set(f) ==
    /\ DOMAIN timers' = DOMAIN timers \cup {f} /\ timers'[f] \in Nat
    /\ \A g \in DOMAIN timers \ {f} : timers'[g] = timers[g]
    /\ UNCHANGED <<ticking, asof>>

Clear(f) ==
    /\ timers' = [x \in DOMAIN timers \ {f} |-> timers[x]]
    /\ UNCHANGED <<ticking, asof>>

Begin == ~ticking /\ ticking' = TRUE /\ asof' \in Nat /\ UNCHANGED timers

\* The owner of the timer may set it again at once.
Fire(f) ==
    /\ ticking
    /\ f \in DOMAIN timers /\ timers[f] <= asof
    /\ \A g \in DOMAIN timers : timers[f] <= timers[g]
    /\ DOMAIN timers \ {f} \subseteq DOMAIN timers' /\ DOMAIN timers' \subseteq DOMAIN timers
    /\ \A g \in DOMAIN timers \ {f} : timers'[g] = timers[g]
    /\ f \in DOMAIN timers' => timers'[f] > asof
    /\ UNCHANGED <<ticking, asof>>

End ==
    /\ ticking /\ ticking' = FALSE
    /\ \A f \in DOMAIN timers : timers[f] > asof
    /\ UNCHANGED <<timers, asof>>

Next == Begin \/ End \/ \E f \in Fds : (~ticking /\ (Set(f) \/ Clear(f))) \/ Fire(f)

Spec == Init /\ [][Next]_vars
=============================================================================
