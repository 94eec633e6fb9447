---------------------------- MODULE BoundedPool ----------------------------
(***************************************************************************)
(* What a connection pool promises its users: at most MaxConn of them hold *)
(* a slot at a time, and a connection in use belongs to one of them.       *)
(* TargetPool implements it.                                               *)
(***************************************************************************)
EXTENDS FiniteSets, Naturals

CONSTANTS Threads, Conns, NoConn, MaxConn

VARIABLES
    slots,  \* the threads that hold one of the MaxConn slots
    using   \* using[th]: the connection in thread th's hands

vars == <<slots, using>>

Init ==
    /\ slots = {}
    /\ using = [th \in Threads |-> NoConn]

TakeSlot(th) ==
    /\ th \notin slots
    /\ Cardinality(slots) < MaxConn
    /\ slots' = slots \cup {th}
    /\ UNCHANGED using

Grant(th, c) ==
    /\ th \in slots
    /\ using[th] = NoConn
    /\ \A other \in Threads : using[other] # c
    /\ using' = [using EXCEPT ![th] = c]
    /\ UNCHANGED slots

\* With a connection, or without one when none could be made.
GiveBack(th) ==
    /\ th \in slots
    /\ slots' = slots \ {th}
    /\ using' = [using EXCEPT ![th] = NoConn]

Next ==
    \E th \in Threads :
        TakeSlot(th) \/ GiveBack(th) \/ \E c \in Conns : Grant(th, c)

Spec == Init /\ [][Next]_vars

============================================================================
