--------------------------- MODULE TargetArbiter ---------------------------
(***************************************************************************)
(* What the locks of the bridge are for, without the locks: on every       *)
(* target, either some capture sessions are open, one per path, or one     *)
(* operation has the target to itself.  BatchRun implements it.            *)
(***************************************************************************)
EXTENDS Naturals

CONSTANTS Targets, Paths, Workers

VARIABLES
    exclusive,  \* exclusive[t]: the workers that have target t to themselves
    capture     \* capture[t]: the paths whose capture session is open on t

vars == <<exclusive, capture>>

Init ==
    /\ exclusive = [t \in Targets |-> {}]
    /\ capture = [t \in Targets |-> {}]

EnterExclusive(t, w) ==
    /\ exclusive[t] = {}
    /\ capture[t] = {}
    /\ exclusive' = [exclusive EXCEPT ![t] = {w}]
    /\ UNCHANGED capture

LeaveExclusive(t, w) ==
    /\ exclusive[t] = {w}
    /\ exclusive' = [exclusive EXCEPT ![t] = {}]
    /\ UNCHANGED capture

OpenCapture(t, p) ==
    /\ exclusive[t] = {}
    /\ p \notin capture[t]
    /\ capture' = [capture EXCEPT ![t] = @ \cup {p}]
    /\ UNCHANGED exclusive

CloseCapture(t, p) ==
    /\ p \in capture[t]
    /\ capture' = [capture EXCEPT ![t] = @ \ {p}]
    /\ UNCHANGED exclusive

Next ==
    \E t \in Targets :
        \/ \E w \in Workers : EnterExclusive(t, w) \/ LeaveExclusive(t, w)
        \/ \E p \in Paths : OpenCapture(t, p) \/ CloseCapture(t, p)

Spec == Init /\ [][Next]_vars

============================================================================
