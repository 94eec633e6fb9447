----------------------------- MODULE MCBatchRun -----------------------------
(* Bounds of the model-checking runs of BatchRun. *)
EXTENDS BatchRun, TLC

CONSTANTS w1, w2, w3, t1, p1, p2, shell, replay

TwoWorkers   == {w1, w2}
ThreeWorkers == {w1, w2, w3}
OneTarget    == {t1}
OnePath      == {p1}
TwoPaths     == {p1, p2}
OneClass     == {shell}
TwoClasses   == {shell, replay}

Symmetry == Permutations(Workers) \cup Permutations(Targets)
                \cup Permutations(Paths) \cup Permutations(ExclusiveClasses)

\* A run may begin with an open session on every path: the state one call of
\* capture_start per path leads to.
InitInSession ==
    /\ locks = [t \in Targets |-> [Unlocked EXCEPT !.captures = Paths]]
    /\ pc = [w \in Workers |-> "idle"]
    /\ req = [w \in Workers |-> NoRequest]
    /\ ok = [w \in Workers |-> TRUE]
    /\ capturing = [t \in Targets |-> Paths]
    /\ detached = {}
    /\ sessions = [t \in Targets |-> Paths]
    /\ lost = [t \in Targets |-> {}]

SpecInSession == InitInSession /\ [][Next]_vars
=============================================================================
