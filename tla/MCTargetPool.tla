---------------------------- MODULE MCTargetPool ----------------------------
(* Bounds of the model-checking runs of TargetPool. *)
EXTENDS TargetPool

CONSTANTS a, b, c, k1, k2, k3, k4

TwoThreads   == {a, b}
ThreeThreads == {a, b, c}
ThreeConns   == {k1, k2, k3}
FourConns    == {k1, k2, k3, k4}
=============================================================================
