---- MODULE MCTargetRegistry ----
(* Bounds of the model-checking run of TargetRegistry. *)
EXTENDS TargetRegistry, TLC

CONSTANTS h1, w1, w2, w3, p1, shell

OneHost      == {h1}
TwoPorts     == {1, 2}
ThreeWorkers == {w1, w2, w3}
OnePath      == {p1}
Classes      == {SYSTEM, shell}
FirstModern  == {<<h1, 1>>}
Alternatives == {{}, {"restart"}, FaultKinds}

Symmetry == Permutations(Workers)
====
