---- MODULE MCUpgrade ----
(* Bounds of the model-checking runs of Upgrade. *)
EXTENDS Upgrade

CONSTANTS c1, c2, t1, v1, i1, i2, i3, i4

TwoCalls     == {c1, c2}
OneTarget    == {t1}
OneVersion   == {v1}
FourInodes   == {i1, i2, i3, i4}
Alternatives == {{"crash", "late"}, {"overlap"}}
Overlapping  == {{"overlap"}}
====
