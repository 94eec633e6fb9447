----------------------------- MODULE MCToolCall -----------------------------
(* Bounds of the model-checking run of ToolCall. *)
EXTENDS ToolCall

CONSTANTS c1, c2, h1, p1, tag, shell

TwoCalls == {c1, c2}
OneHost  == {h1}
OneClass == {shell}
OnePath  == {p1}
Tagged   == {<<tag>>, <<h1>>}
TwoRows  == {tag :> <<h1, h1>>, tag :> <<>>}
Alternatives == {{"race"}, {"fails"}}
=============================================================================
