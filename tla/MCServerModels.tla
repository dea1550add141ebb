--------------------------- MODULE MCServerModels ---------------------------
(* Instances of the router for TLC. *)
EXTENDS ServerModels, TLC

CONSTANTS a, b, r1, r2

TwoModels == {a, b}
OneModel == {a}
TwoRequesters == {r1, r2}
=============================================================================
