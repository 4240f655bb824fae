--------------------------- MODULE MCMouseReport ---------------------------
(* Motions for MouseReport: a rest, small steps and steps that add up past *)
(* eight bits and past every packet's range.                               *)
EXTENDS MouseReport

MC_Moves == {-1, 0, 100}
=============================================================================
