------------------------- MODULE MCProjectOwnership -------------------------
(* Instances of ProjectOwnership for TLC.                                  *)
EXTENDS ProjectOwnership
=============================================================================
