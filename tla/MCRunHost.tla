------------------------------ MODULE MCRunHost ------------------------------
(* Instances of RunHost for TLC.                                           *)
EXTENDS RunHost
=============================================================================
