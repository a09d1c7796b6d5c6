---------------------------- MODULE MCCoreRuntime ----------------------------
(* Instances of CoreRuntime for TLC.                                       *)
EXTENDS CoreRuntime
=============================================================================
