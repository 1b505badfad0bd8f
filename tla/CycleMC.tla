------------------------------- MODULE CycleMC -------------------------------
(* Instances of the native cycle for TLC.                                   *)
EXTENDS CycleView
=============================================================================
