-------------------------- MODULE LendingServiceMC --------------------------
(* Instances of LendingService, with the views of its record, for TLC.      *)
EXTENDS RequestView
=============================================================================
