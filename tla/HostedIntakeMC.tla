---------------------------- MODULE HostedIntakeMC ----------------------------
(* Instances of the shared intake for TLC.                                  *)
EXTENDS HostedIntakeProperties, TLC

Symmetry == Permutations(Requests) \cup Permutations(Clients) \cup Permutations(Details)
=============================================================================
