---------------------------- MODULE HostedSiteMC ----------------------------
(* An instance of HostedSite for TLC.                                       *)
EXTENDS HostedSite, TLC

Limits == [total |-> 3, hour |-> 2, session |-> 2]
Symmetry == Permutations(Runs) \cup Permutations(Callers) \cup Permutations(Sessions)
=============================================================================
