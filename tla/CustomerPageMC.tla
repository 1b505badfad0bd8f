--------------------------- MODULE CustomerPageMC ---------------------------
(* An instance of CustomerPage for TLC.                                     *)
EXTENDS CustomerPage, TLC

Symmetry == Permutations(Ids)
=============================================================================
