---------------------------- MODULE HostedMarketMC ----------------------------
(* An instance of the market for TLC: two callers and one match.            *)
EXTENDS HostedMarketProperties, TLC

CONSTANTS o1, w1

OneOffer == o1 :> w1
ClientSymmetry == Permutations(Clients)
=============================================================================
