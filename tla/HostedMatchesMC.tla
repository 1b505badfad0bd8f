--------------------------- MODULE HostedMatchesMC ---------------------------
(* An instance of the market for TLC in which requests compete for offers:  *)
(* two of the three offers are of one wallet.                               *)
EXTENDS HostedMarketProperties, TLC

CONSTANTS
    o1, o2, o3, w1, w2,
    MaxWrites           \* bound on the writes of the market

ThreeOffers == o1 :> w1 @@ o2 :> w1 @@ o3 :> w2

\* The offers of one wallet are alike, and so are the requests.
TwinSymmetry == {f @@ g : f \in Permutations(Requests), g \in Permutations({o1, o2})}

\* Requests that were submitted and taken into review before anybody uses the
\* market; their reviews come to an end while they are matched.
UnderReview(details) ==
    [details |-> details, status |-> "UNDER_REVIEW", history |-> <<"submitted", "start-review">>]

MCInit ==
    /\ \E details \in Details : intake = [id \in Requests |-> UnderReview(details)]
    /\ Unwritten

MCSpec == MCInit /\ [][Next /\ etag' <= MaxWrites]_vars
=============================================================================
