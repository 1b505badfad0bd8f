------------------------ MODULE HostedMarketProperties ------------------------
(* What matching guarantees with concurrent callers on the market blob and  *)
(* on the intake it is combined with.                                       *)
EXTENDS HostedMarket

\* An availability, and a request, has at most one proposal that is pending
\* or accepted at a time (market.ts:34-36: "prevents double allocation"), and a
\* wallet at most one active availability (market.ts:24): what one wallet has
\* offered once is promised once.
NoDoubleAllocation ==
    /\ \A m, n \in DOMAIN market.matches :
          LET one == market.matches[m]  other == market.matches[n]
          IN  m # n /\ Active(one) /\ Active(other)
                => one.offer # other.offer /\ one.request # other.request
    /\ \A one, other \in market.offers \ expired : Wallet[one] = Wallet[other] => one = other

\* Calls that race on the blob, are retried, or whose given-up writes land late
\* are carried out as if one at a time: each write of the market is one command
\* on the state that it replaces, so that no proposal, approval, receipt or
\* decision is erased or reversed, a request and an offer are proposed only
\* while nothing holds them, and an acceptance rests on both approvals and a
\* receipt (market.ts:12-57, matching.ts:26-32).
Promise == INSTANCE MarketPromise WITH offers <- market.offers, matches <- market.matches
KeepsPromise == Promise!Spec

\* An acceptance that was acknowledged holds in both blobs for ever: the match
\* is accepted on both approvals and a receipt, and its request is reviewed
\* (api.ts:65-72, matching.ts:32).
AcceptanceIsWhole ==
    \A n \in acked :
        /\ n \in DOMAIN market.matches
        /\ market.matches[n].decision = "accepted"
        /\ market.matches[n].approvals = Roles /\ market.matches[n].receipt # "none"
        /\ intake[market.matches[n].request].status = "REVIEWED"

\* matching.ts:24: a match whose request was declined is not decided but
\* refused with "Request changed or declined; prepare a new match".
AcceptedIsEligible ==
    [][ \A n \in DOMAIN market.matches :
          market'.matches[n].decision = "accepted" /\ market.matches[n].decision = "pending"
             => Eligible(intake[market.matches[n].request], market.matches[n]) ]_market
=============================================================================
