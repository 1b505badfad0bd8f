---------------------------- MODULE MarketPromise ----------------------------
(* What the matching market promises to borrowers and lenders, as if it     *)
(* carried out one command at a time, with no blob, retry or call in it:    *)
(* who is promised to whom, and what a decision rests on. An offer may      *)
(* lapse at any time, also while a command on it is under way.              *)
EXTENDS Naturals, Sequences, FiniteSets

CONSTANTS Requests, Details, Offers, Wallet, Receipts, MaxOffers, MaxMatches

VARIABLES
    offers,     \* availability on record
    matches,    \* proposals on record, in their order
    expired     \* offers whose time has passed

vars == <<offers, matches, expired>>

Roles == {"borrower", "lender"}

Init == offers = {} /\ matches = <<>> /\ expired = {}

\* A wallet offers once what it has, until that offer lapses.
Offer(offer) ==
    /\ offer \notin offers /\ Cardinality(offers) < MaxOffers
    /\ \A other \in offers \ expired : Wallet[other] # Wallet[offer]
    /\ offers' = offers \cup {offer}
    /\ UNCHANGED <<matches, expired>>

\* A proposal that holds its offer and its request.
Holds(match) == match.decision # "declined" /\ match.offer \notin expired

Proposal(request, details, offer) ==
    [request |-> request, details |-> details, offer |-> offer,
     approvals |-> {}, receipt |-> "none", decision |-> "pending"]

Propose(request, details, offer) ==
    /\ offer \in offers /\ Len(matches) < MaxMatches
    /\ \A n \in DOMAIN matches :
          Holds(matches[n]) => matches[n].offer # offer /\ matches[n].request # request
    /\ matches' = Append(matches, Proposal(request, details, offer))
    /\ UNCHANGED <<offers, expired>>

\* Only a proposal that is not decided changes, and only by what is said of it.
Becomes(n, match) ==
    /\ matches[n].decision = "pending"
    /\ matches' = [matches EXCEPT ![n] = match]
    /\ UNCHANGED <<offers, expired>>

Approve(n, role) == Becomes(n, [matches[n] EXCEPT !.approvals = @ \cup {role}])

\* The receipt is of what both have approved, and there is only one.
Keep(n, receipt) ==
    /\ matches[n].approvals = Roles /\ matches[n].receipt = "none"
    /\ Becomes(n, [matches[n] EXCEPT !.receipt = receipt])

Decline(n) == Becomes(n, [matches[n] EXCEPT !.decision = "declined"])

Accept(n) ==
    /\ matches[n].approvals = Roles /\ matches[n].receipt # "none"
    /\ Becomes(n, [matches[n] EXCEPT !.decision = "accepted"])

Expire(offer) ==
    /\ expired' = expired \cup {offer}
    /\ UNCHANGED <<offers, matches>>

Next ==
    \/ \E offer \in Offers :
          \/ Offer(offer) \/ Expire(offer)
          \/ \E request \in Requests, details \in Details : Propose(request, details, offer)
    \/ \E n \in DOMAIN matches :
          \/ Decline(n) \/ Accept(n)
          \/ \E role \in Roles : Approve(n, role)
          \/ \E receipt \in Receipts : Keep(n, receipt)

Spec == Init /\ [][Next]_vars
=============================================================================
