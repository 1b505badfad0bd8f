---------------------------- MODULE IntakePromise ----------------------------
(* What the shared intake promises, with no storage, client or retry in it: *)
(* a request ID belongs to its first details for ever, a review happens     *)
(* once and against the version it names, and final reviews are final.      *)
EXTENDS Naturals, Sequences, FiniteSets

CONSTANTS Requests, Details, MaxRequests

VARIABLE intake

Fresh(details) == [details |-> details, status |-> "AWAITING_REVIEW", history |-> <<"submitted">>]
Nobody == [details |-> "none", status |-> "NONE", history |-> <<>>]
Known == {id \in Requests : intake[id] # Nobody}

Init == intake = [id \in Requests |-> Nobody]

Submit(id, details) ==
    /\ intake[id] = Nobody
    /\ Cardinality(Known) < MaxRequests
    /\ intake' = [intake EXCEPT ![id] = Fresh(details)]

Review(id, from, decision, to) ==
    /\ intake[id].status = from
    /\ intake' = [intake EXCEPT ![id].status = to, ![id].history = Append(@, decision)]

Next ==
    \E id \in Requests :
        \/ \E details \in Details : Submit(id, details)
        \/ Review(id, "AWAITING_REVIEW", "start-review", "UNDER_REVIEW")
        \/ Review(id, "UNDER_REVIEW", "request-revision", "NEEDS_REVISION")
        \/ Review(id, "UNDER_REVIEW", "finish-review", "REVIEWED")
        \/ Review(id, "UNDER_REVIEW", "reject-request", "REJECTED")

Spec == Init /\ [][Next]_intake
=============================================================================
