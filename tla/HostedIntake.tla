---------------------------- MODULE HostedIntake ----------------------------
(* The shared intake of the hosted site: HostedIntake.mutate                *)
(* (src/hosted/intake.ts) runs IntakeService.create or review               *)
(* (src/requests/intake.ts) on a snapshot of one blob and writes it back    *)
(* under the snapshot's etag, at most MaxAttempts times. Serverless         *)
(* instances run concurrently, and the answer of any put may be lost.       *)
EXTENDS Naturals, Sequences, FiniteSets

CONSTANTS
    Requests,       \* client request IDs
    Details,        \* what a request may ask for (its requestDigest)
    Clients,        \* calls that can be in progress at the same time
    MaxRequests,    \* the workspace limit (100 in the code)
    MaxAttempts,    \* attempts of one mutate (3 in the code)
    MaxInFlight     \* bound on the writes under way at the same time

ASSUME LimitsAssumption == MaxRequests \in Nat /\ MaxAttempts \in Nat \ {0}

VARIABLES
    intake, etag, puts, landed, \* the blob, see Blob
    client,                     \* per client: the mutate in progress
    acked                       \* inputs whose caller was told of success (history)

store == <<intake, etag, puts, landed>>
vars == <<store, client, acked>>

Store == INSTANCE Blob WITH content <- intake

Decisions == {"start-review", "request-revision", "finish-review", "reject-request"}

Nobody == [details |-> "none", status |-> "NONE", revision |-> 0, history |-> <<>>, lastReview |-> {}]

Creations == [id : Requests, details : Details]
Reviews == [id : Requests, details : Details, expectedRevision : 1..2, decision : Decisions]
Inputs == Creations \cup Reviews
IsReview(input) == input \in Reviews

NoPut == [writer |-> "none", seen |-> 0, content |-> [id \in Requests |-> Nobody]]
NoInput == [id |-> "none", details |-> "none"]
Calm == [pc |-> "idle", input |-> NoInput,
         attempt |-> 1, put |-> NoPut, told |-> "nothing"]

Init ==
    /\ intake = [id \in Requests |-> Nobody]
    /\ etag = 0
    /\ puts = {}
    /\ landed = {}
    /\ client = [c \in Clients |-> Calm]
    /\ acked = {}

-----------------------------------------------------------------------------
(* IntakeService on one snapshot: is the input refused, and what it makes   *)
(* of the records. An input that was applied before changes nothing.        *)
Known(records) == {id \in Requests : records[id] # Nobody}

createRefused(records, input) ==
    IF records[input.id] # Nobody
    THEN records[input.id].details # input.details
    ELSE Cardinality(Known(records)) >= MaxRequests

create(records, input) ==
    IF records[input.id] # Nobody THEN records
    ELSE [records EXCEPT ![input.id] =
             [details |-> input.details, status |-> "AWAITING_REVIEW", revision |-> 1,
              history |-> <<"submitted">>, lastReview |-> {}]]

\* Mutant: the version the broker has seen is not compared.
reviewRefusedUnversioned(records, input) ==
    LET request == records[input.id]
    IN  \/ request = Nobody
        \/ /\ input \notin request.lastReview
           /\ \/ request.details # input.details
              \/ request.status \notin {"AWAITING_REVIEW", "UNDER_REVIEW"}

reviewRefused(records, input) ==
    LET request == records[input.id]
    IN  \/ request = Nobody
        \/ /\ input \notin request.lastReview
           /\ \/ request.revision # input.expectedRevision \/ request.details # input.details
              \/ request.status # IF input.decision = "start-review"
                                  THEN "AWAITING_REVIEW" ELSE "UNDER_REVIEW"

Outcome(decision) ==
    CASE decision = "start-review" -> "UNDER_REVIEW"
      [] decision = "request-revision" -> "NEEDS_REVISION"
      [] decision = "reject-request" -> "REJECTED"
      [] decision = "finish-review" -> "REVIEWED"

review(records, input) ==
    IF input \in records[input.id].lastReview THEN records
    ELSE [records EXCEPT ![input.id].status = Outcome(input.decision),
                         ![input.id].revision = @ + 1,
                         ![input.id].lastReview = {input},
                         ![input.id].history = Append(@, input.decision)]

refused(records, input) ==
    IF IsReview(input) THEN reviewRefused(records, input) ELSE createRefused(records, input)
applied(records, input) ==
    IF IsReview(input) THEN review(records, input) ELSE create(records, input)

-----------------------------------------------------------------------------
(* HostedIntake.mutate.                                                     *)
\* What the caller is told: ok, refused, or unconfirmed.
Answer(c, told) ==
    /\ client' = [client EXCEPT ![c] = [Calm EXCEPT !.told = told]]
    /\ acked' = IF told = "ok" THEN acked \cup {client[c].input} ELSE acked
    /\ Store!Forget(c)

mutate(c, input) ==
    /\ client[c].pc = "idle"
    /\ client' = [client EXCEPT ![c] = [Calm EXCEPT !.pc = "read", !.input = input]]
    /\ UNCHANGED <<store, acked>>

\* The snapshot settles the call: it is refused, or was applied before.
readSettles(c) ==
    /\ client[c].pc = "read"
    /\ LET input == client[c].input
       IN  \/ refused(intake, input) /\ Answer(c, "refused")
           \/ /\ ~refused(intake, input) /\ applied(intake, input) = intake
              /\ Answer(c, "ok")

readThenPut(c) ==
    /\ client[c].pc = "read"
    /\ LET input == client[c].input
           records == applied(intake, input)
           put == Store!Put(c, records)
       IN  /\ ~refused(intake, input) /\ records # intake
           /\ Store!Send(put)
           /\ client' = [client EXCEPT ![c].pc = "swap", ![c].put = put]
    /\ UNCHANGED acked

readFails(c) ==
    /\ client[c].pc = "read"
    /\ Answer(c, "unconfirmed")

confirmed(c) ==
    /\ client[c].pc = "swap"
    /\ client[c].put \in landed
    /\ Answer(c, "ok")

\* Mutant: the conflict is taken for a success.
swapFailsSilently(c) ==
    /\ client[c].pc = "swap"
    /\ Answer(c, "ok")

\* A conflict, an outage, a timeout or a lost answer all look alike.
swapFails(c) ==
    /\ client[c].pc = "swap"
    /\ IF client[c].attempt = MaxAttempts
       THEN Answer(c, "unconfirmed")
       ELSE /\ client' = [client EXCEPT ![c].pc = "read", ![c].put = NoPut, ![c].attempt = @ + 1]
            /\ UNCHANGED <<store, acked>>

putLands == /\ \E put \in puts : Store!Lands(put)
            /\ UNCHANGED <<client, acked>>

Step(c) == readSettles(c) \/ readThenPut(c) \/ readFails(c) \/ confirmed(c) \/ swapFails(c)

Next ==
    \/ \E c \in Clients : Step(c) \/ \E input \in Inputs : mutate(c, input)
    \/ putLands

Spec == Init /\ [][Next]_vars
=============================================================================
