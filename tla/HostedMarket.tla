---------------------------- MODULE HostedMarket ----------------------------
(* The matching workspace of the hosted site: POST /api/market              *)
(* (src/hosted/api.ts) reads the shared intake once, runs one command of    *)
(* market() (src/hosted/market.ts) against the market blob with conditional *)
(* writes, and after an acceptance carries the decision over to the intake. *)
(* The two blobs are never written together. The intake is taken as what it *)
(* promises (IntakePromise, implemented by HostedIntake); a broker reviews  *)
(* requests beside the market at any time.                                  *)
EXTENDS Naturals, Sequences, FiniteSets

CONSTANTS
    Requests, Details, MaxRequests,     \* the shared intake, see IntakePromise
    Offers, Wallet,                     \* availability and the account behind each
    Receipts,                           \* receipts the authority can recover
    MaxOffers, MaxMatches,              \* limits (100 and 200 in the code)
    Clients,                            \* calls that can be in progress at the same time
    MaxAttempts,                        \* attempts of one call (3 in the code)
    MaxInFlight                         \* bound on the writes under way at the same time

ASSUME MarketAssumption ==
    /\ DOMAIN Wallet = Offers
    /\ MaxOffers \in Nat /\ MaxMatches \in Nat /\ MaxAttempts \in Nat \ {0}

VARIABLES
    intake,                         \* the shared intake
    market, etag, puts, landed,     \* the market blob, see Blob
    expired,                        \* offers whose expiresAt has passed
    client,                         \* per client: the call in progress
    acked                           \* matches whose acceptance was acknowledged (history)

store == <<market, etag, puts, landed>>
vars == <<intake, store, expired, client, acked>>

Intake == INSTANCE IntakePromise
Store == INSTANCE Blob WITH content <- market

Roles == {"borrower", "lender"}
Ineligible == {"REJECTED", "NEEDS_REVISION"}

Commands ==
    [action : {"offer"}, offer : Offers]
    \cup [action : {"match"}, request : Requests, offer : Offers]
    \cup [action : {"receipt"}, match : 1..MaxMatches, receipt : Receipts]
    \cup [action : {"decision"}, match : 1..MaxMatches,
          decision : Roles \cup {"accepted", "declined"}]

Empty == [offers |-> {}, matches |-> <<>>]
NoPut == [writer |-> "none", seen |-> 0, content |-> Empty]
NoCommand == [action |-> "none"]
Calm == [pc |-> "idle", command |-> NoCommand, requests |-> [id \in Requests |-> Intake!Nobody],
         attempt |-> 1, put |-> NoPut, revision |-> 0]

\* No market has been written, and nobody calls.
Unwritten ==
    /\ market = Empty
    /\ etag = 0
    /\ puts = {}
    /\ landed = {}
    /\ expired = {}
    /\ client = [c \in Clients |-> Calm]
    /\ acked = {}

Init == Intake!Init /\ Unwritten

-----------------------------------------------------------------------------
(* One command on one state of the market, with the requests listed before. *)
Active(match) == match.decision # "declined" /\ match.offer \notin expired
Eligible(request, match) ==
    request.details = match.details /\ request.status \notin Ineligible

offerRefused(state, command) ==
    \/ command.offer \in expired
    \/ /\ command.offer \notin state.offers
       /\ \/ \E other \in state.offers \ expired : Wallet[other] = Wallet[command.offer]
          \/ Cardinality(state.offers) >= MaxOffers

Prior(state, requests, command) ==
    \E n \in DOMAIN state.matches :
        LET match == state.matches[n]
        IN  /\ Active(match)
            /\ match.request = command.request /\ match.offer = command.offer
            /\ match.details = requests[command.request].details

\* Mutant: an offer may be promised to two requests.
matchRefusedPerRequest(state, requests, command) ==
    LET request == requests[command.request]
    IN  \/ request = Intake!Nobody \/ command.offer \notin state.offers
        \/ request.status \in Ineligible \/ command.offer \in expired
        \/ \E n \in DOMAIN state.matches :
              /\ Active(state.matches[n])
              /\ state.matches[n].request = command.request
        \/ Len(state.matches) >= MaxMatches

matchRefused(state, requests, command) ==
    LET request == requests[command.request]
    IN  \/ request = Intake!Nobody \/ command.offer \notin state.offers
        \/ request.status \in Ineligible \/ command.offer \in expired
        \/ \E n \in DOMAIN state.matches :
              /\ Active(state.matches[n])
              /\ \/ state.matches[n].offer = command.offer
                 \/ state.matches[n].request = command.request
        \/ Len(state.matches) >= MaxMatches

receiptRefused(state, requests, command) ==
    \/ command.match \notin DOMAIN state.matches
    \/ LET match == state.matches[command.match]
       IN  \/ match.approvals # Roles
           \/ requests[match.request].details # match.details
           \/ match.decision # "pending" \/ match.offer \in expired
           \/ match.receipt \notin {"none", command.receipt}

decisionRefused(state, requests, command) ==
    \/ command.match \notin DOMAIN state.matches
    \/ LET match == state.matches[command.match]
       IN  \/ ~Eligible(requests[match.request], match)
           \/ match.offer \in expired
           \/ match.decision \notin {"pending", command.decision}
           \/ /\ command.decision = "accepted"
              /\ match.approvals # Roles \/ match.receipt = "none"

refused(state, requests, command) ==
    CASE command.action = "offer" -> offerRefused(state, command)
      [] command.action = "match" ->
            ~Prior(state, requests, command) /\ matchRefused(state, requests, command)
      [] command.action = "receipt" -> receiptRefused(state, requests, command)
      [] command.action = "decision" -> decisionRefused(state, requests, command)

propose(state, requests, command) ==
    IF Prior(state, requests, command) THEN state
    ELSE [state EXCEPT !.matches = Append(@,
            [request |-> command.request, details |-> requests[command.request].details,
             offer |-> command.offer, approvals |-> {}, receipt |-> "none", decision |-> "pending"])]

\* Mutant: a decision that was made can be made again, the other way.
decideMatchAgain(match, decision) ==
    IF decision \in Roles THEN [match EXCEPT !.approvals = {decision}]
    ELSE [match EXCEPT !.decision = decision]

decideMatch(match, decision) ==
    IF match.decision # "pending" THEN match
    ELSE IF decision \in Roles THEN [match EXCEPT !.approvals = @ \cup {decision}]
    ELSE [match EXCEPT !.decision = decision]

applied(state, requests, command) ==
    CASE command.action = "offer" -> [state EXCEPT !.offers = @ \cup {command.offer}]
      [] command.action = "match" -> propose(state, requests, command)
      [] command.action = "receipt" -> [state EXCEPT !.matches[command.match].receipt = command.receipt]
      [] command.action = "decision" ->
            [state EXCEPT !.matches[command.match] = decideMatch(@, command.decision)]

-----------------------------------------------------------------------------
(* One call of POST /api/market.                                            *)
Accepting(c) ==
    client[c].command.action = "decision" /\ client[c].command.decision = "accepted"

\* A caller names what it has been shown: requests, offers and matches are
\* known by digests that nobody can tell before they exist.
Shown(command) ==
    /\ command.action = "match" =>
          command.offer \in market.offers /\ intake[command.request] # Intake!Nobody
    /\ command.action \in {"receipt", "decision"} => command.match \in DOMAIN market.matches

call(c, command) ==
    /\ client[c].pc = "idle"
    /\ Shown(command)
    /\ client' = [client EXCEPT ![c] = [Calm EXCEPT !.pc = "read", !.command = command,
                                                    !.requests = intake]]
    /\ UNCHANGED <<intake, store, expired, acked>>

\* The call is answered, with an error or after all its writes.
Fail(c) ==
    /\ client' = [client EXCEPT ![c] = Calm]
    /\ Store!Forget(c)
    /\ UNCHANGED <<intake, expired, acked>>

\* After its write an acceptance turns to the intake; the others are done.
Written(c) ==
    /\ client' = [client EXCEPT ![c] =
          IF Accepting(c)
          THEN [Calm EXCEPT !.pc = "reread", !.command = client[c].command] ELSE Calm]
    /\ Store!Forget(c)
    /\ UNCHANGED <<intake, expired, acked>>

\* The call is refused, or storage, the wallet or the authority fail; or the
\* command was applied before and its write, if any, changes nothing.
readSettles(c) ==
    /\ client[c].pc = "read"
    /\ \/ Fail(c)
       \/ LET command == client[c].command
          IN  /\ ~refused(market, client[c].requests, command)
              /\ applied(market, client[c].requests, command) = market
              /\ Written(c)

readThenPut(c) ==
    /\ client[c].pc = "read"
    /\ LET command == client[c].command
           state == applied(market, client[c].requests, command)
           put == Store!Put(c, state)
       IN  /\ ~refused(market, client[c].requests, command) /\ state # market
           /\ Store!Send(put)
           /\ client' = [client EXCEPT ![c].pc = "swap", ![c].put = put]
    /\ UNCHANGED <<intake, expired, acked>>

confirmed(c) ==
    /\ client[c].pc = "swap"
    /\ client[c].put \in landed
    /\ Written(c)

\* A conflict, an outage or a lost answer: the next attempt still uses the
\* requests that were listed when the call began.
swapFails(c) ==
    /\ client[c].pc = "swap"
    /\ IF client[c].attempt = MaxAttempts THEN Fail(c)
       ELSE /\ client' = [client EXCEPT ![c].pc = "read", ![c].put = NoPut, ![c].attempt = @ + 1]
            /\ UNCHANGED <<intake, store, expired, acked>>

-----------------------------------------------------------------------------
(* The rest of an acceptance: the intake is listed again and reviewed.      *)
RequestOf(c) == market.matches[client[c].command.match].request

\* Mutant: the status of the request is not looked at before answering.
SeesAnything(c, request) ==
    IF request.status \in {"AWAITING_REVIEW", "UNDER_REVIEW"}
    THEN /\ client' = [client EXCEPT ![c].revision = Len(request.history), ![c].pc =
               IF request.status = "AWAITING_REVIEW" THEN "start-review" ELSE "finish-review"]
         /\ UNCHANGED acked
    ELSE /\ client' = [client EXCEPT ![c] = Calm]
         /\ acked' = acked \cup {client[c].command.match}

\* The request as listed again, or as returned by a review: it is reviewed
\* further, or the call is answered, with success if it is reviewed.
Sees(c, request) ==
    IF request.status \in {"AWAITING_REVIEW", "UNDER_REVIEW"}
    THEN /\ client' = [client EXCEPT ![c].revision = Len(request.history), ![c].pc =
               IF request.status = "AWAITING_REVIEW" THEN "start-review" ELSE "finish-review"]
         /\ UNCHANGED acked
    ELSE /\ client' = [client EXCEPT ![c] = Calm]
         /\ acked' = IF request.status = "REVIEWED" THEN acked \cup {client[c].command.match} ELSE acked

GivesUp(c) == client' = [client EXCEPT ![c] = Calm] /\ UNCHANGED acked

reread(c) ==
    /\ client[c].pc = "reread"
    /\ Sees(c, intake[RequestOf(c)]) \/ GivesUp(c)
    /\ UNCHANGED <<intake, store, expired>>

\* intake.mutate: the review happens now, it is found to have happened, or
\* the call fails; if its write lands later it looks like a broker's review.
mutate(c) ==
    LET id == RequestOf(c)
        decision == client[c].pc
        request == intake[id]
    IN  /\ decision \in {"start-review", "finish-review"}
        /\ \/ /\ Len(request.history) = client[c].revision
              /\ IF decision = "start-review"
                 THEN Intake!Review(id, "AWAITING_REVIEW", decision, "UNDER_REVIEW")
                 ELSE Intake!Review(id, "UNDER_REVIEW", decision, "REVIEWED")
              /\ Sees(c, intake'[id])
           \/ /\ Len(request.history) = client[c].revision + 1
              /\ request.history[Len(request.history)] = decision
              /\ Sees(c, request)
              /\ UNCHANGED intake
           \/ GivesUp(c) /\ UNCHANGED intake
        /\ UNCHANGED <<store, expired>>

-----------------------------------------------------------------------------
(* Around the market: submissions and reviews through the intake, writes    *)
(* that land, and offers that expire.                                       *)
others ==
    /\ Intake!Next
    /\ UNCHANGED <<store, expired, client, acked>>

putLands ==
    /\ \E put \in puts : Store!Lands(put)
    /\ UNCHANGED <<intake, expired, client, acked>>

expire(offer) ==
    /\ expired' = expired \cup {offer}
    /\ UNCHANGED <<intake, store, client, acked>>

Step(c) == readSettles(c) \/ readThenPut(c) \/ confirmed(c) \/ swapFails(c)
           \/ reread(c) \/ mutate(c)

Next ==
    \/ \E c \in Clients : Step(c) \/ \E command \in Commands : call(c, command)
    \/ others \/ putLands
    \/ \E offer \in Offers : expire(offer)

Spec == Init /\ [][Next]_vars
=============================================================================
