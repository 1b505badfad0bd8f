------------------------- MODULE HostedMarketProofs -------------------------
(* Machine-checked proofs about HostedMarket, for any requests, offers,     *)
(* wallets, receipts, callers, limits and numbers of attempts.              *)
EXTENDS HostedMarketProperties, FiniteSetTheorems, TLAPS

-----------------------------------------------------------------------------
(* The inductive invariant.                                                 *)
Statuses == {"AWAITING_REVIEW", "UNDER_REVIEW", "NEEDS_REVISION", "REVIEWED", "REJECTED"}
Events == {"submitted", "start-review", "finish-review", "request-revision", "reject-request"}
Entries == {Intake!Nobody} \cup [details : Details, status : Statuses, history : Seq(Events)]
Listings == [Requests -> Entries]

Matches ==
    [request : Requests, details : Details, offer : Offers,
     approvals : SUBSET Roles, receipt : Receipts \cup {"none"},
     decision : {"pending", "accepted", "declined"}]
Markets == [offers : SUBSET Offers, matches : Seq(Matches)]
Puts == [writer : Clients \cup {"none"}, seen : Nat, content : Markets]
Calls ==
    [pc : {"idle", "read", "swap", "reread", "start-review", "finish-review"},
     command : Commands \cup {NoCommand}, requests : Listings, attempt : Nat,
     put : Puts, revision : Nat]

Typed ==
    /\ intake \in Listings
    /\ market \in Markets /\ etag \in Nat
    /\ puts \subseteq Puts /\ landed \subseteq Puts
    /\ client \in [Clients -> Calls]

\* A state of the market that promises nothing twice, with every acceptance
\* on both approvals and a receipt.
Single(state) ==
    /\ \A m, n \in DOMAIN state.matches :
          LET one == state.matches[m]  other == state.matches[n]
          IN  m # n /\ Active(one) /\ Active(other)
                => one.offer # other.offer /\ one.request # other.request
    /\ \A one, other \in state.offers \ expired : Wallet[one] = Wallet[other] => one = other

Whole(state) ==
    \A n \in DOMAIN state.matches : state.matches[n].decision = "accepted" =>
        state.matches[n].approvals = Roles /\ state.matches[n].receipt # "none"

\* What one write adds to a match, and to the market.
Extends(new, old) ==
    /\ new.request = old.request /\ new.details = old.details /\ new.offer = old.offer
    /\ old.approvals \subseteq new.approvals
    /\ old.receipt # "none" => new.receipt = old.receipt
    /\ old.decision # "pending" => new.decision = old.decision

Later(state, old) ==
    /\ old.offers \subseteq state.offers
    /\ \A n \in DOMAIN old.matches :
          n \in DOMAIN state.matches /\ Extends(state.matches[n], old.matches[n])

IsAccepted(state, n) == n \in DOMAIN state.matches /\ state.matches[n].decision = "accepted"

\* Whatever is written, or may still land, is sound and adds to what it read.
MarketIsSound ==
    /\ Single(market) /\ Whole(market)
    /\ \A put \in puts :
          /\ Single(put.content) /\ Whole(put.content)
          /\ put.seen = etag => Later(put.content, market)

Reviewing == {"reread", "start-review", "finish-review"}

Accepts(command) == command.action = "decision" /\ command.decision = "accepted"

\* A call that has turned to the intake has its acceptance in the market.
Knows(entry) ==
    /\ entry.pc # "idle" => entry.command \in Commands
    /\ entry.pc \in Reviewing =>
          Accepts(entry.command) /\ IsAccepted(market, entry.command.match)
    /\ entry.pc = "swap" /\ Accepts(entry.command) =>
          /\ IsAccepted(entry.put.content, entry.command.match)
          /\ entry.put \in landed => IsAccepted(market, entry.command.match)

CallersKnow == \A c \in Clients : Knows(client[c])

AckedHold ==
    \A n \in acked :
        IsAccepted(market, n) /\ intake[market.matches[n].request].status = "REVIEWED"

IInv == Typed /\ MarketIsSound /\ CallersKnow /\ AckedHold

-----------------------------------------------------------------------------
(* One command on one sound state of the market.                            *)
LEMMA CommandIsTyped ==
    ASSUME NEW command \in Commands
    PROVE  /\ command.action \in {"offer", "match", "receipt", "decision"}
           /\ command.action = "offer" => command.offer \in Offers
           /\ command.action = "match" => command.request \in Requests /\ command.offer \in Offers
           /\ command.action = "receipt" => command.match \in Nat /\ command.receipt \in Receipts
           /\ command.action = "decision" =>
                 command.match \in Nat /\ command.decision \in Roles \cup {"accepted", "declined"}
BY DEF Commands

LEMMA SameIsLater == ASSUME NEW state PROVE Later(state, state)
BY DEF Later, Extends

LEMMA OfferKeeps ==
    ASSUME NEW state \in Markets, Single(state), Whole(state),
           NEW command, command.offer \in Offers, ~offerRefused(state, command),
           NEW new, new = [state EXCEPT !.offers = @ \cup {command.offer}]
    PROVE  new \in Markets /\ Single(new) /\ Whole(new) /\ Later(new, state)
<1>1. /\ new \in Markets /\ new.offers = state.offers \cup {command.offer}
      /\ new.matches = state.matches
  BY DEF Markets
<1>2. \A one, other \in new.offers \ expired : Wallet[one] = Wallet[other] => one = other
  BY <1>1 DEF Single, offerRefused
<1> QED BY <1>1, <1>2 DEF Single, Whole, Later, Extends

LEMMA MatchKeeps ==
    ASSUME NEW state \in Markets, Single(state), Whole(state), NEW requests \in Listings,
           NEW command, command.request \in Requests, command.offer \in Offers,
           Prior(state, requests, command) \/ ~matchRefused(state, requests, command),
           NEW new, new = propose(state, requests, command)
    PROVE  new \in Markets /\ Single(new) /\ Whole(new) /\ Later(new, state)
<1>1. CASE Prior(state, requests, command)
  <2>1. new = state BY <1>1 DEF propose
  <2> QED BY <2>1, SameIsLater
<1>2. CASE ~Prior(state, requests, command)
  <2> DEFINE old == state.matches
             match == [request |-> command.request, details |-> requests[command.request].details,
                       offer |-> command.offer, approvals |-> {}, receipt |-> "none",
                       decision |-> "pending"]
  <2>1. match \in Matches
    <3>1. requests[command.request] \in Entries /\ requests[command.request] # Intake!Nobody
      BY <1>2 DEF Listings, matchRefused
    <3> QED BY <3>1 DEF Entries, Matches
  <2>2. /\ match.offer = command.offer /\ match.request = command.request
        /\ match.decision = "pending"
    OBVIOUS
  <2>3. new = [state EXCEPT !.matches = Append(old, match)] BY <1>2 DEF propose
  <2>4. old \in Seq(Matches) BY DEF Markets
  <2> HIDE DEF match, old
  <2>5. /\ new \in Markets /\ new.offers = state.offers /\ new.matches = Append(old, match)
    <3> DEFINE longer == Append(old, match)
    <3>1. longer \in Seq(Matches) BY <2>1, <2>4
    <3>2. new = [state EXCEPT !.matches = longer] BY <2>3
    <3> HIDE DEF longer
    <3>3. new \in Markets /\ new.offers = state.offers /\ new.matches = longer
      BY <3>1, <3>2 DEF Markets
    <3> QED BY <3>3 DEF longer
  <2>6. /\ DOMAIN old = 1..Len(old) /\ DOMAIN new.matches = 1..(Len(old) + 1) /\ Len(old) \in Nat
        /\ \A n \in DOMAIN old : new.matches[n] = old[n]
        /\ new.matches[Len(old) + 1] = match
    BY <2>1, <2>4, <2>5
  <2>7. \A n \in DOMAIN old : Active(old[n]) =>
           old[n].offer # command.offer /\ old[n].request # command.request
    BY <1>2 DEF matchRefused, old
  <2>8. Single(new)
    <3>1. \A m, n \in DOMAIN new.matches :
             m # n /\ Active(new.matches[m]) /\ Active(new.matches[n])
                => /\ new.matches[m].offer # new.matches[n].offer
                   /\ new.matches[m].request # new.matches[n].request
      <4> SUFFICES ASSUME NEW m \in DOMAIN new.matches, NEW n \in DOMAIN new.matches,
                          m # n, Active(new.matches[m]), Active(new.matches[n])
                   PROVE  /\ new.matches[m].offer # new.matches[n].offer
                          /\ new.matches[m].request # new.matches[n].request
        OBVIOUS
      <4>1. CASE m \in DOMAIN old /\ n \in DOMAIN old BY <2>6, <4>1 DEF Single, old
      <4>2. CASE m \notin DOMAIN old BY <2>2, <2>6, <2>7, <4>2
      <4>3. CASE n \notin DOMAIN old BY <2>2, <2>6, <2>7, <4>3
      <4> QED BY <4>1, <4>2, <4>3
    <3> QED BY <2>5, <3>1 DEF Single
  <2>9. Whole(new) BY <2>2, <2>6 DEF Whole, old
  <2>10. Later(new, state)
    <3>1. \A n \in DOMAIN old : n \in DOMAIN new.matches BY <2>6
    <3> QED BY <2>5, <2>6, <3>1 DEF Later, Extends, old
  <2> QED BY <2>5, <2>8, <2>9, <2>10
<1> QED BY <1>1, <1>2

\* A match that is replaced in its place by a later state of itself.
LEMMA ReplacedKeeps ==
    ASSUME NEW state \in Markets, Single(state), Whole(state), NEW n \in DOMAIN state.matches,
           NEW match \in Matches, Extends(match, state.matches[n]),
           Active(match) => Active(state.matches[n]),
           match.decision = "accepted" => match.approvals = Roles /\ match.receipt # "none",
           NEW new, new = [state EXCEPT !.matches = [@ EXCEPT ![n] = match]]
    PROVE  /\ new \in Markets /\ Single(new) /\ Whole(new) /\ Later(new, state)
           /\ n \in DOMAIN new.matches /\ new.matches[n] = match
<1> DEFINE old == state.matches
           matches == [old EXCEPT ![n] = match]
<1>1. old \in Seq(Matches) BY DEF Markets
<1>2. /\ matches \in Seq(Matches) /\ DOMAIN matches = DOMAIN old /\ matches[n] = match
      /\ \A m \in DOMAIN old : m # n => matches[m] = old[m]
  BY <1>1
<1>3. new = [state EXCEPT !.matches = matches] OBVIOUS
<1> HIDE DEF matches
<1>4. new \in Markets /\ new.offers = state.offers /\ new.matches = matches
  BY <1>2, <1>3 DEF Markets
<1> HIDE DEF old
<1>5. \A m \in DOMAIN old :
         /\ matches[m].offer = old[m].offer /\ matches[m].request = old[m].request
         /\ Active(matches[m]) => Active(old[m])
  BY <1>2 DEF Extends, old
<1>6. Single(new)
  BY <1>2, <1>4, <1>5 DEF Single, old
<1>7. Whole(new) BY <1>2, <1>4 DEF Whole, old
<1>8. Later(new, state) BY <1>2, <1>4 DEF Later, Extends, old
<1> QED BY <1>2, <1>4, <1>6, <1>7, <1>8 DEF old

LEMMA ReceiptKeeps ==
    ASSUME NEW state \in Markets, Single(state), Whole(state), NEW requests,
           NEW command, command.receipt \in Receipts, ~receiptRefused(state, requests, command),
           NEW new, new = [state EXCEPT !.matches[command.match].receipt = command.receipt]
    PROVE  new \in Markets /\ Single(new) /\ Whole(new) /\ Later(new, state)
<1> DEFINE n == command.match
           old == state.matches[n]
           match == [old EXCEPT !.receipt = command.receipt]
<1>1. /\ n \in DOMAIN state.matches /\ old.decision = "pending"
      /\ old.receipt \in {"none", command.receipt}
  BY DEF receiptRefused
<1>2. old \in Matches BY <1>1 DEF Markets
<1>3. /\ match \in Matches /\ match.receipt = command.receipt /\ match.decision = old.decision
      /\ match.offer = old.offer /\ match.request = old.request /\ match.details = old.details
      /\ match.approvals = old.approvals
  BY <1>2 DEF Matches
<1>4. new = [state EXCEPT !.matches = [@ EXCEPT ![n] = match]] OBVIOUS
<1> HIDE DEF match
<1>5. Extends(match, old) /\ (Active(match) => Active(old)) BY <1>1, <1>3 DEF Extends, Active
<1>6. match.decision # "accepted" BY <1>1, <1>3
<1> QED BY <1>1, <1>3, <1>4, <1>5, <1>6, ReplacedKeeps

LEMMA DecisionKeeps ==
    ASSUME NEW state \in Markets, Single(state), Whole(state), NEW requests,
           NEW command, command.decision \in Roles \cup {"accepted", "declined"},
           ~decisionRefused(state, requests, command),
           NEW new,
           new = [state EXCEPT !.matches[command.match] = decideMatch(@, command.decision)]
    PROVE  /\ new \in Markets /\ Single(new) /\ Whole(new) /\ Later(new, state)
           /\ command.decision = "accepted" => IsAccepted(new, command.match)
<1> DEFINE n == command.match
           old == state.matches[n]
           match == decideMatch(old, command.decision)
<1>1. /\ n \in DOMAIN state.matches /\ old.offer \notin expired
      /\ old.decision \in {"pending", command.decision}
      /\ command.decision = "accepted" => old.approvals = Roles /\ old.receipt # "none"
  BY DEF decisionRefused
<1>2. old \in Matches BY <1>1 DEF Markets
<1>3. /\ match \in Matches
      /\ match.offer = old.offer /\ match.request = old.request /\ match.details = old.details
      /\ match.receipt = old.receipt /\ old.approvals \subseteq match.approvals
      /\ old.decision # "pending" => match.decision = old.decision
      /\ old.decision = "pending" =>
            match.decision = IF command.decision \in Roles THEN "pending" ELSE command.decision
  <2>1. CASE old.decision # "pending" BY <1>2, <2>1 DEF decideMatch
  <2>2. CASE old.decision = "pending" /\ command.decision \in Roles
    <3>1. match = [old EXCEPT !.approvals = @ \cup {command.decision}] BY <2>2 DEF decideMatch
    <3> QED BY <1>2, <2>2, <3>1 DEF Matches
  <2>3. CASE old.decision = "pending" /\ command.decision \notin Roles
    <3>1. match = [old EXCEPT !.decision = command.decision] BY <2>3 DEF decideMatch
    <3> QED BY <1>2, <2>3, <3>1 DEF Matches
  <2> QED BY <2>1, <2>2, <2>3
<1>4. new = [state EXCEPT !.matches = [@ EXCEPT ![n] = match]] OBVIOUS
<1>5. Whole(state) /\ Roles = {"borrower", "lender"} BY DEF Roles
<1> HIDE DEF match
<1>6. Extends(match, old) BY <1>3 DEF Extends
<1>7. Active(match) => Active(old) BY <1>1, <1>3 DEF Active
<1>8. match.decision = "accepted" => match.approvals = Roles /\ match.receipt # "none"
  <2> SUFFICES ASSUME match.decision = "accepted"
               PROVE  match.approvals = Roles /\ match.receipt # "none"
    OBVIOUS
  <2>1. old.approvals = Roles /\ old.receipt # "none" BY <1>1, <1>3, <1>5 DEF Whole
  <2>2. match.approvals \subseteq Roles BY <1>3 DEF Matches
  <2> QED BY <1>3, <2>1, <2>2
<1>9. command.decision = "accepted" => match.decision = "accepted" BY <1>1, <1>3 DEF Roles
<1>10. /\ new \in Markets /\ Single(new) /\ Whole(new) /\ Later(new, state)
       /\ n \in DOMAIN new.matches /\ new.matches[n] = match
  <2>1. match \in Matches BY <1>3
  <2>2. n \in DOMAIN state.matches BY <1>1
  <2> HIDE DEF n, old
  <2>3. Extends(match, state.matches[n]) /\ (Active(match) => Active(state.matches[n]))
    BY <1>6, <1>7 DEF old
  <2>4. \A now : now = [state EXCEPT !.matches = [@ EXCEPT ![n] = match]] =>
           /\ now \in Markets /\ Single(now) /\ Whole(now) /\ Later(now, state)
           /\ n \in DOMAIN now.matches /\ now.matches[n] = match
    BY <2>1, <2>2, <2>3, <1>8, ReplacedKeeps
  <2> QED BY <2>4, <1>4
<1> QED BY <1>9, <1>10 DEF IsAccepted

\* Every command that is not refused keeps the market sound and erases nothing.
LEMMA AppliedKeeps ==
    ASSUME NEW state \in Markets, Single(state), Whole(state), NEW requests \in Listings,
           NEW command \in Commands, ~refused(state, requests, command),
           NEW new, new = applied(state, requests, command)
    PROVE  /\ new \in Markets /\ Single(new) /\ Whole(new) /\ Later(new, state)
           /\ command.action = "decision" /\ command.decision = "accepted"
                 => IsAccepted(new, command.match)
<1>1. CASE command.action = "offer"
  <2>1. ~offerRefused(state, command) /\ new = [state EXCEPT !.offers = @ \cup {command.offer}]
    BY <1>1 DEF refused, applied
  <2> QED BY <1>1, <2>1, CommandIsTyped, OfferKeeps
<1>2. CASE command.action = "match"
  <2>1. /\ Prior(state, requests, command) \/ ~matchRefused(state, requests, command)
        /\ new = propose(state, requests, command)
    BY <1>2 DEF refused, applied
  <2> QED BY <1>2, <2>1, CommandIsTyped, MatchKeeps
<1>3. CASE command.action = "receipt"
  <2>1. /\ ~receiptRefused(state, requests, command)
        /\ new = [state EXCEPT !.matches[command.match].receipt = command.receipt]
    BY <1>3 DEF refused, applied
  <2> QED BY <1>3, <2>1, CommandIsTyped, ReceiptKeeps
<1>4. CASE command.action = "decision"
  <2>1. /\ ~decisionRefused(state, requests, command)
        /\ new = [state EXCEPT !.matches[command.match] = decideMatch(@, command.decision)]
    BY <1>4 DEF refused, applied
  <2> QED BY <1>4, <2>1, CommandIsTyped, DecisionKeeps
<1> QED BY <1>1, <1>2, <1>3, <1>4, CommandIsTyped

-----------------------------------------------------------------------------
(* The parts of a step.                                                     *)
LEMMA CalmIsSound == Calm \in Calls /\ Knows(Calm)
<1>1. Empty \in Markets BY DEF Empty, Markets
<1>2. NoPut \in Puts BY <1>1 DEF NoPut, Puts
<1>3. Intake!Nobody \in Entries BY DEF Intake!Nobody, Entries, Statuses
<1>4. [id \in Requests |-> Intake!Nobody] \in Listings BY <1>3 DEF Listings
<1> QED BY <1>2, <1>4 DEF Calm, Calls, Knows, Reviewing

\* A call that begins, and an acceptance that turns to the intake.
LEMMA CallBegins ==
    ASSUME NEW command \in Commands, NEW requests \in Listings,
           NEW entry, entry = [Calm EXCEPT !.pc = "read", !.command = command, !.requests = requests]
    PROVE  entry \in Calls /\ entry.pc = "read" /\ entry.command = command
BY CalmIsSound DEF Calls

LEMMA CallTurns ==
    ASSUME NEW command \in Commands,
           NEW entry, entry = [Calm EXCEPT !.pc = "reread", !.command = command]
    PROVE  entry \in Calls /\ entry.pc = "reread" /\ entry.command = command
BY CalmIsSound DEF Calls

LEMMA CallRetries ==
    ASSUME NEW old \in Calls, NEW attempt \in Nat,
           NEW entry, entry = [old EXCEPT !.pc = "read", !.put = NoPut, !.attempt = attempt]
    PROVE  entry \in Calls /\ entry.pc = "read" /\ entry.command = old.command
<1>1. NoPut \in Puts BY DEF NoPut, Puts, Empty, Markets
<1> QED BY <1>1 DEF Calls

LEMMA CallMoves ==
    ASSUME IInv, NEW c \in Clients, NEW entry \in Calls, Knows(entry),
           client' = [client EXCEPT ![c] = entry], landed' \subseteq landed,
           UNCHANGED <<intake, market, etag, puts, expired, acked>>
    PROVE  IInv'
<1>1. client' \in [Clients -> Calls] /\ client'[c] = entry
      /\ \A other \in Clients : other # c => client'[other] = client[other]
  BY DEF IInv, Typed
<1>2. Typed' BY <1>1 DEF IInv, Typed
<1>3. MarketIsSound'
  BY DEF IInv, MarketIsSound, Single, Whole, Later, Active
<1>4. \A known \in Calls : Knows(known) => Knows(known)' BY DEF Knows
<1>5. CallersKnow'
  <2> SUFFICES ASSUME NEW other \in Clients PROVE Knows(client[other])'
    BY DEF CallersKnow
  <2>1. client'[other] \in Calls /\ Knows(client'[other])
    BY <1>1 DEF IInv, CallersKnow
  <2> QED BY <1>1, <2>1 DEF Knows
<1>6. AckedHold' BY DEF IInv, AckedHold
<1> QED BY <1>2, <1>3, <1>5, <1>6 DEF IInv

LEMMA FailKeeps == ASSUME IInv, NEW c \in Clients, Fail(c) PROVE IInv'
<1>1. /\ client' = [client EXCEPT ![c] = Calm] /\ landed' \subseteq landed
      /\ UNCHANGED <<intake, market, etag, puts, expired, acked>>
  BY DEF Fail, Store!Forget
<1> QED BY <1>1, CalmIsSound, CallMoves

LEMMA WrittenKeeps ==
    ASSUME IInv, NEW c \in Clients, Written(c), client[c].command \in Commands,
           Accepting(c) => IsAccepted(market, client[c].command.match)
    PROVE  IInv'
<1> DEFINE command == client[c].command
           entry == IF Accepting(c) THEN [Calm EXCEPT !.pc = "reread", !.command = command] ELSE Calm
<1>1. /\ client' = [client EXCEPT ![c] = entry] /\ landed' \subseteq landed
      /\ UNCHANGED <<intake, market, etag, puts, expired, acked>>
  BY DEF Written, Store!Forget
<1>2. entry \in Calls /\ Knows(entry)
  <2>1. CASE Accepting(c)
    <3>1. entry = [Calm EXCEPT !.pc = "reread", !.command = command] BY <2>1
    <3>2. command \in Commands OBVIOUS
    <3> HIDE DEF command, entry
    <3>3. entry \in Calls /\ entry.pc = "reread" /\ entry.command = command
      BY <3>1, <3>2, CallTurns
    <3> QED BY <2>1, <3>3 DEF Knows, Accepts, Accepting, Reviewing, command
  <2>2. CASE ~Accepting(c) BY <2>2, CalmIsSound
  <2> QED BY <2>1, <2>2
<1> HIDE DEF entry
<1> QED BY <1>1, <1>2, CallMoves

LEMMA CallKeeps ==
    ASSUME IInv, NEW c \in Clients, NEW command \in Commands, call(c, command)
    PROVE  IInv'
<1> DEFINE entry == [Calm EXCEPT !.pc = "read", !.command = command, !.requests = intake]
<1>1. /\ client' = [client EXCEPT ![c] = entry]
      /\ UNCHANGED <<intake, market, etag, puts, landed, expired, acked>>
  BY DEF call, store
<1>2. intake \in Listings BY DEF IInv, Typed
<1>3. entry \in Calls /\ entry.pc = "read" /\ entry.command = command
  <2>1. \A now : now = [Calm EXCEPT !.pc = "read", !.command = command, !.requests = intake] =>
           now \in Calls /\ now.pc = "read" /\ now.command = command
    BY <1>2, CallBegins
  <2> QED BY <2>1
<1>4. Knows(entry) BY <1>3 DEF Knows, Reviewing
<1> HIDE DEF entry
<1> QED BY <1>1, <1>3, <1>4, CallMoves

LEMMA ReadSettlesKeeps == ASSUME IInv, NEW c \in Clients, readSettles(c) PROVE IInv'
<1>1. client[c].pc = "read" BY DEF readSettles
<1>2. CASE Fail(c) BY <1>2, FailKeeps
<1>3. CASE /\ ~refused(market, client[c].requests, client[c].command)
           /\ applied(market, client[c].requests, client[c].command) = market
           /\ Written(c)
  <2>1. client[c].command \in Commands /\ client[c].requests \in Listings
    BY <1>1 DEF IInv, Typed, Calls, CallersKnow, Knows
  <2>2. market \in Markets /\ Single(market) /\ Whole(market)
    BY DEF IInv, Typed, MarketIsSound
  <2>3. Accepting(c) => IsAccepted(market, client[c].command.match)
    BY <1>3, <2>1, <2>2, AppliedKeeps DEF Accepting
  <2> QED BY <1>3, <2>1, <2>3, WrittenKeeps
<1> QED BY <1>2, <1>3 DEF readSettles

LEMMA ConfirmedKeeps == ASSUME IInv, NEW c \in Clients, confirmed(c) PROVE IInv'
<1>1. client[c].pc = "swap" /\ client[c].put \in landed /\ Written(c) BY DEF confirmed
<1>2. Knows(client[c]) BY DEF IInv, CallersKnow
<1> QED BY <1>1, <1>2, WrittenKeeps DEF Knows, Accepts, Accepting

LEMMA SwapFailsKeeps == ASSUME IInv, NEW c \in Clients, swapFails(c) PROVE IInv'
<1>1. CASE Fail(c) BY <1>1, FailKeeps
<1>2. CASE ~Fail(c)
  <2> DEFINE old == client[c]
             entry == [old EXCEPT !.pc = "read", !.put = NoPut, !.attempt = @ + 1]
  <2>1. /\ old.pc = "swap"
        /\ client' = [client EXCEPT ![c].pc = "read", ![c].put = NoPut, ![c].attempt = @ + 1]
        /\ UNCHANGED <<intake, market, etag, puts, landed, expired, acked>>
    BY <1>2 DEF swapFails, store
  <2>2. old \in Calls /\ client \in [Clients -> Calls] BY DEF IInv, Typed
  <2>3. entry \in Calls /\ entry.pc = "read" /\ entry.command = old.command
    <3>1. old.attempt + 1 \in Nat BY <2>2 DEF Calls
    <3>2. \A now : now = [old EXCEPT !.pc = "read", !.put = NoPut, !.attempt = old.attempt + 1] =>
             now \in Calls /\ now.pc = "read" /\ now.command = old.command
      BY <2>2, <3>1, CallRetries
    <3> QED BY <3>2
  <2>4. old.command \in Commands BY <2>1 DEF IInv, CallersKnow, Knows
  <2>5. client' = [client EXCEPT ![c] = entry] BY <2>1, <2>2 DEF Calls
  <2>6. Knows(entry) BY <2>3, <2>4 DEF Knows, Reviewing
  <2> HIDE DEF entry
  <2> QED BY <2>1, <2>3, <2>5, <2>6, CallMoves
<1> QED BY <1>1, <1>2

\* The next write is sound and adds to what it read; it has not landed yet.
LEMMA ReadThenPutKeeps == ASSUME IInv, NEW c \in Clients, readThenPut(c) PROVE IInv'
<1> DEFINE old == client[c]
           state == applied(market, old.requests, old.command)
           put == [writer |-> c, seen |-> etag, content |-> state]
           entry == [old EXCEPT !.pc = "swap", !.put = put]
<1>1. /\ old.pc = "read" /\ ~refused(market, old.requests, old.command)
      /\ puts' = puts \cup {put}
      /\ landed' = {other \in landed : other.writer # put.writer}
      /\ client' = [client EXCEPT ![c].pc = "swap", ![c].put = put]
      /\ UNCHANGED <<intake, market, etag, expired, acked>>
  BY DEF readThenPut, Store!Put, Store!Send
<1>2. /\ old \in Calls /\ client \in [Clients -> Calls]
      /\ old.command \in Commands /\ old.requests \in Listings
      /\ market \in Markets /\ Single(market) /\ Whole(market) /\ etag \in Nat
  BY <1>1 DEF IInv, Typed, Calls, CallersKnow, Knows, MarketIsSound
<1>3. /\ state \in Markets /\ Single(state) /\ Whole(state) /\ Later(state, market)
      /\ Accepts(old.command) => IsAccepted(state, old.command.match)
  <2>1. \A new : new = state =>
           /\ new \in Markets /\ Single(new) /\ Whole(new) /\ Later(new, market)
           /\ Accepts(old.command) => IsAccepted(new, old.command.match)
    BY <1>1, <1>2, AppliedKeeps DEF Accepts
  <2> QED BY <2>1
<1> HIDE DEF state
<1>4. put \in Puts /\ put.content = state /\ put.writer = c BY <1>2, <1>3 DEF Puts
<1>5. put \notin landed' BY <1>1
<1> HIDE DEF put
<1>6. entry \in Calls /\ entry.pc = "swap" /\ entry.put = put /\ entry.command = old.command
  BY <1>2, <1>4 DEF Calls
<1>7. client' = [client EXCEPT ![c] = entry] BY <1>1, <1>2 DEF Calls
<1> HIDE DEF entry
<1>8. /\ client' \in [Clients -> Calls] /\ client'[c] = entry
      /\ \A other \in Clients : other # c => client'[other] = client[other]
  BY <1>2, <1>6, <1>7
<1>9. Typed' BY <1>1, <1>4, <1>8 DEF IInv, Typed
<1>10. MarketIsSound'
  BY <1>1, <1>3, <1>4 DEF IInv, MarketIsSound, Single, Whole, Later, Active
<1>11. CallersKnow'
  <2> SUFFICES ASSUME NEW other \in Clients PROVE Knows(client[other])'
    BY DEF CallersKnow
  <2>1. CASE other = c
    BY <1>2, <1>3, <1>4, <1>5, <1>6, <1>8, <2>1 DEF Knows, Reviewing
  <2>2. CASE other # c
    <3>1. Knows(client[other]) /\ client'[other] = client[other] /\ landed' \subseteq landed
      BY <1>1, <1>8, <2>2 DEF IInv, CallersKnow
    <3> QED BY <1>1, <3>1 DEF Knows
  <2> QED BY <2>1, <2>2
<1>12. AckedHold' BY <1>1 DEF IInv, AckedHold
<1> QED BY <1>9, <1>10, <1>11, <1>12 DEF IInv

-----------------------------------------------------------------------------
(* The intake, and the rest of an acceptance.                               *)
IntakeGrows ==
    /\ intake' \in Listings
    /\ \A id \in Requests : intake[id].status = "REVIEWED" => intake'[id].status = "REVIEWED"

LEMMA ReviewGrows ==
    ASSUME intake \in Listings, NEW id \in Requests, NEW from \in Statuses, from # "REVIEWED",
           NEW decision \in Events, NEW to \in Statuses, Intake!Review(id, from, decision, to)
    PROVE  IntakeGrows
<1>1. /\ intake[id].status # "REVIEWED"
      /\ intake' = [intake EXCEPT ![id].status = to, ![id].history = Append(@, decision)]
  BY DEF Intake!Review
<1>2. intake[id] \in [details : Details, status : Statuses, history : Seq(Events)]
  BY <1>1 DEF Listings, Entries, Intake!Nobody, Intake!Review, Statuses
<1> DEFINE longer == Append(intake[id].history, decision)
<1>3. longer \in Seq(Events) BY <1>2 DEF Entries
<1>4. intake' = [intake EXCEPT ![id] = [@ EXCEPT !.status = to, !.history = longer]] 
  BY <1>1, <1>2 DEF Listings, Entries
<1> HIDE DEF longer
<1>5. [intake[id] EXCEPT !.status = to, !.history = longer] \in Entries
  BY <1>2, <1>3 DEF Entries
<1> QED BY <1>1, <1>4, <1>5 DEF IntakeGrows, Listings

LEMMA IntakeNextGrows == ASSUME intake \in Listings, Intake!Next PROVE IntakeGrows
<1>1. PICK id \in Requests :
          \/ \E details \in Details : Intake!Submit(id, details)
          \/ Intake!Review(id, "AWAITING_REVIEW", "start-review", "UNDER_REVIEW")
          \/ Intake!Review(id, "UNDER_REVIEW", "request-revision", "NEEDS_REVISION")
          \/ Intake!Review(id, "UNDER_REVIEW", "finish-review", "REVIEWED")
          \/ Intake!Review(id, "UNDER_REVIEW", "reject-request", "REJECTED")
  BY DEF Intake!Next
<1>2. CASE \E details \in Details : Intake!Submit(id, details)
  <2>1. PICK details \in Details : Intake!Submit(id, details) BY <1>2
  <2>2. intake[id] = Intake!Nobody /\ intake' = [intake EXCEPT ![id] = Intake!Fresh(details)]
    BY <2>1 DEF Intake!Submit
  <2>3. Intake!Fresh(details) \in Entries
    BY DEF Intake!Fresh, Entries, Statuses, Events
  <2>4. intake[id].status # "REVIEWED" BY <2>2 DEF Intake!Nobody
  <2> QED BY <2>2, <2>3, <2>4 DEF IntakeGrows, Listings
<1>3. CASE \/ Intake!Review(id, "AWAITING_REVIEW", "start-review", "UNDER_REVIEW")
           \/ Intake!Review(id, "UNDER_REVIEW", "request-revision", "NEEDS_REVISION")
           \/ Intake!Review(id, "UNDER_REVIEW", "finish-review", "REVIEWED")
           \/ Intake!Review(id, "UNDER_REVIEW", "reject-request", "REJECTED")
  BY <1>3, ReviewGrows DEF Events, Statuses
<1> QED BY <1>1, <1>2, <1>3

\* What happens around the market: the intake grows and offers expire.
LEMMA WorldMoves ==
    ASSUME IInv, IntakeGrows, expired \subseteq expired',
           UNCHANGED <<market, etag, puts, landed, client, acked>>
    PROVE  IInv'
<1>1. Typed' BY DEF IInv, Typed, IntakeGrows
<1>2. MarketIsSound'
  <2>1. ASSUME NEW state, Single(state) PROVE Single(state)' BY <2>1 DEF Single, Active
  <2>2. Single(market)' BY DEF IInv, MarketIsSound, Single, Active
  <2>3. \A put \in puts : Single(put.content)' BY <2>1 DEF IInv, MarketIsSound
  <2> QED BY <2>2, <2>3 DEF IInv, MarketIsSound, Whole, Later
<1>3. CallersKnow' BY DEF IInv, CallersKnow, Knows
<1>4. AckedHold'
  <2> SUFFICES ASSUME NEW n \in acked
               PROVE  /\ IsAccepted(market, n)
                      /\ intake'[market.matches[n].request].status = "REVIEWED"
    BY DEF AckedHold, IsAccepted
  <2>1. IsAccepted(market, n) /\ intake[market.matches[n].request].status = "REVIEWED"
    BY DEF IInv, AckedHold
  <2>2. market.matches[n] \in Matches BY <2>1 DEF IInv, Typed, Markets, IsAccepted
  <2> QED BY <2>1, <2>2 DEF IntakeGrows, Matches
<1> QED BY <1>1, <1>2, <1>3, <1>4 DEF IInv

\* A call that reviews the accepted request further, or ends.
LEMMA CallReviews ==
    ASSUME NEW old \in Calls, NEW pc \in Reviewing, NEW revision \in Nat,
           NEW entry, entry = [old EXCEPT !.revision = revision, !.pc = pc]
    PROVE  entry \in Calls /\ entry.pc = pc /\ entry.command = old.command
BY DEF Calls, Reviewing

\* What a call makes of the request it sees: an acceptance is acknowledged
\* only if the request is reviewed by then.
LEMMA SeesKeeps ==
    ASSUME IInv, NEW c \in Clients, client[c].pc \in Reviewing, IntakeGrows,
           NEW request, request = intake'[RequestOf(c)],
           Sees(c, request) \/ GivesUp(c),
           UNCHANGED <<market, etag, puts, landed, expired>>
    PROVE  IInv'
<1> DEFINE old == client[c]
           n == old.command.match
<1>1. /\ old \in Calls /\ client \in [Clients -> Calls] /\ Knows(old)
      /\ Accepts(old.command) /\ IsAccepted(market, n) /\ old.command \in Commands
  BY DEF IInv, Typed, CallersKnow, Knows, Reviewing
<1>2. market.matches[n] \in Matches
  BY <1>1 DEF IInv, Typed, Markets, IsAccepted
<1>3. request \in Entries /\ request = intake'[market.matches[n].request]
  BY <1>2 DEF IntakeGrows, Listings, Matches, RequestOf
<1>4. PICK entry \in Calls :
          /\ client' = [client EXCEPT ![c] = entry]
          /\ \/ entry = Calm
             \/ entry.pc \in Reviewing /\ entry.command = old.command
  <2>1. CASE client' = [client EXCEPT ![c] = Calm] BY <2>1, CalmIsSound
  <2>2. CASE client' # [client EXCEPT ![c] = Calm]
    <3> DEFINE pc == IF request.status = "AWAITING_REVIEW" THEN "start-review" ELSE "finish-review"
               revision == Len(request.history)
               next == [old EXCEPT !.revision = revision, !.pc = pc]
    <3>1. client' = [client EXCEPT ![c].revision = revision, ![c].pc = pc]
      BY <2>2 DEF Sees, GivesUp
    <3>2. client' = [client EXCEPT ![c] = next] BY <1>1, <3>1 DEF Calls
    <3>3. revision \in Nat /\ pc \in Reviewing
      <4>1. request = Intake!Nobody \/ request.history \in Seq(Events) BY <1>3 DEF Entries
      <4> QED BY <4>1 DEF Intake!Nobody, Reviewing
    <3> HIDE DEF revision, pc
    <3>4. old \in Calls BY <1>1
    <3> HIDE DEF old
    <3>5. \A now : now = [old EXCEPT !.revision = revision, !.pc = pc] =>
             now \in Calls /\ now.pc = pc /\ now.command = old.command
      BY <3>3, <3>4, CallReviews
    <3> HIDE DEF next
    <3>6. next \in Calls /\ next.pc \in Reviewing /\ next.command = old.command
      BY <3>3, <3>5 DEF next
    <3> QED BY <3>2, <3>6 DEF old
  <2> QED BY <2>1, <2>2
<1>5. /\ client' \in [Clients -> Calls] /\ client'[c] = entry
      /\ \A other \in Clients : other # c => client'[other] = client[other]
  BY <1>1, <1>4
<1>6. acked' \subseteq acked \cup {n} /\ (n \in acked' => n \in acked \/ request.status = "REVIEWED")
  BY DEF Sees, GivesUp
<1>7. Typed' BY <1>5 DEF IInv, Typed, IntakeGrows
<1>8. MarketIsSound' BY DEF IInv, MarketIsSound, Single, Whole, Later, Active
<1>9. CallersKnow'
  <2> SUFFICES ASSUME NEW other \in Clients PROVE Knows(client[other])'
    BY DEF CallersKnow
  <2>1. CASE other = c /\ entry = Calm BY <1>5, <2>1, CalmIsSound DEF Knows, Calm, Reviewing
  <2>2. CASE other = c /\ entry # Calm
    <3>1. entry.pc \in Reviewing /\ entry.command = old.command BY <1>4, <2>2
    <3> HIDE DEF old, n
    <3>2. /\ old.command \in Commands /\ Accepts(old.command)
          /\ IsAccepted(market, old.command.match)
      BY <1>1 DEF n
    <3> QED BY <1>5, <2>2, <3>1, <3>2 DEF Knows, Reviewing
  <2>3. CASE other # c
    <3>1. Knows(client[other]) /\ client'[other] = client[other] BY <1>5, <2>3 DEF IInv, CallersKnow
    <3> QED BY <3>1 DEF Knows
  <2> QED BY <2>1, <2>2, <2>3
<1>10. AckedHold'
  <2> SUFFICES ASSUME NEW m \in acked'
               PROVE  /\ IsAccepted(market, m)
                      /\ intake'[market.matches[m].request].status = "REVIEWED"
    BY DEF AckedHold, IsAccepted
  <2>1. CASE m \in acked
    <3>1. IsAccepted(market, m) /\ intake[market.matches[m].request].status = "REVIEWED"
      BY <2>1 DEF IInv, AckedHold
    <3>2. market.matches[m] \in Matches BY <3>1 DEF IInv, Typed, Markets, IsAccepted
    <3> QED BY <3>1, <3>2 DEF IntakeGrows, Matches
  <2>2. CASE m \notin acked BY <1>1, <1>3, <1>6, <2>2
  <2> QED BY <2>1, <2>2
<1> QED BY <1>7, <1>8, <1>9, <1>10 DEF IInv

LEMMA NothingGrows == ASSUME IInv, UNCHANGED intake PROVE IntakeGrows
BY DEF IInv, Typed, IntakeGrows

LEMMA RereadKeeps == ASSUME IInv, NEW c \in Clients, reread(c) PROVE IInv'
<1>1. /\ client[c].pc \in Reviewing
      /\ Sees(c, intake'[RequestOf(c)]) \/ GivesUp(c)
      /\ UNCHANGED <<intake, market, etag, puts, landed, expired>>
  BY DEF reread, Reviewing, store
<1> QED BY <1>1, NothingGrows, SeesKeeps

LEMMA MutateKeeps == ASSUME IInv, NEW c \in Clients, mutate(c) PROVE IInv'
<1> DEFINE id == RequestOf(c)
<1>1. /\ client[c].pc \in {"start-review", "finish-review"} /\ client[c].pc \in Reviewing
      /\ UNCHANGED <<market, etag, puts, landed, expired>>
  BY DEF mutate, Reviewing, store
<1>2. id \in Requests
  <2>1. IsAccepted(market, client[c].command.match) BY <1>1 DEF IInv, CallersKnow, Knows
  <2>2. market.matches[client[c].command.match] \in Matches
    BY <2>1 DEF IInv, Typed, Markets, IsAccepted
  <2> QED BY <2>2 DEF RequestOf, Matches
<1>3. CASE /\ \/ Intake!Review(id, "AWAITING_REVIEW", "start-review", "UNDER_REVIEW")
              \/ Intake!Review(id, "UNDER_REVIEW", "finish-review", "REVIEWED")
           /\ Sees(c, intake'[id])
  <2>1. IntakeGrows BY <1>2, <1>3, ReviewGrows DEF IInv, Typed, Events, Statuses
  <2> QED BY <1>1, <1>3, <2>1, SeesKeeps
<1>4. CASE UNCHANGED intake /\ (Sees(c, intake'[id]) \/ GivesUp(c))
  BY <1>1, <1>4, NothingGrows, SeesKeeps
<1>5. mutate(c) =>
         \/ /\ \/ Intake!Review(id, "AWAITING_REVIEW", "start-review", "UNDER_REVIEW")
               \/ Intake!Review(id, "UNDER_REVIEW", "finish-review", "REVIEWED")
            /\ Sees(c, intake'[id])
         \/ UNCHANGED intake /\ (Sees(c, intake[id]) \/ GivesUp(c))
  BY DEF mutate
<1>6. UNCHANGED intake /\ Sees(c, intake[id]) => Sees(c, intake'[id]) BY DEF Sees
<1> QED BY <1>3, <1>4, <1>5, <1>6

-----------------------------------------------------------------------------
(* A write that lands: it read the current market, so it only adds to it.   *)
LEMMA PutLandsKeeps == ASSUME IInv, putLands PROVE IInv' /\ Later(market', market)
<1>1. PICK put \in puts : Store!Lands(put) BY DEF putLands
<1>2. /\ put.seen = etag /\ puts' = {} /\ market' = put.content
      /\ etag' = etag + 1 /\ landed' = landed \cup {put}
      /\ UNCHANGED <<intake, expired, client, acked>>
  BY <1>1 DEF putLands, Store!Lands
<1>3. put \in Puts /\ put.content \in Markets BY DEF IInv, Typed, Puts
<1>4. /\ Single(put.content) /\ Whole(put.content) /\ Later(put.content, market)
  BY <1>2 DEF IInv, MarketIsSound
<1>5. Later(market', market) BY <1>2, <1>4
<1>6. \A n : IsAccepted(market, n) =>
         /\ IsAccepted(market, n)'
         /\ market'.matches[n].request = market.matches[n].request
  BY <1>5 DEF Later, Extends, IsAccepted
<1>7. Typed' BY <1>2, <1>3 DEF IInv, Typed
<1>8. MarketIsSound'
  <2>1. Single(put.content)' BY <1>2, <1>4 DEF Single, Active
  <2>2. Single(market)' BY <1>2, <1>4 DEF Single, Active
  <2>3. Whole(market)' BY <1>2, <1>4 DEF Whole
  <2> QED BY <1>2, <2>2, <2>3 DEF MarketIsSound
<1>9. CallersKnow'
  <2> SUFFICES ASSUME NEW c \in Clients PROVE Knows(client[c])'
    BY DEF CallersKnow
  <2>1. Knows(client[c]) /\ client'[c] = client[c] BY <1>2 DEF IInv, CallersKnow
  <2>2. client[c].put = put => market' = client[c].put.content BY <1>2
  <2>3. client[c].put \in landed' => client[c].put \in landed \/ client[c].put = put BY <1>2
  <2>4. IsAccepted(client[c].put.content, client[c].command.match)
           /\ client[c].put = put
              => IsAccepted(market', client[c].command.match)
    BY <2>2 DEF IsAccepted
  <2>5. \A n : IsAccepted(market, n) => IsAccepted(market', n) BY <1>6 DEF IsAccepted
  <2> DEFINE entry == client[c]
  <2>6. entry.pc # "idle" => entry.command \in Commands BY <2>1 DEF Knows
  <2>7. entry.pc \in Reviewing =>
           Accepts(entry.command) /\ IsAccepted(market', entry.command.match)
    BY <2>1, <2>5 DEF Knows
  <2>8. entry.pc = "swap" /\ Accepts(entry.command) =>
           /\ IsAccepted(entry.put.content, entry.command.match)
           /\ entry.put \in landed' => IsAccepted(market', entry.command.match)
    BY <2>1, <2>3, <2>4, <2>5 DEF Knows
  <2> QED BY <2>1, <2>6, <2>7, <2>8 DEF Knows, IsAccepted, Accepts
<1>10. AckedHold'
  <2> SUFFICES ASSUME NEW n \in acked
               PROVE  IsAccepted(market, n)' /\ intake'[market'.matches[n].request].status = "REVIEWED"
    BY <1>2 DEF AckedHold
  <2>1. IsAccepted(market, n) /\ intake[market.matches[n].request].status = "REVIEWED"
    BY DEF IInv, AckedHold
  <2> QED BY <1>2, <1>6, <2>1
<1> QED BY <1>5, <1>7, <1>8, <1>9, <1>10 DEF IInv

-----------------------------------------------------------------------------
(* The invariant holds, and with it what the market guarantees.             *)
LEMMA InitIsSound == Init => IInv
<1> SUFFICES ASSUME Init PROVE IInv OBVIOUS
<1>1. Empty \in Markets /\ Single(Empty) /\ Whole(Empty)
  BY DEF Empty, Markets, Single, Whole
<1>2. intake \in Listings
  BY DEF Init, Unwritten, Intake!Init, Intake!Nobody, Listings, Entries, Statuses
<1>3. \A c \in Clients : client[c] = Calm BY DEF Init, Unwritten
<1>4. Typed BY <1>1, <1>2, CalmIsSound DEF Init, Unwritten, Typed
<1>5. MarketIsSound BY <1>1 DEF Init, Unwritten, MarketIsSound
<1>6. CallersKnow BY <1>3, CalmIsSound DEF CallersKnow
<1>7. AckedHold BY DEF Init, Unwritten, AckedHold
<1> QED BY <1>4, <1>5, <1>6, <1>7 DEF IInv

LEMMA StepKeeps ==
    ASSUME IInv, [Next]_vars
    PROVE  IInv' /\ (UNCHANGED market \/ Later(market', market))
<1>1. ASSUME NEW c \in Clients, Step(c) PROVE IInv' /\ UNCHANGED market
  <2>1. CASE readSettles(c)
    BY <2>1, ReadSettlesKeeps DEF readSettles, Fail, Written, Store!Forget
  <2>2. CASE readThenPut(c) BY <2>2, ReadThenPutKeeps DEF readThenPut, Store!Send
  <2>3. CASE confirmed(c) BY <2>3, ConfirmedKeeps DEF confirmed, Written, Store!Forget
  <2>4. CASE swapFails(c) BY <2>4, SwapFailsKeeps DEF swapFails, Fail, Store!Forget, store
  <2>5. CASE reread(c) BY <2>5, RereadKeeps DEF reread, store
  <2>6. CASE mutate(c) BY <2>6, MutateKeeps DEF mutate, store
  <2> QED BY <1>1, <2>1, <2>2, <2>3, <2>4, <2>5, <2>6 DEF Step
<1>2. ASSUME NEW c \in Clients, NEW command \in Commands, call(c, command)
      PROVE  IInv' /\ UNCHANGED market
  BY <1>2, CallKeeps DEF call, store
<1>3. CASE others
  <2>1. UNCHANGED <<market, etag, puts, landed, expired, client, acked>> /\ Intake!Next
    BY <1>3 DEF others, store
  <2>2. IntakeGrows BY <2>1, IntakeNextGrows DEF IInv, Typed
  <2> QED BY <2>1, <2>2, WorldMoves
<1>4. ASSUME NEW offer \in Offers, expire(offer) PROVE IInv' /\ UNCHANGED market
  <2>1. /\ UNCHANGED <<intake, market, etag, puts, landed, client, acked>>
        /\ expired \subseteq expired'
    BY <1>4 DEF expire, store
  <2> QED BY <2>1, NothingGrows, WorldMoves
<1>5. CASE UNCHANGED vars
  <2>1. UNCHANGED <<intake, market, etag, puts, landed, expired, client, acked>>
    BY <1>5 DEF vars, store
  <2> QED BY <2>1, NothingGrows, WorldMoves
<1> QED BY <1>1, <1>2, <1>3, <1>4, <1>5, PutLandsKeeps DEF Next

\* What every reachable state of the market keeps.
THEOREM Consistency == Spec => []IInv
<1>1. IInv /\ [Next]_vars => IInv' BY StepKeeps
<1> QED BY InitIsSound, <1>1, PTL DEF Spec

\* Nothing is promised twice: not an availability, not a request, and no
\* wallet has two active availabilities, however calls and writes interleave.
THEOREM NothingPromisedTwice == Spec => []NoDoubleAllocation
<1>1. IInv => NoDoubleAllocation BY DEF IInv, MarketIsSound, Single, NoDoubleAllocation
<1> QED BY <1>1, Consistency, PTL

\* No proposal, approval, receipt or decision is ever erased or reversed.
THEOREM HistoryIsFinal == Spec => [][Later(market', market)]_market
<1>1. IInv /\ [Next]_vars => [Later(market', market)]_market BY StepKeeps
<1> QED BY <1>1, Consistency, PTL DEF Spec

\* An acknowledged acceptance holds in both blobs for ever.
THEOREM AcceptancesAreWhole == Spec => []AcceptanceIsWhole
<1>1. IInv => AcceptanceIsWhole
  BY DEF IInv, AckedHold, IsAccepted, MarketIsSound, Whole, AcceptanceIsWhole
<1> QED BY <1>1, Consistency, PTL

-----------------------------------------------------------------------------
(* The promise: a write that can still take effect is one command, carried  *)
(* out on what the market holds. Offers that lapse meanwhile only free more.*)
Offered(new, old, offer) ==
    /\ offer \notin old.offers /\ Cardinality(old.offers) < MaxOffers
    /\ \A other \in old.offers \ expired : Wallet[other] # Wallet[offer]
    /\ new.offers = old.offers \cup {offer} /\ new.matches = old.matches

Proposed(new, old, request, details, offer) ==
    /\ offer \in old.offers /\ Len(old.matches) < MaxMatches
    /\ \A n \in DOMAIN old.matches :
          Active(old.matches[n]) => old.matches[n].offer # offer /\ old.matches[n].request # request
    /\ new.matches = Append(old.matches, Promise!Proposal(request, details, offer))
    /\ new.offers = old.offers

\* What may become of one pending match.
Forward(now, match) ==
    \/ \E role \in Roles : now = [match EXCEPT !.approvals = @ \cup {role}]
    \/ /\ match.approvals = Roles /\ match.receipt = "none"
       /\ \E receipt \in Receipts : now = [match EXCEPT !.receipt = receipt]
    \/ now = [match EXCEPT !.decision = "declined"]
    \/ /\ match.approvals = Roles /\ match.receipt # "none"
       /\ now = [match EXCEPT !.decision = "accepted"]

Forwarded(new, old, n, now) ==
    /\ old.matches[n].decision = "pending" /\ Forward(now, old.matches[n])
    /\ new.matches = [old.matches EXCEPT ![n] = now]
    /\ new.offers = old.offers

Promised(new, old) ==
    \/ \E offer \in Offers : Offered(new, old, offer)
    \/ \E request \in Requests, details \in Details, offer \in Offers :
          Proposed(new, old, request, details, offer)
    \/ \E n \in DOMAIN old.matches : \E now \in Matches : Forwarded(new, old, n, now)

PutsArePromised == \A put \in puts : put.seen = etag => Promised(put.content, market)

LEMMA OfferIsPromised ==
    ASSUME NEW state \in Markets, IsFiniteSet(state.offers),
           NEW command, command.offer \in Offers, ~offerRefused(state, command),
           NEW new, new = [state EXCEPT !.offers = @ \cup {command.offer}], new # state
    PROVE  Promised(new, state)
<1> DEFINE offer == command.offer
<1>1. /\ new \in Markets /\ new.offers = state.offers \cup {offer}
      /\ new.matches = state.matches
  BY DEF Markets
<1>2. offer \notin state.offers
  <2> SUFFICES ASSUME offer \in state.offers PROVE new = state OBVIOUS
  <2>1. state.offers \cup {offer} = state.offers OBVIOUS
  <2> QED BY <2>1 DEF Markets
<1>3. Cardinality(state.offers) < MaxOffers
  <2>1. Cardinality(state.offers) \in Nat BY FS_CardinalityType
  <2> QED BY <1>2, <2>1, MarketAssumption DEF offerRefused
<1>4. \A other \in state.offers \ expired : Wallet[other] # Wallet[offer]
  BY <1>2 DEF offerRefused
<1> QED BY <1>1, <1>2, <1>3, <1>4 DEF Promised, Offered

LEMMA ProposalIsPromised ==
    ASSUME NEW state \in Markets, NEW requests \in Listings,
           NEW command, command.request \in Requests, command.offer \in Offers,
           Prior(state, requests, command) \/ ~matchRefused(state, requests, command),
           NEW new, new = propose(state, requests, command), new # state
    PROVE  Promised(new, state)
<1> DEFINE details == requests[command.request].details
           match == Promise!Proposal(command.request, details, command.offer)
           longer == Append(state.matches, match)
<1>1. ~Prior(state, requests, command) BY DEF propose
<1>2. ~matchRefused(state, requests, command) BY <1>1
<1>3. details \in Details
  <2>1. requests[command.request] \in Entries /\ requests[command.request] # Intake!Nobody
    BY <1>2 DEF Listings, matchRefused
  <2> QED BY <2>1 DEF Entries
<1>4. new = [state EXCEPT !.matches = longer] BY <1>1 DEF propose, Promise!Proposal
<1>5. command.offer \in state.offers BY <1>2 DEF matchRefused
<1>6. \A n \in DOMAIN state.matches : Active(state.matches[n]) =>
         state.matches[n].offer # command.offer /\ state.matches[n].request # command.request
  BY <1>2 DEF matchRefused
<1>7. Len(state.matches) < MaxMatches
  <2>1. Len(state.matches) \in Nat BY DEF Markets
  <2> QED BY <1>2, <2>1, MarketAssumption DEF matchRefused
<1> HIDE DEF details, match
<1>8. new.offers = state.offers /\ new.matches = Append(state.matches, match)
  BY <1>4 DEF Markets
<1>9. Proposed(new, state, command.request, details, command.offer)
  BY <1>5, <1>6, <1>7, <1>8 DEF Proposed, match
<1> QED BY <1>3, <1>9 DEF Promised

\* A match is replaced in its place by what may become of it.
LEMMA ReplacedIsPromised ==
    ASSUME NEW state \in Markets, NEW n \in DOMAIN state.matches, NEW now \in Matches,
           state.matches[n].decision = "pending", Forward(now, state.matches[n]),
           NEW new, new = [state EXCEPT !.matches = [@ EXCEPT ![n] = now]]
    PROVE  Promised(new, state)
<1> DEFINE matches == [state.matches EXCEPT ![n] = now]
<1>1. new = [state EXCEPT !.matches = matches] OBVIOUS
<1> HIDE DEF matches
<1>2. new.offers = state.offers /\ new.matches = matches BY <1>1 DEF Markets
<1>3. Forwarded(new, state, n, now) BY <1>2 DEF Forwarded, matches
<1> QED BY <1>3 DEF Promised

LEMMA ReceiptIsPromised ==
    ASSUME NEW state \in Markets, NEW requests,
           NEW command, command.receipt \in Receipts, ~receiptRefused(state, requests, command),
           NEW new, new = [state EXCEPT !.matches[command.match].receipt = command.receipt],
           new # state
    PROVE  Promised(new, state)
<1> DEFINE n == command.match
           old == state.matches[n]
           now == [old EXCEPT !.receipt = command.receipt]
<1>1. /\ n \in DOMAIN state.matches /\ old.decision = "pending" /\ old.approvals = Roles
      /\ old.receipt \in {"none", command.receipt}
  BY DEF receiptRefused
<1>2. old \in Matches /\ state.matches \in Seq(Matches) BY <1>1 DEF Markets
<1>3. now \in Matches /\ now.receipt = command.receipt BY <1>2 DEF Matches
<1>4. new = [state EXCEPT !.matches = [@ EXCEPT ![n] = now]] OBVIOUS
<1>5. old.receipt = "none"
  <2> SUFFICES ASSUME old.receipt = command.receipt PROVE new = state BY <1>1
  <2>1. now = old BY <1>2 DEF Matches
  <2> HIDE DEF now, old
  <2>2. [state.matches EXCEPT ![n] = now] = state.matches BY <1>1, <1>2, <2>1 DEF old
  <2> QED BY <1>4, <2>2 DEF Markets
<1>6. Forward(now, old) BY <1>1, <1>5 DEF Forward
<1> HIDE DEF now
<1> QED BY <1>1, <1>3, <1>4, <1>6, ReplacedIsPromised

LEMMA DecisionIsPromised ==
    ASSUME NEW state \in Markets, NEW requests,
           NEW command, command.decision \in Roles \cup {"accepted", "declined"},
           ~decisionRefused(state, requests, command),
           NEW new,
           new = [state EXCEPT !.matches[command.match] = decideMatch(@, command.decision)],
           new # state
    PROVE  Promised(new, state)
<1> DEFINE n == command.match
           old == state.matches[n]
           now == decideMatch(old, command.decision)
<1>1. /\ n \in DOMAIN state.matches /\ old.decision \in {"pending", command.decision}
      /\ command.decision = "accepted" => old.approvals = Roles /\ old.receipt # "none"
  BY DEF decisionRefused
<1>2. old \in Matches /\ state.matches \in Seq(Matches) BY <1>1 DEF Markets
<1>3. new = [state EXCEPT !.matches = [@ EXCEPT ![n] = now]] OBVIOUS
<1>4. old.decision = "pending"
  <2> SUFFICES ASSUME old.decision # "pending" PROVE new = state OBVIOUS
  <2>1. now = old BY DEF decideMatch
  <2> HIDE DEF now, old
  <2>2. [state.matches EXCEPT ![n] = now] = state.matches BY <1>1, <1>2, <2>1 DEF old
  <2> QED BY <1>3, <2>2 DEF Markets
<1>5. CASE command.decision \in Roles
  <2>1. now = [old EXCEPT !.approvals = @ \cup {command.decision}] BY <1>4, <1>5 DEF decideMatch
  <2>2. now \in Matches BY <1>2, <1>5, <2>1 DEF Matches
  <2>3. Forward(now, old) BY <1>5, <2>1 DEF Forward
  <2> HIDE DEF now
  <2> QED BY <1>1, <1>3, <1>4, <2>2, <2>3, ReplacedIsPromised
<1>6. CASE command.decision \notin Roles
  <2>1. now = [old EXCEPT !.decision = command.decision] BY <1>4, <1>6 DEF decideMatch
  <2>2. command.decision \in {"accepted", "declined"} BY <1>6
  <2>3. now \in Matches BY <1>2, <2>1, <2>2 DEF Matches
  <2>4. Forward(now, old) BY <1>1, <2>1, <2>2 DEF Forward
  <2> HIDE DEF now
  <2> QED BY <1>1, <1>3, <1>4, <2>3, <2>4, ReplacedIsPromised
<1> QED BY <1>5, <1>6

\* Every command that is not refused, and changes anything, is promised.
LEMMA AppliedIsPromised ==
    ASSUME NEW state \in Markets, IsFiniteSet(state.offers), NEW requests \in Listings,
           NEW command \in Commands, ~refused(state, requests, command),
           NEW new, new = applied(state, requests, command), new # state
    PROVE  Promised(new, state)
<1>1. CASE command.action = "offer"
  <2>1. ~offerRefused(state, command) /\ new = [state EXCEPT !.offers = @ \cup {command.offer}]
    BY <1>1 DEF refused, applied
  <2> QED BY <1>1, <2>1, CommandIsTyped, OfferIsPromised
<1>2. CASE command.action = "match"
  <2>1. /\ Prior(state, requests, command) \/ ~matchRefused(state, requests, command)
        /\ new = propose(state, requests, command)
    BY <1>2 DEF refused, applied
  <2> QED BY <1>2, <2>1, CommandIsTyped, ProposalIsPromised
<1>3. CASE command.action = "receipt"
  <2>1. /\ ~receiptRefused(state, requests, command)
        /\ new = [state EXCEPT !.matches[command.match].receipt = command.receipt]
    BY <1>3 DEF refused, applied
  <2> QED BY <1>3, <2>1, CommandIsTyped, ReceiptIsPromised
<1>4. CASE command.action = "decision"
  <2>1. /\ ~decisionRefused(state, requests, command)
        /\ new = [state EXCEPT !.matches[command.match] = decideMatch(@, command.decision)]
    BY <1>4 DEF refused, applied
  <2> QED BY <1>4, <2>1, CommandIsTyped, DecisionIsPromised
<1> QED BY <1>1, <1>2, <1>3, <1>4, CommandIsTyped
-----------------------------------------------------------------------------
(* Writes keep their promise until they land, or are overtaken.             *)
LEMMA PromiseStays ==
    ASSUME NEW new, Promised(new, market), expired \subseteq expired', UNCHANGED market
    PROVE  Promised(new, market)'
<1>1. ASSUME NEW offer \in Offers, Offered(new, market, offer)
      PROVE  Offered(new, market, offer)'
  BY <1>1 DEF Offered
<1>2. ASSUME NEW request \in Requests, NEW details \in Details, NEW offer \in Offers,
             Proposed(new, market, request, details, offer)
      PROVE  Proposed(new, market, request, details, offer)'
  BY <1>2 DEF Proposed, Active
<1>3. ASSUME NEW n \in DOMAIN market.matches, NEW now \in Matches,
             Forwarded(new, market, n, now)
      PROVE  Forwarded(new, market, n, now)'
  BY <1>3 DEF Forwarded
<1> QED BY <1>1, <1>2, <1>3 DEF Promised

LEMMA PromisedIsFinite ==
    ASSUME NEW old, IsFiniteSet(old.offers), NEW new, Promised(new, old)
    PROVE  IsFiniteSet(new.offers)
BY FS_AddElement DEF Promised, Offered, Proposed, Forwarded

PInv == PutsArePromised /\ IsFiniteSet(market.offers)

LEMMA PutIsPromised ==
    ASSUME IInv, PInv, NEW c \in Clients, readThenPut(c)
    PROVE  PInv'
<1> DEFINE old == client[c]
           state == applied(market, old.requests, old.command)
           put == [writer |-> c, seen |-> etag, content |-> state]
<1>1. /\ old.pc = "read" /\ ~refused(market, old.requests, old.command) /\ state # market
      /\ puts' = puts \cup {put}
      /\ UNCHANGED <<market, etag, expired>>
  BY DEF readThenPut, Store!Put, Store!Send
<1>2. old.command \in Commands /\ old.requests \in Listings /\ market \in Markets
  BY <1>1 DEF IInv, Typed, Calls, CallersKnow, Knows
<1>3. Promised(state, market)
  <2>1. \A new : new = state /\ new # market => Promised(new, market)
    BY <1>1, <1>2, AppliedIsPromised DEF PInv
  <2> QED BY <1>1, <2>1
<1>4. put.content = state OBVIOUS
<1> HIDE DEF state, put
<1>5. \A other \in puts' : other.seen = etag => Promised(other.content, market)
  BY <1>1, <1>3, <1>4 DEF PInv, PutsArePromised
<1>6. \A new : Promised(new, market) => Promised(new, market)'
  BY <1>1, PromiseStays
<1> QED BY <1>1, <1>5, <1>6 DEF PInv, PutsArePromised

\* Whatever happens around the blob, the writes under way keep their promise.
LEMMA PromiseWaits ==
    ASSUME PInv, puts' \subseteq puts, expired \subseteq expired', UNCHANGED <<market, etag>>
    PROVE  PInv'
<1>1. \A new : Promised(new, market) => Promised(new, market)' BY PromiseStays
<1> QED BY <1>1 DEF PInv, PutsArePromised

\* A write that lands is one step of the promise.
LEMMA LandingIsPromised ==
    ASSUME IInv, PInv, putLands
    PROVE  PInv' /\ Promise!Next
<1>1. PICK put \in puts : Store!Lands(put) BY DEF putLands
<1>2. put.seen = etag /\ puts' = {} /\ market' = put.content /\ expired' = expired
  BY <1>1 DEF putLands, Store!Lands
<1>3. Promised(market', market) BY <1>2 DEF PInv, PutsArePromised
<1>4. PInv' BY <1>2, <1>3, PromisedIsFinite DEF PInv, PutsArePromised
<1>5. ASSUME NEW offer \in Offers, Offered(market', market, offer) PROVE Promise!Next
  <2>1. \A S : Promise!Cardinality(S) = Cardinality(S) BY DEF Promise!Cardinality, Cardinality
  <2>2. Promise!Offer(offer) BY <1>2, <1>5, <2>1 DEF Offered, Promise!Offer
  <2> QED BY <2>2 DEF Promise!Next
<1>6. ASSUME NEW request \in Requests, NEW details \in Details, NEW offer \in Offers,
             Proposed(market', market, request, details, offer)
      PROVE  Promise!Next
  <2>1. Promise!Propose(request, details, offer)
    BY <1>2, <1>6 DEF Proposed, Promise!Propose, Promise!Holds, Active
  <2> QED BY <2>1 DEF Promise!Next
<1>7. ASSUME NEW n \in DOMAIN market.matches, NEW now \in Matches,
             Forwarded(market', market, n, now)
      PROVE  Promise!Next
  <2> DEFINE match == market.matches[n]
  <2>1. Promise!Becomes(n, now) BY <1>2, <1>7 DEF Forwarded, Promise!Becomes
  <2>2. Forward(now, match) BY <1>7 DEF Forwarded
  <2> HIDE DEF match
  <2>3. CASE \E role \in Roles : now = [match EXCEPT !.approvals = @ \cup {role}]
    BY <2>1, <2>3 DEF Promise!Approve, Promise!Next, Promise!Roles, Roles, match
  <2>4. CASE /\ match.approvals = Roles /\ match.receipt = "none"
             /\ \E receipt \in Receipts : now = [match EXCEPT !.receipt = receipt]
    BY <2>1, <2>4 DEF Promise!Keep, Promise!Next, Promise!Roles, Roles, match
  <2>5. CASE now = [match EXCEPT !.decision = "declined"]
    BY <2>1, <2>5 DEF Promise!Decline, Promise!Next, match
  <2>6. CASE /\ match.approvals = Roles /\ match.receipt # "none"
             /\ now = [match EXCEPT !.decision = "accepted"]
    BY <2>1, <2>6 DEF Promise!Accept, Promise!Next, Promise!Roles, Roles, match
  <2> QED BY <2>2, <2>3, <2>4, <2>5, <2>6 DEF Forward
<1> QED BY <1>3, <1>4, <1>5, <1>6, <1>7 DEF Promised

LEMMA StepIsPromised ==
    ASSUME IInv, PInv, [Next]_vars
    PROVE  PInv' /\ [Promise!Next]_(Promise!vars)
<1>1. CASE putLands BY <1>1, LandingIsPromised
<1>2. ASSUME NEW offer \in Offers, expire(offer) PROVE PInv' /\ Promise!Next
  <2>1. PInv' BY <1>2, PromiseWaits DEF expire, store
  <2>2. Promise!Expire(offer) BY <1>2 DEF expire, store, Promise!Expire
  <2> QED BY <2>1, <2>2 DEF Promise!Next
<1>3. ASSUME NEW c \in Clients, readThenPut(c) PROVE PInv' /\ UNCHANGED <<market, expired>>
  BY <1>3, PutIsPromised DEF readThenPut, Store!Send
<1>4. ASSUME NEW c \in Clients, Step(c), ~readThenPut(c)
      PROVE  puts' \subseteq puts /\ UNCHANGED <<market, etag, expired>>
  BY <1>4 DEF Step, readSettles, confirmed, swapFails, reread, mutate, Fail, Written,
              Store!Forget, store
<1>5. CASE UNCHANGED <<market, etag, puts, expired>>
  BY <1>5, PromiseWaits DEF Promise!vars
<1>6. ASSUME NEW c \in Clients, NEW command \in Commands, call(c, command)
      PROVE  UNCHANGED <<market, etag, puts, expired>>
  BY <1>6 DEF call, store
<1>7. others \/ UNCHANGED vars => UNCHANGED <<market, etag, puts, expired>>
  BY DEF others, vars, store
<1>8. ASSUME puts' \subseteq puts, UNCHANGED <<market, etag, expired>>
      PROVE  PInv' /\ [Promise!Next]_(Promise!vars)
  BY <1>8, PromiseWaits DEF Promise!vars
<1> QED BY <1>1, <1>2, <1>3, <1>4, <1>5, <1>6, <1>7, <1>8 DEF Next, Promise!vars

\* The market implements MarketPromise: whatever calls race, are retried or
\* land late, and whenever offers lapse, each change of what it holds is one
\* command carried out on what it held (market.ts:12-57, matching.ts:15-33).
THEOREM ImplementsPromise == Spec => KeepsPromise
<1>1. Init => PInv /\ Promise!Init
  <2> SUFFICES ASSUME Init PROVE PInv /\ Promise!Init
    OBVIOUS
  <2>1. market.offers = {} /\ market.matches = <<>> /\ expired = {} /\ puts = {}
    BY DEF Init, Unwritten, Empty
  <2> QED BY <2>1, FS_EmptySet DEF PInv, PutsArePromised, Promise!Init
<1>2. IInv /\ PInv /\ [Next]_vars => PInv' /\ [Promise!Next]_(Promise!vars)
  BY StepIsPromised
<1> QED BY <1>1, <1>2, Consistency, PTL DEF Spec, KeepsPromise, Promise!Spec
=============================================================================
