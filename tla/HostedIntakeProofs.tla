-------------------------- MODULE HostedIntakeProofs --------------------------
(* Machine-checked proofs about HostedIntake, for any requests, details,    *)
(* callers, limits and numbers of attempts.                                 *)
EXTENDS HostedIntakeProperties, FiniteSetTheorems, TLAPS

-----------------------------------------------------------------------------
(* The records and what one accepted input makes of them.                   *)
Statuses == {"AWAITING_REVIEW", "UNDER_REVIEW", "NEEDS_REVISION", "REVIEWED", "REJECTED"}
Events == Decisions \cup {"submitted"}
Filed ==
    [details : Details, status : Statuses, revision : Nat,
     history : Seq(Events), lastReview : SUBSET Reviews]
Books == [Requests -> {Nobody} \cup Filed]

\* A revision counts the history.
Counted(records) == \A id \in Requests : records[id].revision = Len(records[id].history)

\* The review noted as the last one is in the history.
LastReviewIsIn(records) ==
    \A id \in Requests : \A input \in records[id].lastReview :
        input.id = id /\ IsAppliedIn(records, input)

\* Consistent records, whatever wrote them.
Sound(records) == records \in Books /\ Counted(records) /\ LastReviewIsIn(records)

\* What a review that has not been noted yet makes of its request.
Reviewed(request, input) ==
    [details |-> request.details, status |-> Outcome(input.decision),
     revision |-> request.revision + 1, history |-> Append(request.history, input.decision),
     lastReview |-> {input}]

LEMMA NobodyIsNotFiled == Nobody \notin Filed
BY DEF Nobody, Filed, Statuses

LEMMA InputIsTyped ==
    ASSUME NEW input \in Inputs
    PROVE  /\ input.id \in Requests /\ input.details \in Details
           /\ input \in Reviews =>
                 input.expectedRevision \in 1..2 /\ input.decision \in Decisions
BY DEF Inputs, Creations, Reviews

\* A submission that is not refused files a new request or finds its own.
LEMMA CreateEffect ==
    ASSUME NEW records \in Books, NEW input \in Inputs, input \notin Reviews,
           ~refused(records, input)
    PROVE  \/ /\ records[input.id] # Nobody
              /\ records[input.id].details = input.details
              /\ applied(records, input) = records
           \/ /\ records[input.id] = Nobody
              /\ ~(Cardinality(Known(records)) >= MaxRequests)
              /\ applied(records, input) = [records EXCEPT ![input.id] =
                    [details |-> input.details, status |-> "AWAITING_REVIEW", revision |-> 1,
                     history |-> <<"submitted">>, lastReview |-> {}]]
BY DEF refused, applied, createRefused, create, IsReview

\* A review that is not refused advances the version it names by one step or
\* is the one noted last.
LEMMA ReviewEffect ==
    ASSUME NEW records \in Books, NEW input \in Reviews, ~refused(records, input)
    PROVE  /\ records[input.id] \in Filed
           /\ \/ /\ input \in records[input.id].lastReview
                 /\ applied(records, input) = records
              \/ /\ records[input.id].revision = input.expectedRevision
                 /\ records[input.id].details = input.details
                 /\ records[input.id].status =
                       IF input.decision = "start-review" THEN "AWAITING_REVIEW" ELSE "UNDER_REVIEW"
                 /\ applied(records, input) =
                       [records EXCEPT ![input.id] = Reviewed(records[input.id], input)]
<1> DEFINE request == records[input.id]
<1>1. input \in Inputs /\ input.id \in Requests BY InputIsTyped DEF Inputs
<1>2. ~reviewRefused(records, input) /\ applied(records, input) = review(records, input)
  BY DEF refused, applied, IsReview
<1>3. request # Nobody /\ request \in Filed BY <1>1, <1>2 DEF reviewRefused, Books
<1>4. CASE input \in request.lastReview BY <1>2, <1>3, <1>4 DEF review
<1>5. CASE input \notin request.lastReview
  <2>1. /\ request.revision = input.expectedRevision /\ request.details = input.details
        /\ request.status = IF input.decision = "start-review" THEN "AWAITING_REVIEW" ELSE "UNDER_REVIEW"
    BY <1>2, <1>5 DEF reviewRefused
  <2>2. review(records, input) = [records EXCEPT ![input.id] = Reviewed(request, input)]
    BY <1>1, <1>3, <1>5 DEF review, Reviewed, Filed, Books
  <2> QED BY <1>2, <1>3, <2>1, <2>2
<1> QED BY <1>4, <1>5

LEMMA ReviewedIsFiled ==
    ASSUME NEW request \in Filed, NEW input \in Reviews
    PROVE  /\ Reviewed(request, input) \in Filed
           /\ Len(Reviewed(request, input).history) = Len(request.history) + 1
           /\ Reviewed(request, input).history[Len(request.history) + 1] = input.decision
           /\ \A n \in 1..Len(request.history) :
                 Reviewed(request, input).history[n] = request.history[n]
<1>1. input \in Inputs BY DEF Inputs
<1>2. input.decision \in Decisions BY <1>1, InputIsTyped
<1>3. Outcome(input.decision) \in Statuses BY <1>2 DEF Outcome, Decisions, Statuses
<1>4. request.history \in Seq(Events) /\ input.decision \in Events BY <1>2 DEF Filed, Events
<1>5. Append(request.history, input.decision) \in Seq(Events) BY <1>4
<1>6. Reviewed(request, input) \in Filed BY <1>3, <1>5 DEF Reviewed, Filed
<1> QED BY <1>4, <1>6 DEF Reviewed

\* What an accepted input leaves alone, and what it makes of its own request.
LEMMA Effect ==
    ASSUME NEW records, Sound(records), NEW input \in Inputs, ~refused(records, input)
    PROVE  /\ applied(records, input) \in Books
           /\ Counted(applied(records, input))
           /\ IsAppliedIn(applied(records, input), input)
           /\ \A other \in Inputs : IsAppliedIn(records, other)
                 => IsAppliedIn(applied(records, input), other)
<1> DEFINE after == applied(records, input)
<1>0. /\ records \in Books /\ Counted(records) /\ LastReviewIsIn(records)
      /\ input.id \in Requests /\ input.details \in Details
  BY InputIsTyped DEF Sound
<1>1. CASE input \notin Reviews
  <2>1. CASE after = records
    <3>1. records[input.id] # Nobody /\ records[input.id].details = input.details
      <4> DEFINE fresh == [details |-> input.details, status |-> "AWAITING_REVIEW", revision |-> 1,
                           history |-> <<"submitted">>, lastReview |-> {}]
      <4>1. fresh # Nobody BY DEF Nobody
      <4>2. ASSUME records[input.id] = Nobody, after = [records EXCEPT ![input.id] = fresh] PROVE FALSE
        BY <1>0, <2>1, <4>1, <4>2 DEF Books
      <4> QED BY <1>0, <1>1, <4>2, CreateEffect
    <3> QED BY <1>0, <1>1, <2>1, <3>1 DEF IsAppliedIn, IsReview
  <2>2. CASE after # records
    <3> DEFINE fresh == [details |-> input.details, status |-> "AWAITING_REVIEW", revision |-> 1,
                         history |-> <<"submitted">>, lastReview |-> {}]
    <3>1. records[input.id] = Nobody /\ after = [records EXCEPT ![input.id] = fresh]
      BY <1>0, <1>1, <2>2, CreateEffect
    <3>2. <<"submitted">> \in Seq(Events) /\ Len(<<"submitted">>) = 1 BY DEF Events
    <3>3. fresh \in Filed BY <1>0, <3>2 DEF Filed, Statuses
    <3>4. after \in Books /\ after[input.id] = fresh BY <1>0, <3>1, <3>3 DEF Books
    <3>5. Counted(after) BY <1>0, <3>1, <3>2, <3>4 DEF Counted, Books
    <3>6. IsAppliedIn(after, input) BY <1>1, <3>3, <3>4, NobodyIsNotFiled DEF IsAppliedIn, IsReview
    <3>7. ASSUME NEW other \in Inputs, IsAppliedIn(records, other) PROVE IsAppliedIn(after, other)
      <4>1. other.id \in Requests /\ other.id # input.id
        BY <3>1, <3>7, InputIsTyped DEF IsAppliedIn
      <4>2. after[other.id] = records[other.id] BY <1>0, <3>1, <4>1 DEF Books
      <4> QED BY <3>7, <4>2 DEF IsAppliedIn
    <3> QED BY <3>4, <3>5, <3>6, <3>7
  <2> QED BY <2>1, <2>2
<1>2. CASE input \in Reviews
  <2> DEFINE request == records[input.id]
  <2>1. request \in Filed BY <1>0, <1>2, ReviewEffect
  <2>2. CASE input \in request.lastReview /\ after = records
    BY <1>0, <2>2 DEF LastReviewIsIn
  <2>3. CASE /\ request.revision = input.expectedRevision
             /\ request.details = input.details
             /\ after = [records EXCEPT ![input.id] = Reviewed(request, input)]
    <3>1. /\ Reviewed(request, input) \in Filed
          /\ request.revision = Len(request.history) /\ request.revision \in Nat
          /\ request.history \in Seq(Events)
      BY <1>0, <1>2, <2>1, ReviewedIsFiled DEF Counted, Filed
    <3>2. after \in Books /\ after[input.id] = Reviewed(request, input)
      BY <1>0, <2>3, <3>1 DEF Books
    <3>3. ASSUME NEW id \in Requests, id # input.id PROVE after[id] = records[id]
      BY <1>0, <2>3, <3>3 DEF Books
    <3>4. Reviewed(request, input).revision = Len(Reviewed(request, input).history)
      BY <1>2, <2>1, <3>1, ReviewedIsFiled DEF Reviewed
    <3>5. Counted(after) BY <1>0, <3>2, <3>3, <3>4 DEF Counted
    <3>6. IsAppliedIn(after, input)
      <4>1. Reviewed(request, input).details = input.details
            /\ Reviewed(request, input).revision = input.expectedRevision + 1
        BY <2>3 DEF Reviewed
      <4>2. Reviewed(request, input).history[input.expectedRevision + 1] = input.decision
        BY <1>2, <2>1, <2>3, <3>1, ReviewedIsFiled
      <4>3. input.expectedRevision \in Nat BY <2>3, <3>1
      <4> QED BY <3>1, <3>2, <4>1, <4>2, <4>3, NobodyIsNotFiled DEF IsAppliedIn
    <3>7. ASSUME NEW other \in Inputs, IsAppliedIn(records, other) PROVE IsAppliedIn(after, other)
      <4>1. CASE other.id # input.id
        BY <3>3, <3>7, <4>1, InputIsTyped DEF IsAppliedIn
      <4>2. CASE other.id = input.id
        <5>1. request # Nobody /\ request.details = other.details BY <3>7, <4>2 DEF IsAppliedIn
        <5>2. Reviewed(request, input).details = other.details
              /\ Reviewed(request, input).revision = request.revision + 1
          BY <5>1 DEF Reviewed
        <5>3. ASSUME IsReview(other)
              PROVE  /\ request.revision + 1 > other.expectedRevision
                     /\ Reviewed(request, input).history[other.expectedRevision + 1] = other.decision
          <6>1. other.expectedRevision \in 1..2 BY <5>3, InputIsTyped DEF IsReview
          <6>2. /\ request.revision > other.expectedRevision
                /\ request.history[other.expectedRevision + 1] = other.decision
            BY <3>7, <4>2, <5>3 DEF IsAppliedIn
          <6>3. other.expectedRevision + 1 \in 1..Len(request.history) BY <3>1, <6>1, <6>2
          <6>4. Reviewed(request, input).history[other.expectedRevision + 1]
                  = request.history[other.expectedRevision + 1]
            BY <1>2, <2>1, <6>3, ReviewedIsFiled
          <6> QED BY <3>1, <6>1, <6>2, <6>4
        <5> QED BY <3>1, <3>2, <4>2, <5>2, <5>3, NobodyIsNotFiled DEF IsAppliedIn
      <4> QED BY <4>1, <4>2
    <3> QED BY <3>2, <3>5, <3>6, <3>7
  <2> QED BY <1>0, <1>2, <2>2, <2>3, ReviewEffect
<1> QED BY <1>1, <1>2

\* An accepted input leaves consistent records.
LEMMA EffectIsSound ==
    ASSUME NEW records, Sound(records), NEW input \in Inputs, ~refused(records, input)
    PROVE  Sound(applied(records, input))
<1> DEFINE after == applied(records, input)
<1>0. /\ records \in Books /\ LastReviewIsIn(records) /\ input.id \in Requests
      /\ after \in Books /\ Counted(after) /\ IsAppliedIn(after, input)
  BY InputIsTyped, Effect DEF Sound
<1>1. ASSUME NEW id \in Requests, NEW noted \in records[id].lastReview
      PROVE  noted.id = id /\ IsAppliedIn(after, noted)
  <2>1. records[id].lastReview \subseteq Reviews BY <1>0 DEF Books, Filed, Nobody
  <2>2. noted \in Inputs BY <2>1 DEF Inputs
  <2>3. noted.id = id /\ IsAppliedIn(records, noted) BY <1>0 DEF LastReviewIsIn
  <2> QED BY <2>2, <2>3, Effect
<1>2. ASSUME NEW id \in Requests, NEW noted \in after[id].lastReview
      PROVE  noted.id = id /\ IsAppliedIn(after, noted)
  <2>1. CASE after = records BY <1>1, <2>1
  <2>2. CASE /\ input \notin Reviews
             /\ after = [records EXCEPT ![input.id] =
                    [details |-> input.details, status |-> "AWAITING_REVIEW", revision |-> 1,
                     history |-> <<"submitted">>, lastReview |-> {}]]
    <3>1. id # input.id /\ after[id] = records[id] BY <1>0, <2>2, <1>2 DEF Books
    <3> QED BY <1>1, <1>2, <3>1
  <2>3. CASE /\ input \in Reviews
             /\ after = [records EXCEPT ![input.id] = Reviewed(records[input.id], input)]
    <3>1. CASE id = input.id
      <4>1. after[id].lastReview = {input} BY <1>0, <2>3, <3>1 DEF Books, Reviewed
      <4> QED BY <1>0, <1>2, <3>1, <4>1
    <3>2. CASE id # input.id
      <4>1. after[id] = records[id] BY <1>0, <2>3, <3>2 DEF Books
      <4> QED BY <1>1, <1>2, <4>1
    <3> QED BY <3>1, <3>2
  <2> QED BY <1>0, <2>1, <2>2, <2>3, CreateEffect, ReviewEffect
<1> QED BY <1>0, <1>2 DEF Sound, LastReviewIsIn

-----------------------------------------------------------------------------
(* The store and the calls.                                                 *)
\* Of an accepted input on the present records: what its write must carry.
Carries(records, new, input) == ~refused(records, input) /\ new = applied(records, input)

Calls ==
    [pc : {"idle", "read", "swap"}, input : Inputs \cup {NoInput}, attempt : Nat,
     put : [writer : Clients \cup {"none"}, seen : Nat, content : Books],
     told : {"nothing", "ok", "refused", "unconfirmed"}]

CallsAreTyped ==
    /\ etag \in Nat /\ client \in [Clients -> Calls] /\ acked \subseteq Inputs
    /\ \A c \in Clients : client[c].pc # "idle" => client[c].input \in Inputs
    /\ \A c \in Clients : client[c].pc = "swap" => client[c].put.seen <= etag

\* A write whose etag is still current carries what one accepted input makes
\* of the present records, and all writes have seen an etag that existed.
PutsAreCurrent ==
    \A put \in puts :
        /\ put.seen \in Nat /\ put.seen <= etag
        /\ put.seen = etag => \E input \in Inputs : Carries(intake, put.content, input)

\* In the same way, of the call that still waits for its write.
SwapsAreCurrent ==
    \A c \in Clients :
        client[c].pc = "swap" /\ client[c].put.seen = etag
            => Carries(intake, client[c].put.content, client[c].input)

\* A call whose own write has landed may be told so.
LandedIsApplied ==
    \A c \in Clients :
        client[c].pc = "swap" /\ client[c].put \in landed => IsAppliedIn(intake, client[c].input)

IInv ==
    /\ Sound(intake) /\ CallsAreTyped /\ PutsAreCurrent /\ SwapsAreCurrent
    /\ LandedIsApplied /\ AckIsDurable

LEMMA InitIsSound == Init => IInv
<1> SUFFICES ASSUME Init PROVE IInv OBVIOUS
<1>1. /\ intake = [id \in Requests |-> Nobody] /\ etag = 0 /\ puts = {} /\ landed = {}
      /\ client = [c \in Clients |-> Calm] /\ acked = {}
  BY DEF Init
<1>2. intake \in Books BY <1>1 DEF Books
<1>3. Sound(intake)
  <2>1. \A id \in Requests : intake[id] = Nobody BY <1>1
  <2>2. Nobody.lastReview = {} /\ Nobody.revision = 0 /\ Len(Nobody.history) = 0 BY DEF Nobody
  <2>3. Counted(intake) BY <2>1, <2>2 DEF Counted
  <2>4. LastReviewIsIn(intake) BY <2>1, <2>2 DEF LastReviewIsIn
  <2> QED BY <1>2, <2>3, <2>4 DEF Sound
<1>4. Calm \in Calls /\ Calm.pc = "idle" BY DEF Calm, Calls, NoPut, Books
<1>5. CallsAreTyped BY <1>1, <1>4 DEF CallsAreTyped
<1> QED BY <1>1, <1>3, <1>4, <1>5
    DEF IInv, PutsAreCurrent, SwapsAreCurrent, LandedIsApplied, AckIsDurable

\* A call that ends, with success only if its input is applied.
LEMMA AnswerKeepsIInv ==
    ASSUME IInv, NEW c \in Clients, NEW told \in {"nothing", "ok", "refused", "unconfirmed"},
           Answer(c, told),
           told = "ok" => client[c].input \in Inputs /\ IsAppliedIn(intake, client[c].input)
    PROVE  IInv'
<1>1. /\ intake' = intake /\ etag' = etag /\ puts' = puts /\ landed' \subseteq landed
      /\ client' = [client EXCEPT ![c] = [Calm EXCEPT !.told = told]]
      /\ acked' = IF told = "ok" THEN acked \cup {client[c].input} ELSE acked
  BY DEF Answer, Store!Forget
<1>2. [Calm EXCEPT !.told = told] \in Calls /\ [Calm EXCEPT !.told = told].pc = "idle"
  BY DEF Calm, Calls, NoPut, Books
<1>3. client' \in [Clients -> Calls] /\ client'[c].pc = "idle"
      /\ \A d \in Clients : d # c => client'[d] = client[d]
  BY <1>1, <1>2 DEF IInv, CallsAreTyped
<1>4. Sound(intake)' BY <1>1 DEF IInv, Sound, Counted, LastReviewIsIn, IsAppliedIn
<1>5. CallsAreTyped' BY <1>1, <1>3 DEF IInv, CallsAreTyped
<1>6. PutsAreCurrent' BY <1>1 DEF IInv, PutsAreCurrent
<1>7. SwapsAreCurrent' BY <1>1, <1>3 DEF IInv, SwapsAreCurrent
<1>8. LandedIsApplied' BY <1>1, <1>3 DEF IInv, LandedIsApplied
<1>9. AckIsDurable' BY <1>1 DEF IInv, AckIsDurable, IsApplied
<1> QED BY <1>4, <1>5, <1>6, <1>7, <1>8, <1>9 DEF IInv

\* A call that starts or reads again: it waits for no write.
LEMMA ReadingKeepsIInv ==
    ASSUME IInv, NEW c \in Clients, NEW call \in Calls, call.pc = "read", call.input \in Inputs,
           client' = [client EXCEPT ![c] = call], UNCHANGED <<store, acked>>
    PROVE  IInv'
<1>1. intake' = intake /\ etag' = etag /\ puts' = puts /\ landed' = landed /\ acked' = acked
  BY DEF store
<1>2. client' \in [Clients -> Calls] /\ client'[c] = call
      /\ \A d \in Clients : d # c => client'[d] = client[d]
  BY DEF IInv, CallsAreTyped
<1>3. Sound(intake)' BY <1>1 DEF IInv, Sound, Counted, LastReviewIsIn, IsAppliedIn
<1>4. CallsAreTyped' BY <1>1, <1>2 DEF IInv, CallsAreTyped
<1>5. PutsAreCurrent' BY <1>1 DEF IInv, PutsAreCurrent
<1>6. SwapsAreCurrent' BY <1>1, <1>2 DEF IInv, SwapsAreCurrent
<1>7. LandedIsApplied' BY <1>1, <1>2 DEF IInv, LandedIsApplied
<1>8. AckIsDurable' BY <1>1 DEF IInv, AckIsDurable, IsApplied
<1> QED BY <1>3, <1>4, <1>5, <1>6, <1>7, <1>8 DEF IInv

\* A call that sends its write.
LEMMA PutKeepsIInv ==
    ASSUME IInv, NEW c \in Clients, readThenPut(c)
    PROVE  IInv'
<1> DEFINE input == client[c].input
           put == [writer |-> c, seen |-> etag, content |-> applied(intake, input)]
<1>1. /\ client[c].pc = "read" /\ ~refused(intake, input)
      /\ puts' = puts \cup {put} /\ landed' = {old \in landed : old.writer # put.writer}
      /\ client' = [client EXCEPT ![c].pc = "swap", ![c].put = put]
      /\ intake' = intake /\ etag' = etag /\ acked' = acked
  BY DEF readThenPut, Store!Send, Store!Put
<1>2. input \in Inputs /\ client[c] \in Calls /\ etag \in Nat
      /\ client \in [Clients -> Calls] /\ Sound(intake)
  BY <1>1 DEF IInv, CallsAreTyped
<1>3. applied(intake, input) \in Books BY <1>1, <1>2, Effect
<1>4. put \in [writer : Clients \cup {"none"}, seen : Nat, content : Books]
  BY <1>2, <1>3
<1>5. /\ client'[c] \in Calls /\ client'[c].pc = "swap" /\ client'[c].put = put
      /\ client'[c].input = input
  BY <1>1, <1>2, <1>4 DEF Calls
<1>6. client' \in [Clients -> Calls] /\ \A d \in Clients : d # c => client'[d] = client[d]
  BY <1>1, <1>2, <1>5
<1>7. Carries(intake, put.content, input) BY <1>1 DEF Carries
<1>8. Sound(intake)' BY <1>1 DEF IInv, Sound, Counted, LastReviewIsIn, IsAppliedIn
<1>9. CallsAreTyped' BY <1>1, <1>2, <1>5, <1>6 DEF IInv, CallsAreTyped
<1>10. PutsAreCurrent'
  <2>1. \A old \in puts : /\ old.seen \in Nat /\ old.seen <= etag
                          /\ old.seen = etag => \E some \in Inputs : Carries(intake, old.content, some)
    BY DEF IInv, PutsAreCurrent
  <2>2. put.seen = etag BY DEF put
  <2> QED BY <1>1, <1>2, <1>7, <2>1, <2>2 DEF PutsAreCurrent
<1>11. SwapsAreCurrent' BY <1>1, <1>5, <1>6, <1>7 DEF IInv, SwapsAreCurrent
<1>12. LandedIsApplied'
  <2>1. put \notin landed' BY <1>1
  <2> QED BY <1>1, <1>5, <1>6, <2>1 DEF IInv, LandedIsApplied
<1>13. AckIsDurable' BY <1>1 DEF IInv, AckIsDurable, IsApplied
<1> QED BY <1>8, <1>9, <1>10, <1>11, <1>12, <1>13 DEF IInv

\* A write that takes effect: one accepted input on the present records.
LEMMA LandingIsOneInput ==
    ASSUME IInv, putLands
    PROVE  /\ \E input \in Inputs : Carries(intake, intake', input)
           /\ etag' = etag + 1 /\ puts' = {} /\ UNCHANGED <<client, acked>>
           /\ \E put \in puts : /\ put.seen = etag /\ put.content = intake'
                                /\ landed' = landed \cup {put}
BY DEF putLands, Store!Lands, IInv, PutsAreCurrent

LEMMA LandingKeepsIInv ==
    ASSUME IInv, putLands
    PROVE  IInv'
<1>1. PICK put \in puts : put.seen = etag /\ put.content = intake' /\ landed' = landed \cup {put}
  BY LandingIsOneInput
<1>2. PICK input \in Inputs : Carries(intake, intake', input)
  BY LandingIsOneInput
<1>3. etag' = etag + 1 /\ puts' = {} /\ client' = client /\ acked' = acked /\ etag \in Nat
      /\ Sound(intake)
  BY LandingIsOneInput DEF IInv, CallsAreTyped
<1>4. ~refused(intake, input) /\ intake' = applied(intake, input) BY <1>2 DEF Carries
<1> DEFINE after == applied(intake, input)
<1>5. Sound(after) BY <1>3, <1>4, EffectIsSound
<1>6. Sound(intake)' BY <1>4, <1>5 DEF Sound, Counted, LastReviewIsIn, IsAppliedIn
<1>7. \A other \in Inputs : IsAppliedIn(intake, other) => IsAppliedIn(after, other)
  BY <1>3, <1>4, Effect
<1>8. CallsAreTyped'
  <2>1. ASSUME NEW c \in Clients, client[c].pc = "swap" PROVE client[c].put.seen <= etag + 1
    <3>1. client[c].put.seen <= etag /\ client[c] \in Calls BY <2>1 DEF IInv, CallsAreTyped
    <3>2. client[c].put.seen \in Nat BY <3>1 DEF Calls
    <3> QED BY <1>3, <3>1, <3>2
  <2> QED BY <1>3, <2>1 DEF IInv, CallsAreTyped
<1>9. PutsAreCurrent' BY <1>3 DEF PutsAreCurrent
<1>10. SwapsAreCurrent'
  <2>1. ASSUME NEW c \in Clients, client[c].pc = "swap" PROVE client[c].put.seen # etag + 1
    <3>1. client[c].put.seen <= etag /\ client[c] \in Calls BY <2>1 DEF IInv, CallsAreTyped
    <3>2. client[c].put.seen \in Nat BY <3>1 DEF Calls
    <3> QED BY <1>3, <3>1, <3>2
  <2> QED BY <1>3, <2>1 DEF SwapsAreCurrent
<1>11. LandedIsApplied'
  <2>1. ASSUME NEW c \in Clients, client[c].pc = "swap", client[c].put \in landed \cup {put}
        PROVE  IsAppliedIn(after, client[c].input)
    <3>1. client[c].input \in Inputs BY <2>1 DEF IInv, CallsAreTyped
    <3>2. CASE client[c].put \in landed BY <1>7, <2>1, <3>1, <3>2 DEF IInv, LandedIsApplied
    <3>3. CASE client[c].put = put
      <4>1. Carries(intake, intake', client[c].input) BY <1>1, <2>1, <3>3 DEF IInv, SwapsAreCurrent
      <4>2. ~refused(intake, client[c].input) /\ after = applied(intake, client[c].input)
        BY <1>4, <4>1 DEF Carries
      <4>3. IsAppliedIn(applied(intake, client[c].input), client[c].input)
        BY <1>3, <3>1, <4>2, Effect
      <4> QED BY <4>2, <4>3
    <3> QED BY <2>1, <3>2, <3>3
  <2> QED BY <1>1, <1>3, <1>4, <2>1 DEF LandedIsApplied
<1>12. AckIsDurable'
  <2>1. \A done \in acked : done \in Inputs /\ IsAppliedIn(intake, done)
    BY DEF IInv, CallsAreTyped, AckIsDurable, IsApplied
  <2>2. \A done \in acked : IsAppliedIn(after, done) BY <1>7, <2>1
  <2> QED BY <1>3, <1>4, <2>2 DEF AckIsDurable, IsApplied
<1> QED BY <1>6, <1>8, <1>9, <1>10, <1>11, <1>12 DEF IInv

LEMMA RetryIsTyped ==
    ASSUME NEW call \in Calls, NEW attempt \in Nat,
           NEW put \in [writer : Clients \cup {"none"}, seen : Nat, content : Books]
    PROVE  LET retry == [call EXCEPT !.pc = "read", !.put = put, !.attempt = attempt]
           IN  retry \in Calls /\ retry.pc = "read" /\ retry.input = call.input
BY DEF Calls

LEMMA NextKeepsIInv == IInv /\ [Next]_vars => IInv'
<1> SUFFICES ASSUME IInv, [Next]_vars PROVE IInv' OBVIOUS
<1>1. ASSUME NEW c \in Clients, NEW input \in Inputs, mutate(c, input) PROVE IInv'
  <2> DEFINE call == [Calm EXCEPT !.pc = "read", !.input = input]
  <2>1. call \in Calls /\ call.pc = "read" /\ call.input = input
    BY DEF Calm, Calls, NoPut, Books
  <2> QED BY <1>1, <2>1, ReadingKeepsIInv DEF mutate
<1>2. ASSUME NEW c \in Clients, readSettles(c) PROVE IInv'
  <2>1. client[c].input \in Inputs /\ Sound(intake) BY <1>2 DEF readSettles, IInv, CallsAreTyped
  <2>2. CASE Answer(c, "refused") BY <2>2, AnswerKeepsIInv
  <2>3. CASE /\ ~refused(intake, client[c].input) /\ applied(intake, client[c].input) = intake
             /\ Answer(c, "ok")
    <3>1. IsAppliedIn(intake, client[c].input) BY <2>1, <2>3, Effect
    <3> QED BY <2>1, <2>3, <3>1, AnswerKeepsIInv
  <2> QED BY <1>2, <2>2, <2>3 DEF readSettles
<1>3. ASSUME NEW c \in Clients, readFails(c) PROVE IInv'
  BY <1>3, AnswerKeepsIInv DEF readFails
<1>4. ASSUME NEW c \in Clients, confirmed(c) PROVE IInv'
  <2>1. client[c].input \in Inputs /\ IsAppliedIn(intake, client[c].input)
    BY <1>4 DEF confirmed, IInv, CallsAreTyped, LandedIsApplied
  <2> QED BY <1>4, <2>1, AnswerKeepsIInv DEF confirmed
<1>5. ASSUME NEW c \in Clients, swapFails(c) PROVE IInv'
  <2>1. CASE Answer(c, "unconfirmed") BY <2>1, AnswerKeepsIInv
  <2>2. CASE /\ client' = [client EXCEPT ![c].pc = "read", ![c].put = NoPut, ![c].attempt = @ + 1]
             /\ UNCHANGED <<store, acked>>
    <3> DEFINE call == [client[c] EXCEPT !.pc = "read", !.put = NoPut, !.attempt = @ + 1]
    <3>1. client \in [Clients -> Calls] /\ client[c] \in Calls /\ client[c].input \in Inputs
      BY <1>5 DEF swapFails, IInv, CallsAreTyped
    <3>2. call \in Calls /\ call.pc = "read" /\ call.input = client[c].input
      <4>1. NoPut \in [writer : Clients \cup {"none"}, seen : Nat, content : Books]
        BY DEF NoPut, Books
      <4>2. client[c].attempt + 1 \in Nat BY <3>1 DEF Calls
      <4> QED BY <3>1, <4>1, <4>2, RetryIsTyped
    <3>3. client' = [client EXCEPT ![c] = call] BY <2>2, <3>1
    <3> QED BY <2>2, <3>1, <3>2, <3>3, ReadingKeepsIInv
  <2> QED BY <1>5, <2>1, <2>2 DEF swapFails
<1>6. CASE UNCHANGED vars
  BY <1>6 DEF vars, store, IInv, Sound, Counted, LastReviewIsIn, IsAppliedIn, CallsAreTyped,
              PutsAreCurrent, SwapsAreCurrent, LandedIsApplied, AckIsDurable, IsApplied
<1> QED BY <1>1, <1>2, <1>3, <1>4, <1>5, <1>6, PutKeepsIInv, LandingKeepsIInv DEF Next, Step

\* Whoever was told that a submission or a review succeeded finds it in the
\* shared record for ever (intake.ts:16-29): for any number of callers,
\* requests, attempts and writes under way.
THEOREM AcknowledgedInputsAreKept == Spec => []AckIsDurable
<1>1. IInv => AckIsDurable BY DEF IInv
<1> QED BY <1>1, InitIsSound, NextKeepsIInv, PTL DEF Spec

-----------------------------------------------------------------------------
(* The records as the promise sees them.                                    *)
AsIntake(records) ==
    [id \in Requests |->
        [details |-> records[id].details, status |-> records[id].status, history |-> records[id].history]]

FewRequests == IsFiniteSet(Known(intake))

LEMMA AsFiled ==
    ASSUME NEW records \in Books, NEW id \in Requests
    PROVE  AsIntake(records)[id] = Promise!Nobody <=> records[id] = Nobody
BY DEF AsIntake, Books, Filed, Statuses, Nobody, Promise!Nobody

\* What one accepted input makes of the records is a step of the promise.
LEMMA AcceptedIsPromised ==
    ASSUME Sound(intake), FewRequests, NEW input \in Inputs, Carries(intake, intake', input)
    PROVE  FewRequests' /\ [Promise!Next]_(AsIntake(intake))
<1>1. /\ intake \in Books /\ input.id \in Requests /\ input.details \in Details
      /\ ~refused(intake, input) /\ intake' = applied(intake, input)
  BY InputIsTyped DEF Sound, Carries
<1>2. CASE intake' = intake BY <1>2 DEF FewRequests, Known, AsIntake
<1>3. CASE /\ input \notin Reviews /\ intake[input.id] = Nobody
           /\ ~(Cardinality(Known(intake)) >= MaxRequests)
           /\ intake' = [intake EXCEPT ![input.id] =
                [details |-> input.details, status |-> "AWAITING_REVIEW", revision |-> 1,
                 history |-> <<"submitted">>, lastReview |-> {}]]
  <2>1. Known(intake)' = Known(intake) \cup {input.id}
    BY <1>1, <1>3 DEF Known, Books, Nobody
  <2>2. FewRequests' BY <2>1, FS_AddElement DEF FewRequests
  <2>3. Promise!Known = Known(intake)
    BY <1>1, AsFiled DEF Promise!Known, AsIntake, Known
  <2>4. Cardinality(Known(intake)) < MaxRequests
    BY <1>3, FS_CardinalityType, LimitsAssumption DEF FewRequests
  <2>5. AsIntake(intake') = [AsIntake(intake) EXCEPT ![input.id] = Promise!Fresh(input.details)]
    <3> DEFINE new == [details |-> input.details, status |-> "AWAITING_REVIEW", revision |-> 1,
                       history |-> <<"submitted">>, lastReview |-> {}]
               seen == [details |-> new.details, status |-> new.status, history |-> new.history]
    <3>1. seen = Promise!Fresh(input.details) BY DEF Promise!Fresh
    <3> HIDE DEF new
    <3>2. AsIntake(intake') = [AsIntake(intake) EXCEPT ![input.id] = seen]
      BY <1>1, <1>3 DEF AsIntake, Books, new
    <3> QED BY <3>1, <3>2
  <2>6. AsIntake(intake)[input.id] = Promise!Nobody BY <1>1, <1>3, AsFiled
  <2>7. Promise!Cardinality(Promise!Known) < MaxRequests
    <3>1. \A S : Promise!Cardinality(S) = Cardinality(S) BY DEF Promise!Cardinality, Cardinality
    <3> QED BY <2>3, <2>4, <3>1
  <2>8. Promise!Submit(input.id, input.details)
    BY <2>5, <2>6, <2>7 DEF Promise!Submit, AsIntake
  <2> QED BY <1>1, <2>2, <2>8 DEF Promise!Next
<1>4. CASE /\ input \in Reviews /\ intake[input.id] \in Filed
           /\ intake[input.id].status =
                 IF input.decision = "start-review" THEN "AWAITING_REVIEW" ELSE "UNDER_REVIEW"
           /\ intake' = [intake EXCEPT ![input.id] = Reviewed(intake[input.id], input)]
  <2>1. Reviewed(intake[input.id], input) # Nobody /\ intake[input.id] # Nobody
    BY <1>4, ReviewedIsFiled, NobodyIsNotFiled
  <2>2. Known(intake)' = Known(intake) BY <1>1, <1>4, <2>1 DEF Known, Books
  <2>3. FewRequests' BY <2>2 DEF FewRequests
  <2>4. input.decision \in Decisions BY <1>4, InputIsTyped
  <2>5. Promise!Review(input.id, intake[input.id].status, input.decision, Outcome(input.decision))
    <3> DEFINE old == intake[input.id]
               new == Reviewed(old, input)
    <3>1. AsIntake(intake)[input.id] =
             [details |-> old.details, status |-> old.status, history |-> old.history]
      BY <1>1 DEF AsIntake
    <3>2. AsIntake(intake') = [AsIntake(intake) EXCEPT ![input.id] =
             [details |-> new.details, status |-> new.status, history |-> new.history]]
      BY <1>1, <1>4 DEF AsIntake, Books
    <3>3. /\ new.details = old.details /\ new.status = Outcome(input.decision)
          /\ new.history = Append(old.history, input.decision)
      BY DEF Reviewed
    <3>4. AsIntake(intake') = [AsIntake(intake) EXCEPT
             ![input.id].status = Outcome(input.decision),
             ![input.id].history = Append(@, input.decision)]
      BY <1>1, <3>1, <3>2, <3>3 DEF AsIntake
    <3> QED BY <3>1, <3>4 DEF Promise!Review, AsIntake
  <2>6. Promise!Next
    BY <1>1, <1>4, <2>4, <2>5 DEF Promise!Next, Decisions, Outcome
  <2> QED BY <2>3, <2>6
<1> QED BY <1>1, <1>2, <1>3, <1>4, CreateEffect, ReviewEffect

\* The blob changes only the way one caller at a time would change it, and
\* stays within the workspace limit, for any callers, limits and requests.
THEOREM ImplementsPromise == Spec => KeepsPromise
<1>1. Init => FewRequests /\ Promise!Init
  <2>1. ASSUME Init PROVE Known(intake) = {} BY <2>1 DEF Init, Known
  <2>2. ASSUME Init PROVE Promise!Init BY <2>2 DEF Init, Promise!Init, Promise!Nobody, Nobody
  <2> QED BY <2>1, <2>2, FS_EmptySet DEF FewRequests
<1>2. ASSUME IInv, FewRequests, [Next]_vars
      PROVE  FewRequests' /\ [Promise!Next]_(AsIntake(intake))
  <2>1. CASE intake' = intake BY <1>2, <2>1 DEF FewRequests, Known, AsIntake
  <2>2. CASE putLands
    BY <1>2, <2>2, LandingIsOneInput, AcceptedIsPromised DEF IInv
  <2>3. CASE intake' # intake
    <3>1. putLands
      BY <1>2, <2>3 DEF Next, vars, store, Step, mutate, readSettles, readThenPut, readFails,
             confirmed, swapFails, Answer, Store!Forget, Store!Send
    <3> QED BY <2>2, <3>1
  <2> QED BY <2>1, <2>3
<1> QED BY <1>1, <1>2, InitIsSound, NextKeepsIInv, PTL DEF Spec, KeepsPromise, Promise!Spec, AsIntake
=============================================================================
