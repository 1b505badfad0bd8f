--------------------------- MODULE AssistantBudget ---------------------------
(* The shared reservation before a paid model call of the assistant         *)
(* (src/hosted/assistant-budget.ts, POST /api/assistant in api.ts). One     *)
(* blob per day counts the calls in all, per hour and per session, before   *)
(* they are made. Serverless instances reserve concurrently; a write that   *)
(* counted may lose its answer, and is then counted again.                  *)
EXTENDS Naturals, FiniteSets

CONSTANTS
    Callers,        \* calls that can be in progress at the same time
    Sessions,       \* browser sessions
    LastHour,       \* bound on the hour of the day
    Limit,          \* total, hour and session: 200, 60 and 20 in the code
    BudgetAttempts, \* attempts of one reservation (2 in the code)
    MaxCounting     \* bound on the writes under way at the same time

ASSUME BudgetAssumption == Limit \in [total : Nat, hour : Nat, session : Nat] /\ LastHour \in Nat

VARIABLES
    counts, version, writes, done,  \* the blob, see Blob
    hour,                           \* the hour of the day
    caller,                         \* per caller: the reservation in progress
    granted                         \* the model calls made, numbered (history)

budget == <<counts, version, writes, done>>
bvars == <<budget, hour, caller, granted>>

Budget == INSTANCE Blob WITH
    content <- counts, etag <- version, puts <- writes, landed <- done, MaxInFlight <- MaxCounting

Hours == 0..LastHour
Zero == [total |-> 0, hours |-> [h \in Hours |-> 0], sessions |-> [s \in Sessions |-> 0]]
NoWrite == [writer |-> "none", seen |-> 0, content |-> Zero]
Quiet == [pc |-> "idle", session |-> "none", hour |-> 0, attempt |-> 1, put |-> NoWrite]

BInit ==
    /\ counts = Zero
    /\ version = 0
    /\ writes = {}
    /\ done = {}
    /\ hour = 0
    /\ caller = [c \in Callers |-> Quiet]
    /\ granted = {}

\* Mutant: one more call than the limit is let through.
ExhaustedLate(c) ==
    \/ counts.total > Limit.total
    \/ counts.hours[caller[c].hour] > Limit.hour
    \/ counts.sessions[caller[c].session] > Limit.session

Exhausted(c) ==
    \/ counts.total >= Limit.total
    \/ counts.hours[caller[c].hour] >= Limit.hour
    \/ counts.sessions[caller[c].session] >= Limit.session

Counted(c) ==
    [total |-> counts.total + 1,
     hours |-> [counts.hours EXCEPT ![caller[c].hour] = @ + 1],
     sessions |-> [counts.sessions EXCEPT ![caller[c].session] = @ + 1]]

-----------------------------------------------------------------------------
\* The hour is taken once, before the attempts.
reserve(c, session) ==
    /\ caller[c].pc = "idle"
    /\ caller' = [caller EXCEPT ![c] =
          [Quiet EXCEPT !.pc = "read", !.session = session, !.hour = hour]]
    /\ UNCHANGED <<budget, hour, granted>>

Paid(c) == [nr |-> Cardinality(granted) + 1, hour |-> caller[c].hour, session |-> caller[c].session]

\* The visitor gets an answer of the model, or is sent to the guided form.
Answered(c, paid) ==
    /\ caller' = [caller EXCEPT ![c] = Quiet]
    /\ granted' = IF paid THEN granted \cup {Paid(c)} ELSE granted
    /\ Budget!Forget(c)
    /\ UNCHANGED hour

\* A limit is reached, or the document cannot be read.
refuse(c) ==
    /\ caller[c].pc = "read"
    /\ Answered(c, FALSE)

count(c) ==
    /\ caller[c].pc = "read" /\ ~Exhausted(c)
    /\ LET put == Budget!Put(c, Counted(c))
       IN  /\ Budget!Send(put)
           /\ caller' = [caller EXCEPT ![c].pc = "put", ![c].put = put]
    /\ UNCHANGED <<hour, granted>>

grant(c) ==
    /\ caller[c].pc = "put"
    /\ caller[c].put \in done
    /\ Answered(c, TRUE)

countFails(c) ==
    /\ caller[c].pc = "put"
    /\ IF caller[c].attempt = BudgetAttempts THEN Answered(c, FALSE)
       ELSE /\ caller' = [caller EXCEPT ![c].pc = "read", ![c].attempt = @ + 1]
            /\ UNCHANGED <<budget, hour, granted>>

countLands ==
    /\ \E put \in writes : Budget!Lands(put)
    /\ UNCHANGED <<hour, caller, granted>>

nextHour ==
    /\ hour < LastHour
    /\ hour' = hour + 1
    /\ UNCHANGED <<budget, caller, granted>>

BNext ==
    \/ \E c \in Callers :
          \/ \E session \in Sessions : reserve(c, session)
          \/ refuse(c) \/ count(c) \/ grant(c) \/ countFails(c)
    \/ countLands \/ nextHour

-----------------------------------------------------------------------------
\* The paid calls of a day, of an hour and of a session stay within their
\* limits, and each is on the shared count, also when reservations race, lose
\* their answers or span the hour (assistant-budget.ts:14-17, "fail-closed").
GrantedWithinLimits ==
    /\ Cardinality(granted) <= counts.total /\ counts.total <= Limit.total
    /\ \A h \in Hours :
          /\ Cardinality({call \in granted : call.hour = h}) <= counts.hours[h]
          /\ counts.hours[h] <= Limit.hour
    /\ \A s \in Sessions :
          /\ Cardinality({call \in granted : call.session = s}) <= counts.sessions[s]
          /\ counts.sessions[s] <= Limit.session
=============================================================================
