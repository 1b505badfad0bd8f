----------------------------- MODULE ExactReview -----------------------------
(* The dialog in which a person confirms one exact action: the operator's   *)
(* console (web/app.js) and the loan agreement on the customer's page       *)
(* (web/customer.js), over what the newest snapshot offers (sameReview in   *)
(* web/state-client.mjs) and what the server still accepts when the request *)
(* arrives (src/server/index.ts). The server may be stopped, and started    *)
(* again over another data directory in which the same request ID names     *)
(* another agreement. How snapshots arrive is in PageSnapshots.             *)
EXTENDS Naturals, FiniteSets

CONSTANTS
    Terms,          \* agreements that directories hold under the request's ID
    MaxStarts       \* bound on the starts of the server

VARIABLES
    server,     \* which start it is, the agreement it holds and how far that is
    passed,     \* the wall clock has passed the agreement's expiresAt
    desk,       \* whose page this is: the console or a customer's role
    snapshot,   \* the page's state
    reached,    \* the page's connection note
    exact,      \* the open dialog: the page's copy of what is reviewed
    ticked,     \* the consent box of a customer's dialog
    waiting,    \* the request the page waits for
    abandoned,  \* requests it has stopped waiting for
    approved    \* approvals that took effect: what was shown and what was approved (history)

evars == <<server, passed, desk, snapshot, reached, exact, ticked, waiting, abandoned, approved>>

Signers == {"broker", "borrower"}
Approve(role) == <<"approve", role>>
Submit == <<"submit", "operator">>
Blank == [start |-> 0, terms |-> "none", offers |-> {}]
NoDialog == [start |-> 0, terms |-> "none", action |-> <<"none", "none">>]
NoRequest == [terms |-> "none", action |-> <<"none", "none">>]

EInit ==
    /\ server \in [start : {1}, terms : Terms, approvals : {{}}, sent : {FALSE}, ready : BOOLEAN]
    /\ passed = FALSE
    /\ desk \in Signers \cup {"console"}
    /\ snapshot = Blank /\ reached = FALSE
    /\ exact = NoDialog /\ ticked = FALSE
    /\ waiting = NoRequest /\ abandoned = {}
    /\ approved = {}

Shown == <<snapshot, reached>>
Dialog == <<exact, ticked>>
Requests == <<waiting, abandoned>>

-----------------------------------------------------------------------------
(* What the server offers and does.                                         *)
\* A ledger action is offered while the services are ready.
withReadiness(actions) == IF server.ready THEN actions ELSE actions \ {Submit}

Offers ==
    withReadiness(
        {Approve(role) : role \in IF server.sent \/ passed THEN {} ELSE Signers \ server.approvals}
        \cup (IF server.approvals = Signers /\ ~server.sent /\ ~passed THEN {Submit} ELSE {}))

\* Mutant: the hashes of an approval are not compared with the record.
AcceptsAnyTerms(request) ==
    /\ ~server.sent /\ ~passed
    /\ \/ request.action[1] = "approve"
       \/ server.approvals = Signers /\ server.ready

\* The record is compared with the hashes of an approval; any other action
\* names only the request's ID, and its handler looks at the record.
Accepts(request) ==
    /\ ~server.sent /\ ~passed
    /\ \/ request.action[1] = "approve" /\ request.terms = server.terms
       \/ request.action = Submit /\ server.approvals = Signers /\ server.ready

Handle(request) ==
    IF ~Accepts(request) THEN UNCHANGED <<server, approved>>
    ELSE IF request.action = Submit
    THEN server' = [server EXCEPT !.sent = TRUE] /\ UNCHANGED approved
    ELSE /\ server' = [server EXCEPT !.approvals = @ \cup {request.action[2]}]
         /\ approved' = approved \cup {[shown |-> request.shown, ticked |-> request.ticked,
                                        is |-> server.terms]}

handles ==
    /\ waiting # NoRequest /\ ~waiting.answered
    /\ Handle(waiting)
    /\ waiting' = [waiting EXCEPT !.answered = TRUE]
    /\ UNCHANGED <<passed, desk, Shown, Dialog, abandoned>>

handlesLate(request) ==
    /\ Handle(request) /\ abandoned' = abandoned \ {request}
    /\ UNCHANGED <<passed, desk, Shown, Dialog, waiting>>

\* A stop loses the requests under way; the next start may be over another directory.
starts ==
    /\ server.start < MaxStarts
    /\ \E terms \in Terms :
          server' = IF terms = server.terms THEN [server EXCEPT !.start = @ + 1, !.ready = FALSE]
                    ELSE [start |-> server.start + 1, terms |-> terms, approvals |-> {},
                          sent |-> FALSE, ready |-> FALSE]
    /\ waiting' = IF waiting = NoRequest THEN waiting ELSE [waiting EXCEPT !.answered = TRUE]
    /\ abandoned' = {}
    /\ UNCHANGED <<passed, desk, Shown, Dialog, approved>>

\* Health, the clock, and the other people's approvals.
worldChanges ==
    /\ \/ server' = [server EXCEPT !.ready = ~@] /\ UNCHANGED passed
       \/ \E role \in Signers : /\ Approve(role) \in Offers
                                /\ server' = [server EXCEPT !.approvals = @ \cup {role}]
                                /\ UNCHANGED passed
       \/ ~passed /\ passed' = TRUE /\ UNCHANGED server
    /\ UNCHANGED <<desk, Shown, Dialog, Requests, approved>>

-----------------------------------------------------------------------------
(* The page.                                                                *)
Busy == waiting # NoRequest

\* sameReview: the same start, the same agreement, and still offered.
sameReview ==
    /\ exact.start = snapshot.start
    /\ exact.action \in snapshot.offers
    /\ exact.terms = snapshot.terms

refreshes ==
    /\ reached' \in BOOLEAN
    /\ snapshot' = IF reached' THEN [start |-> server.start, terms |-> server.terms, offers |-> Offers]
                 ELSE snapshot
    /\ UNCHANGED <<server, passed, desk, Dialog, Requests, approved>>

\* The console's buttons.
startReview(action) ==
    /\ desk = "console" /\ exact = NoDialog /\ ~Busy
    /\ reached /\ action \in snapshot.offers
    /\ exact' = [start |-> snapshot.start, terms |-> snapshot.terms, action |-> action]
    /\ UNCHANGED <<server, passed, desk, Shown, ticked, Requests, approved>>

\* The customer's agreement; the box is empty whenever the dialog opens.
openLoan ==
    /\ desk \in Signers /\ exact = NoDialog /\ ~Busy
    /\ Approve(desk) \in snapshot.offers /\ ~passed
    /\ exact' = [start |-> snapshot.start, terms |-> snapshot.terms, action |-> Approve(desk)]
    /\ ticked' = FALSE
    /\ UNCHANGED <<server, passed, desk, Shown, Requests, approved>>

\* updateReview: the box counts while the dialog is valid.
ticks ==
    /\ desk \in Signers /\ exact # NoDialog /\ ~Busy
    /\ ticked' = ~ticked
    /\ UNCHANGED <<server, passed, desk, Shown, exact, Requests, approved>>

\* The hashes that go out are those of the copy under review.
Confirm ==
    /\ exact # NoDialog /\ ~Busy /\ reached /\ sameReview
    /\ waiting' = [terms |-> exact.terms, action |-> exact.action,
                   shown |-> exact.terms, ticked |-> ticked, answered |-> FALSE]
    /\ UNCHANGED <<server, passed, desk, Shown, Dialog, abandoned, approved>>

confirmAction == desk = "console" /\ Confirm
applyLoan == desk \in Signers /\ ticked /\ Confirm

Close == exact' = NoDialog /\ UNCHANGED ticked

cancelReview ==
    /\ exact # NoDialog /\ ~Busy
    /\ Close
    /\ UNCHANGED <<server, passed, desk, Shown, Requests, approved>>

\* An answer, an error or a timeout: the dialog closes, whatever it was.
settles ==
    /\ Busy /\ Close
    /\ waiting' = NoRequest
    /\ abandoned' = IF waiting.answered THEN abandoned ELSE abandoned \cup {waiting}
    /\ UNCHANGED <<server, passed, desk, Shown, approved>>

ENext ==
    \/ handles \/ starts \/ worldChanges
    \/ \E request \in abandoned : handlesLate(request)
    \/ refreshes
    \/ \E action \in snapshot.offers : startReview(action)
    \/ openLoan \/ ticks \/ confirmAction \/ applyLoan \/ cancelReview \/ settles
=============================================================================
