---------------------------- MODULE CustomerPage ----------------------------
(* The pages: the shared state they show (PageSnapshots), what a customer   *)
(* does privately (PageRequests), the dialog for an exact action, which the *)
(* customer's page and the operator's console have alike (ExactReview), and *)
(* what is asked for on demand (PageReadings). Dialogs are modal, and no    *)
(* read depends on what another read: a behaviour exercises one of the four *)
(* sides.                                                                   *)
EXTENDS PageSnapshots, PageRequests, ExactReview, PageReadings

VARIABLE side   \* the side of the page this behaviour exercises

Init ==
    /\ SInit /\ RInit /\ EInit /\ WInit
    /\ side \in {"snapshots", "requests", "actions", "readings"}
    /\ side # "snapshots" => source = "live"
    /\ side # "requests" => role = "borrower" /\ storage /\ openDemo
    /\ side # "actions" => desk = "console" /\ server.ready /\ server.terms = CHOOSE terms \in Terms : TRUE
    /\ side # "readings" => borrowers = [loan \in Loans |-> CHOOSE account \in Accounts : TRUE]

Next ==
    /\ UNCHANGED side
    /\ \/ side = "snapshots" /\ SNext /\ UNCHANGED <<rvars, evars, wvars>>
       \/ side = "requests" /\ RNext /\ UNCHANGED <<svars, evars, wvars>>
       \/ side = "actions" /\ ENext /\ UNCHANGED <<svars, rvars, wvars>>
       \/ side = "readings" /\ WNext /\ UNCHANGED <<svars, rvars, evars>>

Spec == Init /\ [][Next]_<<svars, rvars, evars, wvars, side>>
-----------------------------------------------------------------------------

\* While the page stays with a source, or with a role's inbox, what it shows
\* never goes back to something older, in whatever order the answers to
\* overlapping reads arrive and also across a restart of the server
\* (SnapshotCursor, Dashboard.snapshot and currentInboxResponse).
NeverShowsOlder ==
    [][/\ state.mode = state'.mode => state.content <= state'.content
       /\ intake.role = intake'.role
            => \A id \in Ids : intake.revisions[id] <= intake'.revisions[id]]_<<svars, rvars>>

\* A submission whose outcome the page has not seen is the one it would send
\* again, with the same ID, whatever is opened, closed, locked or filled in
\* between, and after a reload if the browser has storage (customer.js, the
\* pending copy): no second request is created for the same need.
UncertainIsRemembered == uncertain \subseteq {pending}

\* A decision that took effect is of exactly what the dialog showed when it
\* was made: a review replaced the version shown, although the inbox is read
\* again behind the dialog and another reviewer decides meanwhile
\* (intakeReviewMatches and the expected revision), and an approval is of the
\* agreement shown, on a customer's page with the consent given in that dialog,
\* although the server may hold another agreement by then (sameReview, the
\* hashes of index.ts:158-159). Answers may be lost, and requests come late.
DecisionIsOfWhatIsShown ==
    /\ \A decision \in decided : decision.shown = decision.replaced
    /\ \A approval \in approved : /\ approval.shown = approval.is
                                  /\ desk \in Signers => approval.ticked

\* What was asked for on demand is taken only for what it was asked about,
\* however late it comes: an observation kept for a loan is of the account in
\* the agreement that was shown, its balance is as of the ledger it names, and
\* a later observation is of no earlier ledger; the guide's draft is an answer
\* to the present conversation; the receipts listed are those of the request
\* last asked for. Another request is chosen meanwhile, the server is started
\* over another directory, and ledgers close between the two reads.
AnswersBelong ==
    [][/\ \A key \in Loans \X Accounts :
             LET observation == readings'[key].observation
             IN  observation # NoObservation =>
                    /\ <<observation.loan, observation.account>> = key
                    /\ observation.balance = Balance(observation.index)
                    /\ readings[key].observation.index <= observation.index
       /\ chat'.draft \in {NoDraft} \cup [version : {chat'.version}, turn : 1..chat'.turn]
       /\ register'.rows \in {"none", "loading", "failed", register'.of}]_wvars
=============================================================================
