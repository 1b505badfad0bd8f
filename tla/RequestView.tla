----------------------------- MODULE RequestView -----------------------------
(* What people are told and offered about a loan request: the dashboard's   *)
(* view of the record (src/server/dashboard.ts), the customer's outcome     *)
(* (web/customer-model.mjs) and the shared journey (web/journey-model.mjs). *)
(* The three read the record by conditions of their own; here they are      *)
(* compared with each other, with the ledger, and with what the handlers of *)
(* LendingService accept. Wording is reduced to what is claimed.            *)
EXTENDS LendingServiceProperties

Funded(r) == r.validated = "tesSUCCESS" /\ r.xrplValidation = "validated-success"

\* Mutant: a request whose bound has passed is shown as unfunded.
fundingUnlessExpired(r) ==
    CASE Funded(r) -> "funded"
      [] ~Funded(r) /\ r.validated # "none" -> "refused"
      [] r.validated = "none" /\ r.signed /\ r.phase # "EXPIRED_UNRESOLVED" -> "unknown"
      [] OTHER -> "unfunded"

\* requestView's funding.status.
funding(r) ==
    CASE Funded(r) -> "funded"
      [] ~Funded(r) /\ r.validated # "none" -> "refused"
      [] r.validated = "none" /\ r.signed -> "unknown"
      [] OTHER -> "unfunded"

\* Mutant: the submit button comes back after the answer, whatever it was.
requestActionsResubmitting(r) ==
    IF r.signed /\ (r.phase # "SIGNED" \/ ~expired) THEN {<<"submit", "none">>} ELSE {}

\* requestView's allowed actions.
requestActions(r) ==
    LET approved == r.approvals = Roles
        approvalOpen == r.phase \in OpenPhases /\ ~expired
        resolved(stage) == r.receiptAttempt = "none" \/ stage \in r.receipts
    IN  {<<"approve", role>> : role \in IF approvalOpen THEN Roles \ r.approvals ELSE {}}
        \cup (IF approved /\ ~expired /\ ~r.signed /\ resolved("agreement")
              THEN {<<"receipt", "agreement">>} ELSE {})
        \cup (IF approved /\ ~expired /\ ~r.signed /\ "agreement" \in r.receipts
              THEN {<<"sign", "none">>} ELSE {})
        \cup (IF r.signed /\ r.validated = "none" /\ (r.phase # "SIGNED" \/ ~expired)
              THEN {<<"submit", "none">>} ELSE {})
        \cup (IF Funded(r) /\ resolved("execution") THEN {<<"receipt", "execution">>} ELSE {})
        \cup (IF approved /\ ~expired /\ ~r.signed THEN {<<"recover", "agreement">>} ELSE {})
        \cup (IF Funded(r) THEN {<<"recover", "execution">>} ELSE {})

\* loanOutcome for a request; repayment belongs to the cycle's record.
outcome(r) ==
    CASE funding(r) = "funded" -> "funded"
      [] funding(r) # "funded" /\ r.phase = "SIGNED" -> "signed"
      [] funding(r) = "unknown" /\ r.phase # "SIGNED" -> "checking"
      [] funding(r) = "refused" /\ r.phase # "SIGNED" -> "refused"
      [] funding(r) = "unfunded" /\ r.phase # "SIGNED" -> IF expired THEN "expired" ELSE "to-review"

\* financingJourney's title for a request.
title(r) ==
    CASE funding(r) = "funded" -> "funded"
      [] \/ r.phase = "EXPIRED_UNRESOLVED" /\ funding(r) # "funded"
         \/ funding(r) = "unknown" /\ r.phase # "SIGNED" -> "checking"
      [] funding(r) = "refused" /\ r.phase # "EXPIRED_UNRESOLVED" -> "refused"
      [] r.phase = "SIGNED" /\ funding(r) \notin {"funded", "refused"} -> "signed"
      [] OTHER -> IF expired THEN "expired" ELSE "to-review"

\* financingJourney's advice; it is to recover, sign, or submit something.
next(r) ==
    CASE title(r) = "funded" -> IF "execution" \in r.receipts THEN "go-on" ELSE "recover-execution"
      [] title(r) = "checking" -> "reconcile"
      [] title(r) = "signed" -> IF expired THEN "reconcile" ELSE "submit"
      [] title(r) = "to-review" ->
            (CASE r.receiptAttempt = "agreement" -> "recover-agreement"
               [] r.receiptAttempt # "agreement" /\ r.approvals # Roles -> "approve"
               [] r.receiptAttempt # "agreement" /\ r.approvals = Roles ->
                     IF "agreement" \in r.receipts THEN "sign" ELSE "receipt")
      [] OTHER -> "inspect"

\* exactApproval and the first four of the journey's six done marks.
done(r) ==
    (IF r.approvals = Roles THEN {"approved"} ELSE {})
    \cup (IF r.signed THEN {"agree"} ELSE {})
    \cup (IF funding(r) = "funded" THEN {"receive"} ELSE {})

-----------------------------------------------------------------------------
\* What the handler that a button of the dashboard reaches requires.
accepts(action) ==
    CASE action[1] = "approve" -> approvable
      [] action[1] = "receipt" -> receiptable(action[2])
      [] action[1] = "recover" -> recoverable(action[2])
      [] action[1] = "sign" -> signable
      [] action[1] = "submit" -> advanceable

\* A button that is shown for the record on disk is one its handler accepts on
\* that record from any process, after whatever history (dashboard.ts:37-44
\* repeats the conditions of the handlers in service.ts in its own words).
OfferedIsAccepted ==
    lock = NoProc =>
        /\ \A p \in Procs : run[p].pc = "idle"
        /\ \A action \in requestActions(disk) : accepts(action)

\* The dashboard, the customer's page and the journey tell the same story, and
\* it is the ledger's: funded or refused only by its verdict, and nobody reads
\* "expired", "to-review" or "submit" once the blob may be out.
ToldTruthfully ==
    disk.phase # "NONE" =>
        /\ outcome(disk) = title(disk)
        /\ outcome(disk) = "funded" => chain.result = "tesSUCCESS"
        /\ outcome(disk) = "refused" => chain.result = "tec"
        /\ outcome(disk) \in {"expired", "to-review", "signed"} => ~chain.sent
        /\ chain.sent => next(disk) \in {"go-on", "recover-execution", "reconcile", "inspect"}
        /\ "receive" \in done(disk) => {"approved", "agree"} \subseteq done(disk)
=============================================================================
