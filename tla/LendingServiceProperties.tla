---------------------- MODULE LendingServiceProperties ----------------------
(* What LendingService must guarantee, whatever the interleaving of         *)
(* processes, ledger, clock, receipt authority, crashes and failed writes.  *)
EXTENDS LendingService

Records ==
    [phase : Phases, approvals : SUBSET Roles, receipts : SUBSET Stages,
     receiptAttempt : Stages \cup {"none"}, signed : BOOLEAN, lastLedgerSequence : Nat,
     validated : Outcomes, executionManifest : BOOLEAN,
     receiptAuthority : {"unchecked", "online-verified"},
     xrplValidation : {"unchecked", "unknown", "validated-success", "validated-refusal"}]

Ops == {"none", "create", "approve", "receiptAgreement", "receiptExecution",
        "prepareExternalReceipt", "attachRecoveredReceipt", "sign", "advance"}

Runs ==
    [op : Ops, stage : Stages \cup {"none"}, r : Records,
     pc : WritePCs \cup CallPCs \cup {"idle", "submit", "respond", "throw"}]

\* The type of every variable of the service and its surroundings.
TypeOK ==
    /\ disk \in Records
    /\ lock \in Procs \cup {NoProc}
    /\ run \in [Procs -> Runs]
    /\ chain \in [sent : BOOLEAN, result : Outcomes]
    /\ ledger \in Nat
    /\ expired \in BOOLEAN
    /\ issued \in [Stages -> Nat]
    /\ handoffs \subseteq Stages
    /\ faults \in Nat

\* The authority never charges twice for a stage: a lost answer, a crash, a
\* second process or a human with a handoff never leads to another issuance
\* (README: "is not automatically charged again").
ChargedAtMostOnce == \A stage \in Stages : issued[stage] <= 1

\* A charge is never forgotten: whatever was issued, the file on disk holds
\* its receipt or still marks the attempt unresolved (service.ts:76-80,150-152).
ChargeIsOnRecord ==
    \A stage \in Stages :
        issued[stage] > 0 => stage \in disk.receipts \/ disk.receiptAttempt = stage

\* A blob that may have reached the ledger is one whose signature, approvals
\* and sealed agreement were on disk first, and the disk knows it may be out.
SentIsAuthorized ==
    chain.sent =>
        /\ disk.signed
        /\ disk.approvals = Roles
        /\ "agreement" \in disk.receipts /\ issued["agreement"] > 0
        /\ disk.phase \notin OpenPhases \cup {"NONE", "SIGNED"}

\* The phase shown to people agrees with the ledger's verdict and with the
\* authority: no refusal or funding is ever reported that did not happen.
PhaseIsTruthful ==
    /\ disk.validated # "none" => disk.validated = chain.result
    /\ disk.phase = "REJECTED" <=> disk.validated = "tec"
    /\ disk.phase \in {"VALIDATED_RECEIPT_PENDING", "FUNDED_WITH_EVIDENCE"}
          <=> disk.validated = "tesSUCCESS"
    /\ disk.phase = "FUNDED_WITH_EVIDENCE" => issued["execution"] > 0
    /\ disk.phase = "SIGNED" => ~chain.sent

\* What is on record stays on record: no handler, late write or restart drops
\* an approval, a receipt, the signature or the verdict, or moves the bound of
\* a prepared transaction.
NothingForgotten ==
    [][ disk.phase # "NONE" =>
          /\ disk.approvals \subseteq disk'.approvals
          /\ disk.receipts \subseteq disk'.receipts
          /\ disk.signed => disk'.signed
          /\ disk.validated # "none" => disk'.validated = disk.validated
          /\ disk'.lastLedgerSequence = disk.lastLedgerSequence ]_vars

Rank(phase) ==
    CASE phase = "NONE" -> 0
      [] phase = "AGREEMENT_LOCKED" -> 1
      [] phase = "AGREEMENT_RECEIPTED" -> 2
      [] phase = "SIGNED" -> 3
      [] phase \in {"SUBMITTED", "VALIDATION_UNKNOWN", "EXPIRED_UNRESOLVED"} -> 4
      [] phase \in {"VALIDATED_RECEIPT_PENDING", "REJECTED"} -> 5
      [] phase = "FUNDED_WITH_EVIDENCE" -> 6

\* The request never moves backwards (service.ts:69-70: "must not rewind
\* signing/funding").
NeverRewinds == [][Rank(disk.phase) <= Rank(disk'.phase)]_vars

Promise == INSTANCE LoanPromise WITH
    consent  <- disk.approvals,
    signed   <- disk.signed,
    decided  <- chain.result,
    reported <- disk.validated,
    charged  <- {stage \in Stages : issued[stage] > 0},
    evidence <- disk.receipts

\* The service with all its awaits and failures implements the promise.
KeepsPromise == Promise!Spec

-----------------------------------------------------------------------------
(* Fairness: a started handler goes on (the event loop, with timeouts on    *)
(* every remote call), an operator clears a stale lock and keeps repeating  *)
(* submit, and a lookup that is repeated for ever is answered in the end.   *)
FairSpec ==
    /\ Spec
    /\ \A p \in Procs : WF_vars(Step(p)) /\ WF_vars(clearStaleLock(p))
    /\ SF_vars(\E p \in Procs : advance(p))
    /\ SF_vars(\E p \in Procs : lookupFinds(p))

\* Funding is never lost from sight: once the ledger has decided, the record
\* says so in the end, through crashes, expiry of consent, EXPIRED_UNRESOLVED
\* and outages of the authority.
VerdictIsReported == (chain.result # "none") ~> (disk.validated = chain.result)

\* No path of a handler keeps the lock. After a crash only the operator frees it
\* (store.ts:30-31), which is assumed of him.
LockIsFreed == (lock # NoProc) ~> (lock = NoProc)

-----------------------------------------------------------------------------
(* A claim of the repository that the code does not keep.                   *)

\* README.md:155-157: an unresolved receipt call is recovered "through the
\* operator recovery endpoint", which refuses the agreement once it is signed.
UnresolvedIsRecoverable == disk.receiptAttempt = "agreement" => ~disk.signed
=============================================================================
