--------------------------- MODULE LendingService ---------------------------
(* One loan request in LendingService (src/requests/service.ts), kept in    *)
(* the durable Store and guarded by processLock (src/requests/store.ts).    *)
(* Every await of a handler is a step of its own, so the ledger, the clock, *)
(* the receipt authority and a crash can come between any two of them.      *)
(* Hashes, salts, documents and blobs are abstracted: a call that names     *)
(* other hashes than the record's is refused and changes nothing.           *)
EXTENDS Naturals

CONSTANTS
    Procs,      \* operating-system processes: the server, the CLI, the worker
    NoProc,     \* the lock file does not exist
    Window,     \* ledgers between preparation and LastLedgerSequence
    MaxLedger,  \* bound on the ledger index
    MaxFaults   \* bound on crashes and failed disk writes together

ASSUME ProcsAssumption == NoProc \notin Procs
ASSUME BoundsAssumption == Window \in Nat /\ MaxLedger \in Nat /\ MaxFaults \in Nat

VARIABLES
    disk,       \* the request's JSON file
    lock,       \* data/writer.lock: the process it names, or NoProc
    run,        \* per process: the handler in progress and its copy of the record
    chain,      \* the signed blob on the ledger: sent?, and its validated result
    ledger,     \* the validated ledger index
    expired,    \* the wall clock has passed agreement.expiresAt
    issued,     \* receipts the authority has issued, and charged, per stage
    handoffs,   \* stages handed to a human for issuance outside the service
    faults      \* crashes and failed writes so far

vars == <<disk, lock, run, chain, ledger, expired, issued, handoffs, faults>>

Roles == {"broker", "borrower"}
Stages == {"agreement", "execution"}
Outcomes == {"none", "tesSUCCESS", "tec"}    \* tec: every validated code but tesSUCCESS
OpenPhases == {"AGREEMENT_LOCKED", "AGREEMENT_RECEIPTED"}
Phases == OpenPhases \cup
    {"NONE", "SIGNED", "SUBMITTED", "VALIDATION_UNKNOWN", "REJECTED", "EXPIRED_UNRESOLVED",
     "VALIDATED_RECEIPT_PENDING", "FUNDED_WITH_EVIDENCE"}

\* No file yet.
Blank ==
    [phase |-> "NONE", approvals |-> {}, receipts |-> {}, receiptAttempt |-> "none",
     signed |-> FALSE, lastLedgerSequence |-> 0, validated |-> "none",
     executionManifest |-> FALSE, receiptAuthority |-> "unchecked", xrplValidation |-> "unchecked"]

Idle == [op |-> "none", stage |-> "none", pc |-> "idle", r |-> Blank]

Init ==
    /\ disk = Blank
    /\ lock = NoProc
    /\ run = [p \in Procs |-> Idle]
    /\ chain = [sent |-> FALSE, result |-> "none"]
    /\ ledger = 0
    /\ expired = FALSE
    /\ issued = [s \in Stages |-> 0]
    /\ handoffs = {}
    /\ faults = 0

-----------------------------------------------------------------------------
(* The checks every handler makes on the record it has read.                *)
assertContent(requireUnexpired) ==
    /\ disk.phase # "NONE"
    /\ requireUnexpired => ~expired

assertApprovals(r) == r.approvals = Roles

\* Mutant: the lock is not exclusive.
lockNotExclusive == TRUE

\* processLock: open with 'wx', so one process at a time gets past it.
lockIsFree == lock = NoProc

\* A process takes the lock and starts a handler on the record it reads.
Begin(p, op, stage, pc, r) ==
    /\ run[p].pc = "idle"
    /\ lockIsFree
    /\ lock' = p
    /\ run' = [run EXCEPT ![p] =
          [op |-> op, stage |-> stage, pc |-> pc, r |-> r]]
    /\ UNCHANGED <<disk, chain, ledger, expired, issued, handoffs, faults>>

Continue(p, pc, r) ==
    /\ run' = [run EXCEPT ![p].pc = pc, ![p].r = r]
    /\ UNCHANGED <<disk, lock, ledger, expired, handoffs, faults>>

Silent == UNCHANGED <<chain, issued>>

-----------------------------------------------------------------------------
(* What each handler requires of the record it reads.                       *)
approvable == assertContent(TRUE) /\ disk.phase \in OpenPhases

\* A receipt that is there is verified; without one no attempt is unresolved.
receiptable(stage) ==
    /\ assertContent(stage = "agreement")
    /\ IF stage = "agreement" THEN assertApprovals(disk)
       ELSE disk.validated = "tesSUCCESS" /\ disk.executionManifest
    /\ stage \in disk.receipts \/ disk.receiptAttempt = "none"

recoverable(stage) ==
    /\ assertContent(stage = "agreement")
    /\ IF stage = "agreement" THEN ~disk.signed ELSE disk.executionManifest

signable ==
    /\ assertContent(TRUE)
    /\ assertApprovals(disk)
    /\ ~disk.signed
    /\ "agreement" \in disk.receipts

advanceable ==
    /\ assertContent(~disk.signed)
    /\ assertApprovals(disk)
    /\ disk.signed /\ "agreement" \in disk.receipts
    /\ disk.validated = "none"

-----------------------------------------------------------------------------
(* The first, lock-taking part of each handler.                             *)
create(p) ==
    /\ disk.phase = "NONE"
    /\ ~expired
    /\ Begin(p, "create", "none", "write",
             [Blank EXCEPT !.phase = "AGREEMENT_LOCKED", !.lastLedgerSequence = ledger + Window])

approve(p, role) ==
    /\ approvable
    /\ Begin(p, "approve", "none", "write", [disk EXCEPT !.approvals = @ \cup {role}])

\* Mutant: the intent stays in memory until the authority has answered.
IntendInMemory(p, op, stage) == Begin(p, op, stage, "seal", [disk EXCEPT !.receiptAttempt = stage])

\* An intent to issue is written before the authority is called.
Intend(p, op, stage) == Begin(p, op, stage, "intend", [disk EXCEPT !.receiptAttempt = stage])

receiptAgreement(p) ==
    /\ receiptable("agreement")
    /\ IF "agreement" \in disk.receipts
       THEN Begin(p, "receiptAgreement", "agreement", "recheck", disk)
       ELSE Intend(p, "receiptAgreement", "agreement")

receiptExecution(p) ==
    /\ receiptable("execution")
    /\ IF "execution" \in disk.receipts
       THEN Begin(p, "receiptExecution", "execution", "verify", disk)
       ELSE Intend(p, "receiptExecution", "execution")

prepareExternalReceipt(p, stage) ==
    /\ receiptable(stage)
    /\ stage = "agreement" => ~disk.signed
    /\ stage \notin disk.receipts
    /\ Begin(p, "prepareExternalReceipt", stage, "write", [disk EXCEPT !.receiptAttempt = stage])

\* Mutant: the recovered receipt is stored without asking the authority.
attachUnverified(p, stage) ==
    /\ recoverable(stage)
    /\ Begin(p, "attachRecoveredReceipt", stage, "write",
             [disk EXCEPT !.receipts = @ \cup {stage}])

attachRecoveredReceipt(p, stage) ==
    /\ recoverable(stage)
    /\ Begin(p, "attachRecoveredReceipt", stage, "verify",
             [disk EXCEPT !.receipts = @ \cup {stage}])

sign(p) ==
    /\ signable
    /\ Begin(p, "sign", "none", "sign", disk)

advance(p) ==
    /\ advanceable
    /\ Begin(p, "advance", "none", "lookup", disk)

-----------------------------------------------------------------------------
(* The awaits of the handlers, each with the code up to the next await.     *)

\* Store.write is one atomic rename; what the handler does next follows it.
AfterWrite(pc) ==
    CASE pc = "write"      -> "respond"
      [] pc = "intend"     -> "seal"
      [] pc = "store"      -> "verify"
      [] pc = "submitting" -> "originate"

WritePCs == {"write", "intend", "store", "submitting"}
CallPCs == {"seal", "verify", "recheck", "sign", "lookup", "bound", "originate"}

write(p) ==
    /\ run[p].pc \in WritePCs
    /\ disk' = run[p].r
    /\ run' = [run EXCEPT ![p].pc = AfterWrite(@)]
    /\ UNCHANGED <<lock, chain, ledger, expired, issued, handoffs, faults>>

writeFails(p) ==
    /\ run[p].pc \in WritePCs
    /\ faults < MaxFaults
    /\ run' = [run EXCEPT ![p].pc = "throw"]
    /\ faults' = faults + 1
    /\ UNCHANGED <<disk, lock, chain, ledger, expired, issued, handoffs>>

\* A remote call fails, or a check on its answer does: the handler throws.
callFails(p) ==
    /\ run[p].pc \in CallPCs
    /\ Continue(p, "throw", run[p].r)
    /\ Silent

\* receipts.seal charges; its answer may still be lost on the way back.
seal(p) ==
    /\ run[p].pc = "seal"
    /\ issued' = [issued EXCEPT ![run[p].stage] = @ + 1]
    /\ UNCHANGED chain
    /\ \/ Continue(p, "store", [run[p].r EXCEPT !.receipts = @ \cup {run[p].stage}])
       \/ Continue(p, "throw", run[p].r)

Receipted(stage, r) ==
    [r EXCEPT !.receiptAttempt = "none",
              !.phase = IF stage = "agreement" THEN "AGREEMENT_RECEIPTED" ELSE "FUNDED_WITH_EVIDENCE",
              !.receiptAuthority = IF stage = "agreement" THEN "online-verified" ELSE @]

\* The authority confirms only what it has issued.
verify(p) ==
    /\ run[p].pc = "verify"
    /\ issued[run[p].stage] > 0
    /\ Continue(p, "write", Receipted(run[p].stage, run[p].r))
    /\ Silent

\* Mutants: a repeated check clears any unresolved attempt; it resets the phase.
RecheckedClearingAny(r) == [r EXCEPT !.receiptAttempt = "none", !.receiptAuthority = "online-verified"]
RecheckedRewinding(r) == Receipted("agreement", r)

Rechecked(r) ==
    [r EXCEPT !.receiptAttempt = IF @ = "agreement" THEN "none" ELSE @,
              !.phase = IF @ = "AGREEMENT_LOCKED" THEN "AGREEMENT_RECEIPTED" ELSE @,
              !.receiptAuthority = "online-verified"]

recheck(p) ==
    /\ run[p].pc = "recheck"
    /\ Continue(p, "write", Rechecked(run[p].r))
    /\ Silent

\* assertCanOriginate, verify and ledgerIndex have all answered.
cosign(p) ==
    /\ run[p].pc = "sign"
    /\ ledger <= run[p].r.lastLedgerSequence
    /\ Continue(p, "write", [run[p].r EXCEPT !.signed = TRUE, !.phase = "SIGNED"])
    /\ Silent

\* Mutants: every validated result counts as funding; the raw code is stored.
ReconciledAsFunding(r, result) ==
    [r EXCEPT !.validated = result, !.phase = "VALIDATED_RECEIPT_PENDING",
              !.executionManifest = TRUE, !.xrplValidation = "validated-success"]
ReconciledRaw(r, result) == [r EXCEPT !.validated = result, !.xrplValidation = result]

Reconciled(r, result) ==
    IF result = "tesSUCCESS"
    THEN [r EXCEPT !.validated = result, !.phase = "VALIDATED_RECEIPT_PENDING",
                   !.executionManifest = TRUE, !.xrplValidation = "validated-success"]
    ELSE [r EXCEPT !.validated = result, !.phase = "REJECTED",
                   !.xrplValidation = "validated-refusal"]

\* Mutant: the result of a transaction given up as expired is not taken.
lookupFindsUnexpired(p) ==
    /\ run[p].pc = "lookup"
    /\ chain.result # "none" /\ run[p].r.phase # "EXPIRED_UNRESOLVED"
    /\ Continue(p, "write", Reconciled(run[p].r, chain.result))
    /\ Silent

lookupFinds(p) ==
    /\ run[p].pc = "lookup"
    /\ chain.result # "none"
    /\ Continue(p, "write", Reconciled(run[p].r, chain.result))
    /\ Silent

\* txnNotFound: not validated yet, or the server's history is incomplete.
lookupMisses(p) ==
    /\ run[p].pc = "lookup"
    /\ Continue(p, "bound", run[p].r)
    /\ Silent

boundPassed(p) ==
    /\ run[p].pc = "bound"
    /\ ledger > run[p].r.lastLedgerSequence
    /\ Continue(p, "write", [run[p].r EXCEPT !.phase = "EXPIRED_UNRESOLVED", !.xrplValidation = "unknown"])
    /\ Silent

\* Mutant: the blob goes out before SUBMITTED is on disk.
intendSubmitUnsaved(p) ==
    /\ run[p].pc = "bound"
    /\ ledger <= run[p].r.lastLedgerSequence
    /\ Continue(p, "originate", [run[p].r EXCEPT !.phase = "SUBMITTED"])
    /\ Silent

\* The receipt has just been verified again.
intendSubmit(p) ==
    /\ run[p].pc = "bound"
    /\ ledger <= run[p].r.lastLedgerSequence
    /\ run[p].r.phase = "SIGNED" => ~expired
    /\ Continue(p, "submitting", [run[p].r EXCEPT !.phase = "SUBMITTED"])
    /\ Silent

originate(p) ==
    /\ run[p].pc = "originate"
    /\ Continue(p, "submit", run[p].r)
    /\ Silent

\* Whether or not the blob arrived, the handler goes on the same way.
submit(p) ==
    /\ run[p].pc = "submit"
    /\ \E arrived \in BOOLEAN : chain' = [chain EXCEPT !.sent = @ \/ arrived]
    /\ UNCHANGED issued
    /\ Continue(p, "write", [run[p].r EXCEPT !.phase = "VALIDATION_UNKNOWN", !.xrplValidation = "unknown"])

\* Mutant: a handler that throws keeps the lock.
releaseOnSuccess(p) ==
    /\ run[p].pc \in {"respond", "throw"}
    /\ lock' = IF run[p].pc = "respond" THEN NoProc ELSE lock
    /\ run' = [run EXCEPT ![p] = IF run[p].pc = "respond" THEN Idle ELSE @]
    /\ UNCHANGED <<disk, chain, ledger, expired, issued, handoffs, faults>>

\* release() and the answer to the caller; a prepared external receipt is
\* now in a human's hands.
release(p) ==
    /\ run[p].pc \in {"respond", "throw"}
    /\ lock' = NoProc
    /\ run' = [run EXCEPT ![p] = Idle]
    /\ handoffs' = IF run[p].pc = "respond" /\ run[p].op = "prepareExternalReceipt"
                   THEN handoffs \cup {run[p].stage} ELSE handoffs
    /\ UNCHANGED <<disk, chain, ledger, expired, issued, faults>>

-----------------------------------------------------------------------------
(* What happens around the service.                                         *)
crash(p) ==
    /\ run[p].pc # "idle"
    /\ faults < MaxFaults
    /\ run' = [run EXCEPT ![p] = Idle]
    /\ faults' = faults + 1
    /\ UNCHANGED <<disk, lock, chain, ledger, expired, issued, handoffs>>

\* The operator removes a leftover lock once its process is known to be gone.
clearStaleLock(p) ==
    /\ lock = p
    /\ run[p].pc = "idle"
    /\ lock' = NoProc
    /\ UNCHANGED <<disk, run, chain, ledger, expired, issued, handoffs, faults>>

\* A sent blob may be included until LastLedgerSequence, with any verdict.
closeLedger ==
    /\ ledger < MaxLedger
    /\ ledger' = ledger + 1
    /\ \/ UNCHANGED chain
       \/ /\ chain.sent /\ chain.result = "none"
          /\ ledger + 1 <= disk.lastLedgerSequence
          /\ \E result \in Outcomes \ {"none"} : chain' = [chain EXCEPT !.result = result]
    /\ UNCHANGED <<disk, lock, run, expired, issued, handoffs, faults>>

consentExpires ==
    /\ ~expired
    /\ disk.phase # "NONE"
    /\ expired' = TRUE
    /\ UNCHANGED <<disk, lock, run, chain, ledger, issued, handoffs, faults>>

\* The human seals the handed-off hash once.
sealExternally(stage) ==
    /\ stage \in handoffs
    /\ handoffs' = handoffs \ {stage}
    /\ issued' = [issued EXCEPT ![stage] = @ + 1]
    /\ UNCHANGED <<disk, lock, run, chain, ledger, expired, faults>>

Call(p) ==
    \/ create(p)
    \/ \E role \in Roles : approve(p, role)
    \/ receiptAgreement(p) \/ receiptExecution(p)
    \/ \E stage \in Stages : prepareExternalReceipt(p, stage) \/ attachRecoveredReceipt(p, stage)
    \/ sign(p) \/ advance(p)

Step(p) ==
    \/ write(p) \/ writeFails(p) \/ callFails(p)
    \/ seal(p) \/ verify(p) \/ recheck(p) \/ cosign(p)
    \/ lookupFinds(p) \/ lookupMisses(p) \/ boundPassed(p)
    \/ intendSubmit(p) \/ originate(p) \/ submit(p)
    \/ release(p)

Next ==
    \/ \E p \in Procs : Call(p) \/ Step(p) \/ crash(p) \/ clearStaleLock(p)
    \/ closeLedger \/ consentExpires
    \/ \E stage \in Stages : sealExternally(stage)

Spec == Init /\ [][Next]_vars
=============================================================================
