------------------------ MODULE LendingServiceProofs ------------------------
(* Machine-checked proofs about LendingService, for any set of processes    *)
(* and any bounds.                                                          *)
EXTENDS RequestView, TLAPS

-----------------------------------------------------------------------------
(* The inductive invariant, one named part per concern.                     *)

Active(p) == run[p].pc # "idle"

\* Only the process the lock names is inside a handler.
OneWriter == \A p \in Procs : Active(p) => lock = p

Receiptable == {"VALIDATED_RECEIPT_PENDING", "FUNDED_WITH_EVIDENCE"}

\* What one record says about itself, on disk or in a handler's copy.
Coherent(r) ==
    /\ r.phase = "NONE" => r = Blank
    /\ r.signed => r.approvals = Roles /\ "agreement" \in r.receipts
    /\ r.signed <=> r.phase \notin OpenPhases \cup {"NONE"}
    /\ r.phase = "REJECTED" <=> r.validated = "tec"
    /\ r.phase \in Receiptable <=> r.validated = "tesSUCCESS"
    /\ r.executionManifest <=> r.validated = "tesSUCCESS"
    /\ r.phase = "FUNDED_WITH_EVIDENCE" => "execution" \in r.receipts
    /\ "execution" \in r.receipts => r.validated = "tesSUCCESS"
    /\ r.receiptAttempt = "execution" => r.validated = "tesSUCCESS"

\* The disk accounts for every charge, and for every handoff not yet used.
Charges ==
    \A s \in Stages :
        /\ issued[s] <= 1
        /\ issued[s] = 1 => s \in disk.receipts \/ disk.receiptAttempt = s
        /\ s \in disk.receipts => issued[s] = 1
        /\ s \in handoffs => disk.receiptAttempt = s /\ issued[s] = 0

OnLedger == {"NONE", "AGREEMENT_LOCKED", "AGREEMENT_RECEIPTED", "SIGNED"}

\* The disk knew of the blob before the ledger could.
SendIsSaved ==
    /\ chain.sent => disk.signed /\ disk.phase \notin OnLedger
    /\ chain.result # "none" => chain.sent
    /\ disk.validated # "none" => disk.validated = chain.result

\* A handler's copy extends the record on disk: writing it forgets nothing.
Extends(r) ==
    /\ disk.approvals \subseteq r.approvals
    /\ disk.receipts \subseteq r.receipts
    /\ disk.signed => r.signed
    /\ disk.validated # "none" => r.validated = disk.validated
    /\ r.validated # "none" => r.validated = chain.result
    /\ disk.phase # "NONE" => r.lastLedgerSequence = disk.lastLedgerSequence
    /\ disk.phase \notin OnLedger => r.phase \notin OnLedger
    /\ \A s \in Stages : disk.receiptAttempt = s =>
          r.receiptAttempt = s \/ (s \in r.receipts /\ issued[s] = 1)

\* What a handler has established by the time it reaches each await.
AtAwait(op, stage, pc, r) ==
    /\ pc \in {"intend", "seal", "store", "verify"} => stage \in Stages
    /\ pc # "verify" => \A s \in r.receipts : issued[s] = 1
    /\ pc \in {"intend", "seal"} => r.receiptAttempt = stage /\ stage \notin r.receipts
    /\ pc = "intend" => disk.receiptAttempt = "none"
    /\ pc \in {"seal", "store"} =>
          disk.receiptAttempt = stage /\ stage \notin disk.receipts /\ stage \notin handoffs
    /\ pc = "seal" => issued[stage] = 0
    /\ pc = "store" => r.receiptAttempt = stage
    /\ pc \in {"store", "verify"} =>
          /\ stage \in r.receipts
          /\ IF stage = "agreement" THEN ~r.signed ELSE r.validated = "tesSUCCESS"
    /\ pc = "verify" =>
          /\ \A s \in r.receipts : s = stage \/ issued[s] = 1
          /\ r.phase # "NONE"
          /\ r.receiptAttempt \in Stages => r.receiptAttempt \in r.receipts
    /\ pc = "recheck" => "agreement" \in r.receipts
    /\ pc = "sign" => ~r.signed /\ r.approvals = Roles /\ "agreement" \in r.receipts
    /\ pc \in {"lookup", "bound", "submitting", "originate", "submit"} =>
          r.signed /\ r.validated = "none"
    /\ pc \in {"originate", "submit"} =>
          disk.signed /\ disk.phase = "SUBMITTED" /\ r.phase = "SUBMITTED"
    /\ pc = "submitting" => r.phase = "SUBMITTED"
    /\ op = "prepareExternalReceipt" =>
          /\ pc = "write"
          /\ stage \in Stages /\ r.receiptAttempt = stage
          /\ stage \notin r.receipts /\ disk.receiptAttempt = "none"

\* A handler that may still write; after its last write its copy is dead.
Pending(pc) == pc \notin {"idle", "respond", "throw"}

Handlers ==
    \A p \in Procs : Pending(run[p].pc) =>
        /\ Coherent(run[p].r) /\ Extends(run[p].r)
        /\ AtAwait(run[p].op, run[p].stage, run[p].pc, run[p].r)

\* A handoff about to be answered is marked on disk and not issued yet.
HandoffIsMarked ==
    \A p \in Procs :
        run[p].op = "prepareExternalReceipt" /\ run[p].pc = "respond" =>
            /\ run[p].stage \in Stages
            /\ disk.receiptAttempt = run[p].stage
            /\ issued[run[p].stage] = 0
            /\ run[p].stage \notin handoffs

IInv ==
    /\ TypeOK
    /\ OneWriter
    /\ Coherent(disk)
    /\ Charges
    /\ SendIsSaved
    /\ Handlers
    /\ HandoffIsMarked

-----------------------------------------------------------------------------
LEMMA BlankIsRecord == Blank \in Records /\ Coherent(Blank)
  BY DEF Blank, Records, Phases, OpenPhases, Outcomes, Stages, Roles, Coherent, Receiptable

LEMMA IdleIsRun == Idle \in Runs /\ ~Pending(Idle.pc) /\ Idle.pc = "idle" /\ Idle.op = "none"
  BY BlankIsRecord DEF Idle, Runs, Ops, Pending

LEMMA InitEstablishes == Init => IInv
<1> SUFFICES ASSUME Init PROVE IInv
  OBVIOUS
<1>1. TypeOK
  BY BlankIsRecord, IdleIsRun DEF Init, TypeOK, Stages, Outcomes
<1>2. \A p \in Procs : run[p] = Idle
  BY DEF Init
<1>3. OneWriter /\ Handlers /\ HandoffIsMarked
  BY <1>2, IdleIsRun DEF OneWriter, Active, Handlers, HandoffIsMarked
<1>4. Coherent(disk)
  BY BlankIsRecord DEF Init
<1>5. Charges /\ SendIsSaved
  BY DEF Init, Charges, SendIsSaved, Blank
<1> QED
  BY <1>1, <1>3, <1>4, <1>5 DEF IInv

\* The record on disk, copied as it is, is a good copy.
LEMMA DiskIsGoodCopy == IInv => disk \in Records /\ Coherent(disk) /\ Extends(disk)
  BY DEF IInv, TypeOK, SendIsSaved, Extends

LEMMA OthersAreIdle ==
  ASSUME IInv, NEW p \in Procs, Active(p)
  PROVE  lock = p /\ \A q \in Procs \ {p} : run[q].pc = "idle"
  BY DEF IInv, OneWriter, Active

\* Taking the lock with a copy that extends the disk preserves everything.
LEMMA BeginKeeps ==
  ASSUME NEW p \in Procs, NEW op \in Ops, NEW stage \in Stages \cup {"none"},
         NEW pc \in WritePCs \cup CallPCs, NEW r \in Records,
         IInv, Begin(p, op, stage, pc, r),
         Coherent(r), Extends(r), AtAwait(op, stage, pc, r)
  PROVE  IInv'
<1> DEFINE h == [op |-> op, stage |-> stage, pc |-> pc, r |-> r]
<1>0. h \in Runs
  BY DEF IInv, TypeOK, Runs
<1>1. UNCHANGED <<disk, chain, ledger, expired, issued, handoffs, faults>>
  BY DEF Begin
<1>2. lock' = p /\ run' = [run EXCEPT ![p] = h]
  BY DEF Begin
<1>3. run \in [Procs -> Runs] /\ run' \in [Procs -> Runs]
  BY <1>0, <1>2 DEF IInv, TypeOK
<1>4. /\ run'[p].op = op /\ run'[p].stage = stage /\ run'[p].pc = pc /\ run'[p].r = r
      /\ \A q \in Procs : q # p => run'[q] = run[q]
  BY <1>2, <1>3
<1>5. \A q \in Procs : run[q].pc = "idle"
  BY ProcsAssumption DEF IInv, OneWriter, Active, Begin, lockIsFree
<1>6. TypeOK'
  BY <1>1, <1>2, <1>3 DEF IInv, TypeOK
<1>7. OneWriter'
  BY <1>2, <1>4, <1>5 DEF OneWriter, Active
<1>8. Coherent(disk)' /\ Charges' /\ SendIsSaved'
  BY <1>1 DEF IInv, Coherent, Charges, SendIsSaved
<1> HIDE DEF h
<1>9. Handlers'
  <2> SUFFICES ASSUME NEW q \in Procs, Pending(run'[q].pc)
               PROVE  /\ Coherent(run'[q].r) /\ Extends(run[q].r)'
                      /\ AtAwait(run[q].op, run[q].stage, run[q].pc, run[q].r)'
    BY DEF Handlers, Coherent, Pending
  <2>1. q = p
    BY <1>4, <1>5 DEF Pending
  <2> QED
    BY <2>1, <1>1, <1>4 DEF Extends, AtAwait, Coherent
<1>10. HandoffIsMarked'
  BY <1>4, <1>5 DEF HandoffIsMarked, WritePCs, CallPCs
<1> QED
  BY <1>6, <1>7, <1>8, <1>9, <1>10 DEF IInv

\* A handler that goes on without touching the disk, the ledger or the
\* authority preserves everything if its copy is still good.
LEMMA ContinueKeeps ==
  ASSUME NEW p \in Procs, NEW pc \in WritePCs \cup CallPCs \cup {"submit", "throw"},
         NEW r \in Records,
         IInv, Active(p), Continue(p, pc, r), Silent,
         \/ pc = "throw"
         \/ Coherent(r) /\ Extends(r) /\ AtAwait(run[p].op, run[p].stage, pc, r)
  PROVE  IInv'
<1>1. UNCHANGED <<disk, lock, chain, ledger, expired, issued, handoffs, faults>>
  BY DEF Continue, Silent
<1>2. run \in [Procs -> Runs] /\ run' = [run EXCEPT ![p].pc = pc, ![p].r = r]
  BY DEF Continue, IInv, TypeOK
<1>3. /\ run'[p].pc = pc /\ run'[p].r = r /\ run'[p].op = run[p].op /\ run'[p].stage = run[p].stage
      /\ \A q \in Procs : q # p => run'[q] = run[q]
  BY <1>2 DEF Runs
<1>4. lock = p /\ \A q \in Procs \ {p} : run[q].pc = "idle"
  BY OthersAreIdle
<1>5. run' \in [Procs -> Runs]
  BY <1>2 DEF Runs
<1>6. TypeOK'
  BY <1>1, <1>5 DEF IInv, TypeOK
<1>7. OneWriter'
  BY <1>1, <1>3, <1>4 DEF OneWriter, Active
<1>8. Coherent(disk)' /\ Charges' /\ SendIsSaved'
  BY <1>1 DEF IInv, Coherent, Charges, SendIsSaved
<1>9. Handlers'
  <2> SUFFICES ASSUME NEW q \in Procs, Pending(run'[q].pc)
               PROVE  /\ Coherent(run'[q].r) /\ Extends(run[q].r)'
                      /\ AtAwait(run[q].op, run[q].stage, run[q].pc, run[q].r)'
    BY DEF Handlers, Coherent, Pending
  <2>1. q = p /\ pc # "throw"
    BY <1>3, <1>4 DEF Pending
  <2> QED
    BY <2>1, <1>1, <1>3 DEF Extends, AtAwait, Coherent
<1>10. HandoffIsMarked'
  BY <1>1, <1>3, <1>4 DEF HandoffIsMarked, WritePCs, CallPCs
<1> QED
  BY <1>6, <1>7, <1>8, <1>9, <1>10 DEF IInv

-----------------------------------------------------------------------------
(* Every call starts with a good copy.                                      *)
LEMMA CallKeeps == ASSUME NEW p \in Procs, IInv, Call(p) PROVE IInv'
<1> USE DEF WritePCs, CallPCs, Stages, Ops
<1>1. disk \in Records /\ Coherent(disk) /\ Extends(disk)
  BY DiskIsGoodCopy
<1>2. TypeOK /\ Charges
  BY DEF IInv
<1>3. \A s \in disk.receipts : s \in Stages /\ issued[s] = 1
  BY <1>1, <1>2 DEF Charges, Records
<1>4. CASE create(p)
  <2> DEFINE r == [Blank EXCEPT !.phase = "AGREEMENT_LOCKED", !.lastLedgerSequence = ledger + Window]
  <2>1. disk = Blank
    BY <1>1, <1>4 DEF create, Coherent
  <2>2. r \in Records /\ Coherent(r) /\ Extends(r)
    <3>1. ledger + Window \in Nat
      BY <1>2, BoundsAssumption DEF TypeOK
    <3>2. /\ r.phase = "AGREEMENT_LOCKED" /\ r.approvals = {} /\ r.receipts = {}
          /\ r.receiptAttempt = "none" /\ ~r.signed /\ r.validated = "none" /\ ~r.executionManifest
      BY DEF Blank
    <3>3. r \in Records
      BY <3>1, BlankIsRecord DEF Records, Phases, OpenPhases
    <3> HIDE DEF r
    <3>4. Coherent(r)
      BY <3>2 DEF Coherent, OpenPhases, Receiptable
    <3>5. Extends(r)
      BY <2>1, <3>2 DEF Extends, Blank, OnLedger
    <3> QED
      BY <3>3, <3>4, <3>5
  <2>3. AtAwait("create", "none", "write", r)
    BY DEF AtAwait, Blank
  <2> QED
    BY <1>4, <2>2, <2>3, BeginKeeps DEF create
<1>5. ASSUME NEW role \in Roles, approve(p, role) PROVE IInv'
  <2> DEFINE r == [disk EXCEPT !.approvals = @ \cup {role}]
  <2>1. r \in Records /\ Coherent(r) /\ Extends(r)
    BY <1>1, <1>2, <1>5 DEF approve, approvable, Records, Coherent, Extends, OpenPhases, OnLedger, Receiptable, Roles
  <2>2. AtAwait("approve", "none", "write", r)
    BY <1>1, <1>3 DEF AtAwait, Records
  <2> QED
    BY <1>5, <2>1, <2>2, BeginKeeps DEF approve
<1>6. ASSUME NEW op \in {"receiptAgreement", "receiptExecution"}, NEW stage \in Stages,
             Intend(p, op, stage), stage \notin disk.receipts, disk.receiptAttempt = "none",
             disk.phase # "NONE", stage = "execution" => disk.validated = "tesSUCCESS"
      PROVE  IInv'
  <2> DEFINE r == [disk EXCEPT !.receiptAttempt = stage]
  <2>1. r \in Records /\ Coherent(r) /\ Extends(r)
    BY <1>1, <1>6 DEF Intend, Records, Coherent, Extends, OpenPhases, OnLedger, Receiptable, Roles
  <2>2. AtAwait(op, stage, "intend", r)
    BY <1>1, <1>3, <1>6 DEF AtAwait, Records, Intend
  <2> QED
    BY <1>6, <2>1, <2>2, BeginKeeps DEF Intend
<1>7. CASE receiptAgreement(p)
  <2>1. CASE "agreement" \in disk.receipts
    <3>1. AtAwait("receiptAgreement", "agreement", "recheck", disk)
      BY <1>3, <2>1 DEF AtAwait
    <3> QED
      BY <1>1, <1>7, <2>1, <3>1, BeginKeeps DEF receiptAgreement
  <2>2. CASE "agreement" \notin disk.receipts
    BY <1>6, <1>7, <2>2 DEF receiptAgreement, receiptable, assertContent
  <2> QED
    BY <2>1, <2>2
<1>8. CASE receiptExecution(p)
  <2>0. disk.phase # "NONE" /\ disk.validated = "tesSUCCESS"
    BY <1>8 DEF receiptExecution, receiptable, assertContent
  <2>1. CASE "execution" \in disk.receipts
    <3>1. AtAwait("receiptExecution", "execution", "verify", disk)
      BY <1>1, <1>3, <2>0, <2>1 DEF AtAwait, Coherent, Records, Receiptable, OpenPhases
    <3> QED
      BY <1>1, <1>8, <2>1, <3>1, BeginKeeps DEF receiptExecution
  <2>2. CASE "execution" \notin disk.receipts
    BY <1>6, <1>8, <2>0, <2>2 DEF receiptExecution, receiptable
  <2> QED
    BY <2>1, <2>2
<1>9. ASSUME NEW stage \in Stages, prepareExternalReceipt(p, stage) PROVE IInv'
  <2> DEFINE r == [disk EXCEPT !.receiptAttempt = stage]
  <2>1. /\ stage \notin disk.receipts /\ disk.receiptAttempt = "none" /\ disk.phase # "NONE"
        /\ stage = "execution" => disk.validated = "tesSUCCESS"
    BY <1>9 DEF prepareExternalReceipt, receiptable, assertContent
  <2>2. r \in Records /\ Coherent(r) /\ Extends(r)
    BY <1>1, <2>1 DEF Records, Coherent, Extends, OpenPhases, OnLedger, Receiptable, Roles
  <2>3. AtAwait("prepareExternalReceipt", stage, "write", r)
    BY <1>1, <1>3, <2>1 DEF AtAwait, Records
  <2> QED
    BY <1>9, <2>2, <2>3, BeginKeeps DEF prepareExternalReceipt
<1>10. ASSUME NEW stage \in Stages, attachRecoveredReceipt(p, stage) PROVE IInv'
  <2> DEFINE r == [disk EXCEPT !.receipts = @ \cup {stage}]
  <2>1. /\ IF stage = "agreement" THEN ~disk.signed ELSE disk.executionManifest
        /\ disk.phase # "NONE"
    BY <1>10 DEF attachRecoveredReceipt, recoverable, assertContent
  <2>2. r \in Records /\ Coherent(r) /\ Extends(r)
    BY <1>1, <2>1 DEF Records, Coherent, Extends, OpenPhases, OnLedger, Receiptable, Roles
  <2>3. AtAwait("attachRecoveredReceipt", stage, "verify", r)
    BY <1>1, <1>3, <2>1 DEF AtAwait, Records, Coherent, Receiptable, OpenPhases
  <2> QED
    BY <1>10, <2>2, <2>3, BeginKeeps DEF attachRecoveredReceipt
<1>11. CASE sign(p)
  <2>1. AtAwait("sign", "none", "sign", disk)
    BY <1>3, <1>11 DEF AtAwait, sign, signable, assertApprovals
  <2> QED
    BY <1>1, <1>11, <2>1, BeginKeeps DEF sign
<1>12. CASE advance(p)
  <2>1. AtAwait("advance", "none", "lookup", disk)
    BY <1>3, <1>12 DEF AtAwait, advance, advanceable
  <2> QED
    BY <1>1, <1>12, <2>1, BeginKeeps DEF advance
<1> QED
  BY <1>4, <1>5, <1>7, <1>8, <1>9, <1>10, <1>11, <1>12 DEF Call

-----------------------------------------------------------------------------
(* Every step of a handler in progress.                                     *)

\* What a pending handler knows, in one place.
LEMMA PendingFacts ==
  ASSUME NEW p \in Procs, IInv, Pending(run[p].pc)
  PROVE  /\ run[p].r \in Records /\ Active(p)
         /\ Coherent(run[p].r) /\ Extends(run[p].r)
         /\ AtAwait(run[p].op, run[p].stage, run[p].pc, run[p].r)
  BY DEF IInv, TypeOK, Handlers, Pending, Active, Runs

\* Steps that only change the handler's copy.
LEMMA LocalStepKeeps ==
  ASSUME NEW p \in Procs, IInv,
         \/ callFails(p) \/ verify(p) \/ recheck(p) \/ cosign(p) \/ lookupFinds(p)
         \/ lookupMisses(p) \/ boundPassed(p) \/ intendSubmit(p) \/ originate(p)
  PROVE  IInv'
<1> DEFINE h == run[p]
<1> USE DEF WritePCs, CallPCs
<1>1. Pending(h.pc)
  BY DEF Pending, callFails, verify, recheck, cosign, lookupFinds, lookupMisses, boundPassed,
         intendSubmit, originate, CallPCs
<1>2. /\ h.r \in Records /\ Active(p)
      /\ Coherent(h.r) /\ Extends(h.r) /\ AtAwait(h.op, h.stage, h.pc, h.r)
  BY <1>1, PendingFacts
<1>3. TypeOK /\ Charges /\ SendIsSaved
  BY DEF IInv
<1>4. CASE callFails(p)
  BY <1>2, <1>4, ContinueKeeps DEF callFails
<1>5. CASE verify(p)
  <2> DEFINE r == Receipted(h.stage, h.r)
  <2>1. /\ h.stage \in Stages /\ h.stage \in h.r.receipts
        /\ \A s \in h.r.receipts : issued[s] = 1
    BY <1>2, <1>3, <1>5 DEF verify, AtAwait, Charges, TypeOK, Stages
  <2>2. r \in Records
    BY <1>2, <2>1 DEF Receipted, Records, Phases, OpenPhases, Stages
  <2>3. Coherent(r)
    BY <1>2, <1>5, <2>1 DEF verify, AtAwait, Receipted, Records, Coherent, OpenPhases, Receiptable, Stages
  <2>4. Extends(r)
    BY <1>2, <1>5, <2>1 DEF verify, AtAwait, Receipted, Records, Coherent, Extends, OpenPhases, Receiptable,
       OnLedger, Stages
  <2>5. AtAwait(h.op, h.stage, "write", r)
    BY <1>2, <1>5, <2>1, <2>2 DEF verify, AtAwait, Receipted, Records
  <2> QED
    BY <1>2, <1>5, <2>2, <2>3, <2>4, <2>5, ContinueKeeps DEF verify
<1>6. CASE recheck(p)
  <2> DEFINE r == Rechecked(h.r)
  <2>1. "agreement" \in h.r.receipts /\ issued["agreement"] = 1
    BY <1>2, <1>6 DEF recheck, AtAwait
  <2>2. r \in Records /\ Coherent(r) /\ Extends(r)
    <3>1. r \in Records
      BY <1>2 DEF Rechecked, Records, Phases, OpenPhases
    <3>2. /\ r.approvals = h.r.approvals /\ r.receipts = h.r.receipts /\ r.signed = h.r.signed
          /\ r.validated = h.r.validated /\ r.executionManifest = h.r.executionManifest
          /\ r.lastLedgerSequence = h.r.lastLedgerSequence
          /\ r.receiptAttempt = IF h.r.receiptAttempt = "agreement" THEN "none" ELSE h.r.receiptAttempt
          /\ r.phase = IF h.r.phase = "AGREEMENT_LOCKED" THEN "AGREEMENT_RECEIPTED" ELSE h.r.phase
      BY <1>2 DEF Rechecked, Records
    <3>3. h.r.phase # "NONE"
      BY <1>2, <2>1 DEF Coherent, Blank
    <3> HIDE DEF r
    <3>4. Coherent(r)
      BY <1>2, <3>2, <3>3 DEF Coherent, OpenPhases, Receiptable
    <3>5. Extends(r)
      BY <1>2, <2>1, <3>2 DEF Extends, OnLedger, Stages
    <3> QED
      BY <3>1, <3>4, <3>5
  <2>3. AtAwait(h.op, h.stage, "write", r)
    BY <1>2, <1>6, <2>2 DEF recheck, AtAwait, Rechecked, Records
  <2> QED
    BY <1>2, <1>6, <2>2, <2>3, ContinueKeeps DEF recheck
<1>7. CASE cosign(p)
  <2> DEFINE r == [h.r EXCEPT !.signed = TRUE, !.phase = "SIGNED"]
  <2>1. ~h.r.signed /\ h.r.approvals = Roles /\ "agreement" \in h.r.receipts
    BY <1>2, <1>7 DEF cosign, AtAwait
  <2>2. r \in Records /\ Coherent(r)
    BY <1>2, <2>1 DEF Records, Coherent, Phases, OpenPhases, Receiptable, Blank, Roles
  <2>3. Extends(r)
    BY <1>2, <2>1 DEF Extends, Coherent, Records, OpenPhases, OnLedger
  <2>4. AtAwait(h.op, h.stage, "write", r)
    BY <1>2, <1>7, <2>2 DEF cosign, AtAwait, Records
  <2> QED
    BY <1>2, <1>7, <2>2, <2>3, <2>4, ContinueKeeps DEF cosign
<1>8. CASE lookupFinds(p)
  <2> DEFINE r == Reconciled(h.r, chain.result)
  <2>1. h.r.signed /\ h.r.validated = "none" /\ chain.result \in {"tesSUCCESS", "tec"}
    BY <1>2, <1>3, <1>8 DEF lookupFinds, AtAwait, TypeOK, Outcomes
  <2>2. r \in Records
    BY <1>2, <2>1 DEF Reconciled, Records, Phases, Outcomes
  <2>3. Coherent(r)
    BY <1>2, <2>1 DEF Reconciled, Records, Coherent, OpenPhases, Receiptable
  <2>4. Extends(r)
    BY <1>2, <2>1 DEF Reconciled, Records, Extends, OnLedger
  <2>5. AtAwait(h.op, h.stage, "write", r)
    BY <1>2, <1>8, <2>1, <2>2 DEF lookupFinds, AtAwait, Reconciled, Records
  <2> QED
    BY <1>2, <1>8, <2>2, <2>3, <2>4, <2>5, ContinueKeeps DEF lookupFinds
<1>9. CASE lookupMisses(p)
  <2>1. AtAwait(h.op, h.stage, "bound", h.r)
    BY <1>2, <1>9 DEF lookupMisses, AtAwait
  <2> QED
    BY <1>2, <1>9, <2>1, ContinueKeeps DEF lookupMisses
<1>10. CASE boundPassed(p)
  <2> DEFINE r == [h.r EXCEPT !.phase = "EXPIRED_UNRESOLVED", !.xrplValidation = "unknown"]
  <2>1. h.r.signed /\ h.r.validated = "none"
    BY <1>2, <1>10 DEF boundPassed, AtAwait
  <2>2. r \in Records /\ Coherent(r) /\ Extends(r)
    BY <1>2, <2>1 DEF Records, Coherent, Extends, Phases, OpenPhases, Receiptable, OnLedger
  <2>3. AtAwait(h.op, h.stage, "write", r)
    BY <1>2, <1>10, <2>2 DEF boundPassed, AtAwait, Records
  <2> QED
    BY <1>2, <1>10, <2>2, <2>3, ContinueKeeps DEF boundPassed
<1>11. CASE intendSubmit(p)
  <2> DEFINE r == [h.r EXCEPT !.phase = "SUBMITTED"]
  <2>1. h.r.signed /\ h.r.validated = "none"
    BY <1>2, <1>11 DEF intendSubmit, AtAwait
  <2>2. r \in Records /\ Coherent(r) /\ Extends(r)
    BY <1>2, <2>1 DEF Records, Coherent, Extends, Phases, OpenPhases, Receiptable, OnLedger
  <2>3. AtAwait(h.op, h.stage, "submitting", r)
    BY <1>2, <1>11, <2>1, <2>2 DEF intendSubmit, AtAwait, Records
  <2> QED
    BY <1>2, <1>11, <2>2, <2>3, ContinueKeeps DEF intendSubmit
<1>12. CASE originate(p)
  <2>1. AtAwait(h.op, h.stage, "submit", h.r)
    BY <1>2, <1>12 DEF originate, AtAwait
  <2> QED
    BY <1>2, <1>12, <2>1, ContinueKeeps DEF originate
<1> QED
  BY <1>4, <1>5, <1>6, <1>7, <1>8, <1>9, <1>10, <1>11, <1>12

\* A failed write leaves the handler to its release.
LEMMA WriteFailsKeeps == ASSUME NEW p \in Procs, IInv, writeFails(p) PROVE IInv'
<1>1. UNCHANGED <<disk, lock, chain, ledger, expired, issued, handoffs>> /\ faults' \in Nat
  BY DEF writeFails, IInv, TypeOK
<1>2. run \in [Procs -> Runs] /\ run' = [run EXCEPT ![p].pc = "throw"]
  BY DEF writeFails, IInv, TypeOK
<1>3. run' \in [Procs -> Runs]
  BY <1>2 DEF Runs
<1>4. run'[p].pc = "throw" /\ \A q \in Procs : q # p => run'[q] = run[q]
  BY <1>2 DEF Runs
<1>5. lock = p /\ \A q \in Procs \ {p} : run[q].pc = "idle"
  BY OthersAreIdle DEF writeFails, Active, WritePCs
<1>6. TypeOK' /\ OneWriter'
  BY <1>1, <1>3, <1>4, <1>5 DEF IInv, TypeOK, OneWriter, Active
<1>7. Coherent(disk)' /\ Charges' /\ SendIsSaved'
  BY <1>1 DEF IInv, Coherent, Charges, SendIsSaved
<1>8. Handlers' /\ HandoffIsMarked'
  BY <1>4, <1>5 DEF Handlers, HandoffIsMarked, Pending
<1> QED
  BY <1>6, <1>7, <1>8 DEF IInv

\* One process changes its handler to h: what is then left to show about h.
LEMMA OneHandlerMoves ==
  ASSUME NEW p \in Procs, NEW h \in Runs, IInv, Active(p),
         run' = [run EXCEPT ![p] = h],
         lock' = lock \/ h.pc = "idle",
         Pending(h.pc) => Coherent(h.r) /\ Extends(h.r)' /\ AtAwait(h.op, h.stage, h.pc, h.r)',
         h.op = "prepareExternalReceipt" /\ h.pc = "respond" =>
            /\ h.stage \in Stages /\ disk'.receiptAttempt = h.stage
            /\ issued'[h.stage] = 0 /\ h.stage \notin handoffs'
  PROVE  run' \in [Procs -> Runs] /\ OneWriter' /\ Handlers' /\ HandoffIsMarked'
<1>1. run \in [Procs -> Runs]
  BY DEF IInv, TypeOK
<1>2. run' \in [Procs -> Runs] /\ run'[p] = h /\ \A q \in Procs : q # p => run'[q] = run[q]
  BY <1>1
<1>3. lock = p /\ \A q \in Procs \ {p} : run[q].pc = "idle"
  BY OthersAreIdle
<1>4. OneWriter'
  BY <1>2, <1>3 DEF OneWriter, Active
<1>5. Handlers'
  <2> SUFFICES ASSUME NEW q \in Procs, Pending(run'[q].pc)
               PROVE  /\ Coherent(run'[q].r) /\ Extends(run[q].r)'
                      /\ AtAwait(run[q].op, run[q].stage, run[q].pc, run[q].r)'
    BY DEF Handlers, Coherent, Pending
  <2>1. run'[q] = h
    BY <1>2, <1>3 DEF Pending
  <2>2. Coherent(h.r) /\ Extends(h.r)' /\ AtAwait(h.op, h.stage, h.pc, h.r)'
    BY <2>1
  <2> QED
    BY <2>1, <2>2 DEF Extends, AtAwait
<1>6. HandoffIsMarked'
  BY <1>2, <1>3 DEF HandoffIsMarked
<1> QED
  BY <1>2, <1>4, <1>5, <1>6

\* The copy becomes the record on disk.
LEMMA WriteKeeps == ASSUME NEW p \in Procs, IInv, write(p) PROVE IInv'
<1>0. PICK h : h = run[p]
  OBVIOUS
<1>1. Pending(h.pc) /\ h.pc \in WritePCs
  BY <1>0 DEF write, WritePCs, Pending
<1>2. /\ h.r \in Records /\ Active(p) /\ Coherent(h.r) /\ Extends(h.r)
      /\ AtAwait(h.op, h.stage, h.pc, h.r)
  BY <1>0, <1>1, PendingFacts
<1>3. disk' = h.r /\ UNCHANGED <<lock, chain, ledger, expired, issued, handoffs, faults>>
  BY <1>0 DEF write
<1>4. TypeOK /\ Charges /\ SendIsSaved /\ h \in Runs
  BY <1>0 DEF IInv, TypeOK
<1>5. PICK pc : pc = AfterWrite(h.pc)
  OBVIOUS
<1>6. /\ h.pc = "write" => pc = "respond"
      /\ h.pc = "intend" => pc = "seal"
      /\ h.pc = "store" => pc = "verify"
      /\ h.pc = "submitting" => pc = "originate"
  BY <1>5 DEF AfterWrite
<1>7. PICK g : g = [h EXCEPT !.pc = pc]
  OBVIOUS
<1>8. run' = [run EXCEPT ![p] = g]
  BY <1>0, <1>5, <1>7 DEF write
<1>9. g \in Runs /\ g.pc = pc /\ g.op = h.op /\ g.stage = h.stage /\ g.r = h.r
  BY <1>1, <1>4, <1>6, <1>7 DEF Runs, CallPCs, WritePCs
<1>10. \A s \in h.r.receipts : s \in Stages /\ issued[s] = 1
  BY <1>1, <1>2 DEF AtAwait, WritePCs, Records
<1>11. Coherent(disk)'
  BY <1>2, <1>3 DEF Coherent
<1>12. Charges'
  BY <1>2, <1>3, <1>4, <1>10 DEF Charges, Extends
<1>13. SendIsSaved'
  BY <1>2, <1>3, <1>4 DEF SendIsSaved, Extends
<1>14. Extends(h.r)'
  BY <1>2, <1>3 DEF Extends
<1>15. AtAwait(h.op, h.stage, pc, h.r)' \/ pc = "respond"
  <2>1. CASE h.pc = "intend"
    <3>1. /\ h.stage \in Stages /\ h.r.receiptAttempt = h.stage /\ h.stage \notin h.r.receipts
          /\ disk.receiptAttempt = "none" /\ h.op # "prepareExternalReceipt"
          /\ h.stage \notin disk.receipts /\ h.stage # "none"
      BY <1>2, <2>1 DEF AtAwait, Extends, Stages
    <3>2. issued[h.stage] \in Nat
      BY <1>4, <3>1 DEF TypeOK
    <3>3. issued[h.stage] = 0 /\ h.stage \notin handoffs
      BY <1>4, <3>1, <3>2 DEF Charges
    <3> QED
      BY <1>3, <1>6, <1>10, <2>1, <3>1, <3>3 DEF AtAwait
  <2>2. CASE h.pc = "store"
    <3>1. /\ h.r.phase # "NONE" /\ h.stage \in Stages /\ h.stage \in h.r.receipts
          /\ h.op # "prepareExternalReceipt" /\ h.r.receiptAttempt = h.stage
          /\ IF h.stage = "agreement" THEN ~h.r.signed ELSE h.r.validated = "tesSUCCESS"
      BY <1>2, <2>2 DEF AtAwait, Coherent, Blank
    <3> QED
      BY <1>3, <1>6, <1>10, <2>2, <3>1 DEF AtAwait
  <2>3. CASE h.pc = "submitting"
    <3>1. h.r.signed /\ h.r.validated = "none" /\ h.r.phase = "SUBMITTED" /\ h.op # "prepareExternalReceipt"
      BY <1>2, <2>3 DEF AtAwait
    <3> QED
      BY <1>3, <1>6, <1>10, <2>3, <3>1 DEF AtAwait
  <2> QED
    BY <1>1, <1>6, <2>1, <2>2, <2>3 DEF WritePCs
<1>16. ASSUME h.op = "prepareExternalReceipt", pc = "respond"
       PROVE  /\ h.stage \in Stages /\ h.r.receiptAttempt = h.stage
              /\ issued[h.stage] = 0 /\ h.stage \notin handoffs
  <2>1. /\ h.stage \in Stages /\ h.r.receiptAttempt = h.stage
        /\ h.stage \notin h.r.receipts /\ disk.receiptAttempt = "none"
    BY <1>2, <1>16 DEF AtAwait
  <2>2. h.stage \notin disk.receipts /\ h.stage # "none" /\ issued[h.stage] \in Nat
    BY <1>2, <1>4, <2>1 DEF Extends, Stages, TypeOK
  <2> QED
    BY <1>4, <2>1, <2>2 DEF Charges
<1>17. run' \in [Procs -> Runs] /\ OneWriter' /\ Handlers' /\ HandoffIsMarked'
  BY <1>2, <1>3, <1>8, <1>9, <1>14, <1>15, <1>16, OneHandlerMoves DEF Pending
<1>18. TypeOK'
  BY <1>2, <1>3, <1>4, <1>17 DEF TypeOK
<1> QED
  BY <1>11, <1>12, <1>13, <1>17, <1>18 DEF IInv

\* The authority charges once: the stage was marked and not issued.
LEMMA SealKeeps == ASSUME NEW p \in Procs, IInv, seal(p) PROVE IInv'
<1>0. PICK h : h = run[p]
  OBVIOUS
<1>1. Pending(h.pc) /\ h.pc = "seal"
  BY <1>0 DEF seal, Pending
<1>2. /\ h.r \in Records /\ Active(p) /\ Coherent(h.r) /\ Extends(h.r)
      /\ AtAwait(h.op, h.stage, h.pc, h.r)
  BY <1>0, <1>1, PendingFacts
<1>3. /\ UNCHANGED <<disk, lock, chain, ledger, expired, handoffs, faults>>
      /\ issued' = [issued EXCEPT ![h.stage] = @ + 1]
  BY <1>0 DEF seal, Continue
<1>4. TypeOK /\ Charges /\ SendIsSaved /\ h \in Runs /\ issued \in [Stages -> Nat]
  BY <1>0 DEF IInv, TypeOK
<1>5. /\ h.stage \in Stages /\ h.r.receiptAttempt = h.stage /\ h.stage \notin h.r.receipts
      /\ disk.receiptAttempt = h.stage /\ h.stage \notin disk.receipts /\ h.stage \notin handoffs
      /\ issued[h.stage] = 0 /\ h.op # "prepareExternalReceipt"
      /\ \A s \in h.r.receipts : s \in Stages /\ issued[s] = 1
  BY <1>1, <1>2 DEF AtAwait, Records
<1>6. /\ issued' \in [Stages -> Nat] /\ issued'[h.stage] = 1
      /\ \A s \in Stages : s # h.stage => issued'[s] = issued[s]
  BY <1>3, <1>4, <1>5
<1>7. Charges'
  BY <1>3, <1>4, <1>5, <1>6 DEF Charges
<1>8. Coherent(disk)' /\ SendIsSaved'
  BY <1>3, <1>4 DEF IInv, Coherent, SendIsSaved
<1>9. PICK r : r = [h.r EXCEPT !.receipts = @ \cup {h.stage}]
  OBVIOUS
<1>10. /\ r \in Records /\ r.phase = h.r.phase /\ r.approvals = h.r.approvals /\ r.signed = h.r.signed
       /\ r.validated = h.r.validated /\ r.executionManifest = h.r.executionManifest
       /\ r.lastLedgerSequence = h.r.lastLedgerSequence /\ r.receiptAttempt = h.r.receiptAttempt
       /\ r.receipts = h.r.receipts \cup {h.stage}
  BY <1>2, <1>5, <1>9 DEF Records
<1>11. h.r.phase # "NONE" /\ (h.stage = "agreement" => ~h.r.signed)
       /\ (h.stage # "agreement" => h.stage = "execution" /\ h.r.validated = "tesSUCCESS")
  BY <1>2, <1>5 DEF Coherent, Blank, Stages
<1>12. Coherent(r)
  BY <1>2, <1>10, <1>11 DEF Coherent
<1>13. Extends(r)'
  BY <1>2, <1>3, <1>5, <1>10 DEF Extends
<1>14. AtAwait(h.op, h.stage, "store", r)'
  BY <1>3, <1>5, <1>6, <1>10, <1>11 DEF AtAwait
<1>15. PICK g : run' = [run EXCEPT ![p] = g]
                /\ g \in {[h EXCEPT !.pc = "store", !.r = r], [h EXCEPT !.pc = "throw"]}
  <2>1. CASE Continue(p, "store", r)
    BY <1>0, <2>1 DEF Continue
  <2>2. CASE Continue(p, "throw", h.r)
    <3>1. [h EXCEPT !.pc = "throw", !.r = h.r] = [h EXCEPT !.pc = "throw"]
      BY <1>4 DEF Runs
    <3>2. run' = [run EXCEPT ![p] = [h EXCEPT !.pc = "throw", !.r = h.r]]
      BY <1>0, <2>2 DEF Continue
    <3>3. run' = [run EXCEPT ![p] = [h EXCEPT !.pc = "throw"]]
      BY <3>1, <3>2
    <3> QED
      BY <3>3
  <2> QED
    BY <1>0, <1>9, <2>1, <2>2 DEF seal
<1>16. /\ g \in Runs /\ g.op = h.op /\ g.stage = h.stage
       /\ g.pc = "throw" \/ (g.pc = "store" /\ g.r = r)
  BY <1>4, <1>10, <1>15 DEF Runs, WritePCs
<1>17. run' \in [Procs -> Runs] /\ OneWriter' /\ Handlers' /\ HandoffIsMarked'
  BY <1>2, <1>3, <1>5, <1>12, <1>13, <1>14, <1>15, <1>16, OneHandlerMoves DEF Pending
<1>18. TypeOK'
  BY <1>3, <1>4, <1>6, <1>17 DEF TypeOK
<1> QED
  BY <1>7, <1>8, <1>17, <1>18 DEF IInv

\* The blob goes out: SUBMITTED and the signature are on disk already.
LEMMA SubmitKeeps == ASSUME NEW p \in Procs, IInv, submit(p) PROVE IInv'
<1>0. PICK h : h = run[p]
  OBVIOUS
<1>1. Pending(h.pc) /\ h.pc = "submit"
  BY <1>0 DEF submit, Pending
<1>2. /\ h.r \in Records /\ Active(p) /\ Coherent(h.r) /\ Extends(h.r)
      /\ AtAwait(h.op, h.stage, h.pc, h.r)
  BY <1>0, <1>1, PendingFacts
<1>3. UNCHANGED <<disk, lock, issued, ledger, expired, handoffs, faults>>
  BY DEF submit, Continue
<1>4. TypeOK /\ Charges /\ SendIsSaved /\ h \in Runs
  BY <1>0 DEF IInv, TypeOK
<1>5. /\ h.r.signed /\ h.r.validated = "none" /\ h.op # "prepareExternalReceipt"
      /\ disk.signed /\ disk.phase = "SUBMITTED" /\ h.r.phase = "SUBMITTED"
      /\ \A s \in h.r.receipts : issued[s] = 1
  BY <1>1, <1>2 DEF AtAwait
<1>6. /\ chain' \in [sent : BOOLEAN, result : Outcomes] /\ chain'.result = chain.result
      /\ chain.sent => chain'.sent
  BY <1>4 DEF submit, TypeOK
<1>7. SendIsSaved'
  BY <1>3, <1>4, <1>5, <1>6 DEF SendIsSaved, OnLedger
<1>8. Coherent(disk)' /\ Charges'
  BY <1>3 DEF IInv, Coherent, Charges
<1>9. PICK r : r = [h.r EXCEPT !.phase = "VALIDATION_UNKNOWN", !.xrplValidation = "unknown"]
  OBVIOUS
<1>10. /\ r \in Records /\ r.phase = "VALIDATION_UNKNOWN" /\ r.approvals = h.r.approvals
       /\ r.signed = h.r.signed /\ r.receipts = h.r.receipts
       /\ r.validated = h.r.validated /\ r.executionManifest = h.r.executionManifest
       /\ r.lastLedgerSequence = h.r.lastLedgerSequence /\ r.receiptAttempt = h.r.receiptAttempt
  BY <1>2, <1>9 DEF Records, Phases
<1>11. Coherent(r)
  BY <1>2, <1>5, <1>10 DEF Coherent, OpenPhases, Receiptable
<1>12. Extends(r)'
  BY <1>2, <1>3, <1>5, <1>6, <1>10 DEF Extends, OnLedger
<1>13. AtAwait(h.op, h.stage, "write", r)'
  BY <1>3, <1>5, <1>10 DEF AtAwait
<1>14. PICK g : g = [h EXCEPT !.pc = "write", !.r = r]
  OBVIOUS
<1>15. run' = [run EXCEPT ![p] = g]
  BY <1>0, <1>9, <1>14 DEF submit, Continue
<1>16. g \in Runs /\ g.pc = "write" /\ g.op = h.op /\ g.stage = h.stage /\ g.r = r
  BY <1>4, <1>10, <1>14 DEF Runs, WritePCs
<1>17. run' \in [Procs -> Runs] /\ OneWriter' /\ Handlers' /\ HandoffIsMarked'
  BY <1>2, <1>3, <1>5, <1>11, <1>12, <1>13, <1>15, <1>16, OneHandlerMoves
<1>18. TypeOK'
  BY <1>3, <1>4, <1>6, <1>17 DEF TypeOK
<1> QED
  BY <1>7, <1>8, <1>17, <1>18 DEF IInv

\* The handler ends; a prepared handoff now waits for a human.
LEMMA ReleaseKeeps == ASSUME NEW p \in Procs, IInv, release(p) PROVE IInv'
<1>1. /\ UNCHANGED <<disk, chain, ledger, expired, issued, faults>>
      /\ lock' = NoProc /\ run' = [run EXCEPT ![p] = Idle] /\ Active(p)
  BY DEF release, Active
<1>2. Idle \in Runs /\ ~Pending(Idle.pc) /\ Idle.pc = "idle" /\ Idle.op = "none"
  BY IdleIsRun
<1>3. run' \in [Procs -> Runs] /\ OneWriter' /\ Handlers' /\ HandoffIsMarked'
  BY <1>1, <1>2, OneHandlerMoves
<1>4. handoffs' = handoffs
      \/ /\ run[p].stage \in Stages /\ handoffs' = handoffs \cup {run[p].stage}
         /\ disk.receiptAttempt = run[p].stage /\ issued[run[p].stage] = 0
  BY DEF release, IInv, HandoffIsMarked
<1>5. TypeOK'
  BY <1>1, <1>3, <1>4 DEF IInv, TypeOK
<1>6. Charges'
  BY <1>1, <1>4 DEF IInv, Charges
<1>7. Coherent(disk)' /\ SendIsSaved'
  BY <1>1 DEF IInv, Coherent, SendIsSaved
<1> QED
  BY <1>3, <1>5, <1>6, <1>7 DEF IInv

\* A handler is cut short between two awaits: its copy is gone.
LEMMA CrashKeeps == ASSUME NEW p \in Procs, IInv, crash(p) PROVE IInv'
<1>1. /\ UNCHANGED <<disk, lock, chain, ledger, expired, issued, handoffs>>
      /\ run' = [run EXCEPT ![p] = Idle] /\ Active(p) /\ faults' = faults + 1
  BY DEF crash, Active
<1>2. Idle \in Runs /\ ~Pending(Idle.pc) /\ Idle.pc = "idle" /\ Idle.op = "none"
  BY IdleIsRun
<1>3. run' \in [Procs -> Runs] /\ OneWriter' /\ Handlers' /\ HandoffIsMarked'
  BY <1>1, <1>2, OneHandlerMoves
<1>4. TypeOK'
  BY <1>1, <1>3 DEF IInv, TypeOK
<1>5. Coherent(disk)' /\ SendIsSaved' /\ Charges'
  BY <1>1 DEF IInv, Coherent, SendIsSaved, Charges
<1> QED
  BY <1>3, <1>4, <1>5 DEF IInv

-----------------------------------------------------------------------------
(* Steps around the service.                                                *)

LEMMA ClearStaleLockKeeps == ASSUME NEW p \in Procs, IInv, clearStaleLock(p) PROVE IInv'
<1>1. UNCHANGED <<disk, run, chain, ledger, expired, issued, handoffs, faults>>
  BY DEF clearStaleLock
<1>2. \A q \in Procs : ~Active(q)
  BY DEF clearStaleLock, IInv, OneWriter, Active
<1>3. TypeOK' /\ OneWriter' /\ Coherent(disk)' /\ Charges' /\ SendIsSaved'
  BY <1>1, <1>2 DEF clearStaleLock, IInv, TypeOK, OneWriter, Active, Coherent, Charges, SendIsSaved
<1>4. Handlers' /\ HandoffIsMarked'
  BY <1>1, <1>2 DEF Handlers, HandoffIsMarked, Active, Pending
<1> QED
  BY <1>3, <1>4 DEF IInv

\* A verdict is new to every record, so none contradicts it.
LEMMA CloseLedgerKeeps == ASSUME IInv, closeLedger PROVE IInv'
<1>1. UNCHANGED <<disk, lock, run, expired, issued, handoffs, faults>> /\ ledger' \in Nat
  BY DEF closeLedger, IInv, TypeOK
<1>2. /\ chain' \in [sent : BOOLEAN, result : Outcomes] /\ chain'.sent = chain.sent
      /\ chain'.result = chain.result \/ (chain.sent /\ chain.result = "none")
  BY DEF closeLedger, IInv, TypeOK
<1>3. TypeOK' /\ OneWriter' /\ Coherent(disk)' /\ Charges' /\ HandoffIsMarked'
  BY <1>1, <1>2 DEF IInv, TypeOK, OneWriter, Active, Coherent, Charges, HandoffIsMarked
<1>4. disk.validated \in Outcomes /\ (chain.result = "none" => disk.validated = "none")
  BY DEF IInv, TypeOK, Records, SendIsSaved, Outcomes
<1>5. SendIsSaved'
  BY <1>1, <1>2, <1>4 DEF IInv, SendIsSaved
<1>6. Handlers'
  <2> SUFFICES ASSUME NEW p \in Procs, Pending(run[p].pc)
               PROVE  /\ Coherent(run[p].r) /\ Extends(run[p].r)'
                      /\ AtAwait(run[p].op, run[p].stage, run[p].pc, run[p].r)'
    BY <1>1 DEF Handlers, Coherent, Pending
  <2>1. /\ run[p].r \in Records /\ Coherent(run[p].r) /\ Extends(run[p].r)
        /\ AtAwait(run[p].op, run[p].stage, run[p].pc, run[p].r)
    BY PendingFacts
  <2>2. run[p].r.validated # "none" => chain.result # "none"
    BY <2>1 DEF Extends
  <2>3. Extends(run[p].r)'
    BY <1>1, <1>2, <2>1, <2>2 DEF Extends
  <2>4. AtAwait(run[p].op, run[p].stage, run[p].pc, run[p].r)'
    BY <1>1, <2>1 DEF AtAwait
  <2> QED
    BY <2>1, <2>3, <2>4
<1> QED
  BY <1>3, <1>5, <1>6 DEF IInv

LEMMA ConsentExpiresKeeps == ASSUME IInv, consentExpires PROVE IInv'
<1>1. UNCHANGED <<disk, lock, run, chain, ledger, issued, handoffs, faults>> /\ expired' = TRUE
  BY DEF consentExpires
<1>2. Handlers'
  BY <1>1 DEF IInv, Handlers, Pending, Coherent, Extends, AtAwait
<1> QED
  BY <1>1, <1>2 DEF IInv, TypeOK, OneWriter, Active, Coherent, Charges, SendIsSaved, HandoffIsMarked

\* The human uses the handoff, once: the stage was marked and not issued.
LEMMA SealExternallyKeeps == ASSUME NEW s \in Stages, IInv, sealExternally(s) PROVE IInv'
<1>1. /\ UNCHANGED <<disk, lock, run, chain, ledger, expired, faults>>
      /\ s \in handoffs /\ handoffs' = handoffs \ {s} /\ issued' = [issued EXCEPT ![s] = @ + 1]
  BY DEF sealExternally
<1>2. TypeOK /\ Charges /\ issued \in [Stages -> Nat]
  BY DEF IInv, TypeOK
<1>3. disk.receiptAttempt = s /\ issued[s] = 0 /\ s \notin disk.receipts
  BY <1>1, <1>2 DEF Charges
<1>4. /\ issued' \in [Stages -> Nat] /\ issued'[s] = 1
      /\ \A t \in Stages : t # s => issued'[t] = issued[t]
  BY <1>1, <1>2, <1>3
<1>5. TypeOK' /\ Charges'
  BY <1>1, <1>2, <1>3, <1>4 DEF TypeOK, Charges
<1>6. OneWriter' /\ Coherent(disk)' /\ SendIsSaved'
  BY <1>1 DEF IInv, OneWriter, Active, Coherent, SendIsSaved
<1>7. HandoffIsMarked'
  <2> SUFFICES ASSUME NEW p \in Procs, run[p].op = "prepareExternalReceipt", run[p].pc = "respond"
               PROVE  /\ run[p].stage \in Stages /\ disk.receiptAttempt = run[p].stage
                      /\ issued'[run[p].stage] = 0 /\ run[p].stage \notin handoffs'
    BY <1>1 DEF HandoffIsMarked
  <2>1. /\ run[p].stage \in Stages /\ disk.receiptAttempt = run[p].stage
        /\ issued[run[p].stage] = 0 /\ run[p].stage \notin handoffs
    BY DEF IInv, HandoffIsMarked
  <2> QED
    BY <1>1, <1>4, <2>1
<1>8. Handlers'
  <2> SUFFICES ASSUME NEW p \in Procs, Pending(run[p].pc)
               PROVE  /\ Coherent(run[p].r) /\ Extends(run[p].r)'
                      /\ AtAwait(run[p].op, run[p].stage, run[p].pc, run[p].r)'
    BY <1>1 DEF Handlers, Coherent, Pending
  <2>1. PICK h : h = run[p]
    OBVIOUS
  <2>2. /\ h.r \in Records /\ Coherent(h.r) /\ Extends(h.r)
        /\ AtAwait(h.op, h.stage, h.pc, h.r)
    BY <2>1, PendingFacts
  <2>3. Extends(h.r)'
    BY <1>1, <1>4, <2>2 DEF Extends
  <2>4. h.pc \in {"seal", "store"} => h.stage # s
    BY <1>1, <2>2 DEF AtAwait
  <2>5. \A t \in h.r.receipts : issued[t] = 1 => issued'[t] = 1
    BY <1>3, <1>4, <2>2 DEF Records
  <2>6. h.pc = "seal" => issued'[h.stage] = 0
    BY <1>4, <2>2, <2>4 DEF AtAwait
  <2>7. AtAwait(h.op, h.stage, h.pc, h.r)'
    BY <1>1, <2>2, <2>5, <2>6 DEF AtAwait
  <2>8. Extends(run[p].r)' /\ AtAwait(run[p].op, run[p].stage, run[p].pc, run[p].r)'
    BY <1>1, <2>1, <2>3, <2>7 DEF Extends, AtAwait
  <2> QED
    BY <2>1, <2>2, <2>8
<1> QED
  BY <1>5, <1>6, <1>7, <1>8 DEF IInv

-----------------------------------------------------------------------------
LEMMA NextKeeps == IInv /\ [Next]_vars => IInv'
<1> SUFFICES ASSUME IInv, [Next]_vars PROVE IInv'
  OBVIOUS
<1>1. ASSUME NEW p \in Procs, Call(p) \/ Step(p) \/ crash(p) \/ clearStaleLock(p) PROVE IInv'
  BY <1>1, CallKeeps, WriteKeeps, WriteFailsKeeps, LocalStepKeeps, SealKeeps, SubmitKeeps,
     ReleaseKeeps, CrashKeeps, ClearStaleLockKeeps DEF Step
<1>2. ASSUME closeLedger \/ consentExpires \/ \E s \in Stages : sealExternally(s) PROVE IInv'
  BY <1>2, CloseLedgerKeeps, ConsentExpiresKeeps, SealExternallyKeeps
<1>3. CASE UNCHANGED vars
  <2>1. UNCHANGED <<disk, lock, run, chain, ledger, expired, issued, handoffs, faults>>
    BY <1>3 DEF vars
  <2>2. Handlers'
    BY <2>1 DEF IInv, Handlers, Pending, Coherent, Extends, AtAwait
  <2> QED
    BY <2>1, <2>2 DEF IInv, TypeOK, OneWriter, Active, Coherent, Charges, SendIsSaved, HandoffIsMarked
<1> QED
  BY <1>1, <1>2, <1>3 DEF Next

THEOREM InductiveInvariant == Spec => []IInv
  BY InitEstablishes, NextKeeps, PTL DEF Spec

\* Every variable keeps its type, for any processes and bounds.
THEOREM TypeCorrect == Spec => []TypeOK
<1>1. IInv => TypeOK
  BY DEF IInv
<1> QED
  BY <1>1, InductiveInvariant, PTL

\* The authority never charges twice for a stage (service.ts:73-83,147-155):
\* no crash, lost answer, second process or handed-off hash leads to a second issuance.
THEOREM NeverChargedTwice == Spec => []ChargedAtMostOnce
<1>1. IInv => ChargedAtMostOnce
  BY DEF IInv, Charges, ChargedAtMostOnce
<1> QED
  BY <1>1, InductiveInvariant, PTL

\* Every charge is on disk, as a receipt or as an unresolved attempt (service.ts:76-80).
THEOREM ChargesAreOnRecord == Spec => []ChargeIsOnRecord
<1>1. IInv => ChargeIsOnRecord
  BY DEF IInv, TypeOK, Charges, ChargeIsOnRecord
<1> QED
  BY <1>1, InductiveInvariant, PTL

\* Nothing reaches the ledger that was not approved, sealed, signed and saved (service.ts:98-133).
THEOREM SendsAreAuthorized == Spec => []SentIsAuthorized
<1>1. ASSUME IInv, chain.sent PROVE SentIsAuthorized
  <2>1. disk.signed /\ disk.phase \notin OnLedger
    BY <1>1 DEF IInv, SendIsSaved
  <2>2. disk.approvals = Roles /\ "agreement" \in disk.receipts /\ issued["agreement"] = 1
    BY <1>1, <2>1 DEF IInv, Coherent, Charges, Stages
  <2> QED
    BY <2>1, <2>2 DEF SentIsAuthorized, OnLedger, OpenPhases
<1>2. IInv => SentIsAuthorized
  BY <1>1 DEF SentIsAuthorized
<1> QED
  BY <1>2, InductiveInvariant, PTL

\* The recorded phase never claims a verdict or a receipt that is not there (service.ts:104-135,155).
THEOREM PhasesAreTruthful == Spec => []PhaseIsTruthful
<1>1. IInv => PhaseIsTruthful
  BY DEF IInv, Coherent, Charges, SendIsSaved, PhaseIsTruthful, Receiptable, OnLedger, Stages
<1> QED
  BY <1>1, InductiveInvariant, PTL

-----------------------------------------------------------------------------
\* The file changes only by a handler's write.
LEMMA OthersLeaveDisk == ASSUME [Next]_vars PROVE disk' = disk \/ \E p \in Procs : write(p)
<1>1. ASSUME NEW p \in Procs, Call(p) PROVE disk' = disk
  BY <1>1 DEF Call, create, approve, receiptAgreement, receiptExecution, prepareExternalReceipt,
              attachRecoveredReceipt, sign, advance, Intend, Begin
<1>2. ASSUME NEW p \in Procs, Step(p), ~write(p) PROVE disk' = disk
  BY <1>2 DEF Step, writeFails, callFails, seal, verify, recheck, cosign, lookupFinds, lookupMisses,
              boundPassed, intendSubmit, originate, submit, release, Continue
<1>3. ASSUME NEW p \in Procs, crash(p) \/ clearStaleLock(p) PROVE disk' = disk
  BY <1>3 DEF crash, clearStaleLock
<1>4. ASSUME closeLedger \/ consentExpires \/ (\E s \in Stages : sealExternally(s)) PROVE disk' = disk
  BY <1>4 DEF closeLedger, consentExpires, sealExternally
<1>5. UNCHANGED vars => disk' = disk
  BY DEF vars
<1> QED
  BY <1>1, <1>2, <1>3, <1>4, <1>5 DEF Next

\* What a handler writes forgets nothing.
LEMMA OnlyWritesChangeDisk ==
  ASSUME IInv, [Next]_vars
  PROVE  disk' = disk \/ \E p \in Procs : disk' = run[p].r /\ Extends(run[p].r)
<1>1. ASSUME NEW p \in Procs, write(p) PROVE disk' = run[p].r /\ Extends(run[p].r)
  BY <1>1, PendingFacts DEF write, Pending, WritePCs
<1> QED
  BY <1>1, OthersLeaveDisk

\* No handler, late write or restart drops an approval, a receipt, the
\* signature, the verdict or the prepared bound (store.ts:15-23, service.ts:53-167).
THEOREM RecordIsNeverForgotten == Spec => NothingForgotten
<1>1. ASSUME IInv, [Next]_vars, disk.phase # "NONE"
      PROVE  /\ disk.approvals \subseteq disk'.approvals
             /\ disk.receipts \subseteq disk'.receipts
             /\ disk.signed => disk'.signed
             /\ disk.validated # "none" => disk'.validated = disk.validated
             /\ disk'.lastLedgerSequence = disk.lastLedgerSequence
  BY <1>1, OnlyWritesChangeDisk DEF Extends
<1> QED
  BY <1>1, InductiveInvariant, PTL DEF Spec, NothingForgotten

-----------------------------------------------------------------------------
(* The refinement: a handler's copy is at most one step of the promise, and *)
(* never a lower phase, ahead of the record on disk.                        *)

\* Two records the promise cannot tell apart.
Shows(one, other) ==
    /\ one.approvals = other.approvals /\ one.receipts = other.receipts
    /\ one.signed = other.signed /\ one.validated = other.validated

\* The copy adds one approval, receipt, signature or verdict, or nothing.
OneMore(r) ==
    \/ Shows(r, disk)
    \/ ~disk.signed /\ \E role \in Roles :
          Shows(r, [disk EXCEPT !.approvals = @ \cup {role}])
    \/ \E stage \in Stages : Shows(r, [disk EXCEPT !.receipts = @ \cup {stage}])
    \/ Shows(r, [disk EXCEPT !.signed = TRUE])
    \/ disk.validated = "none" /\ \E v \in Outcomes : Shows(r, [disk EXCEPT !.validated = v])

\* An agreement is sealed for approved terms only, and funding is shown as such.
Faithful(r) ==
    /\ r.receiptAttempt = "agreement" => r.approvals = Roles
    /\ r.validated = "tesSUCCESS" => r.xrplValidation = "validated-success"

\* Awaits before which a handler has added nothing.
Untouched == {"intend", "seal", "recheck", "sign", "lookup", "bound", "submitting",
              "originate", "submit"}

Ahead(pc, r) ==
    /\ Faithful(r)
    /\ Rank(disk.phase) <= Rank(r.phase)
    /\ OneMore(r)
    /\ pc \in Untouched => Shows(r, disk)

StepInv ==
    /\ Faithful(disk)
    /\ \A p \in Procs : Pending(run[p].pc) => Ahead(run[p].pc, run[p].r)

LEMMA RankIsNat == ASSUME NEW phase \in Phases PROVE Rank(phase) \in Nat
  BY DEF Rank, Phases, OpenPhases

\* Records that differ in nothing the promise sees are interchangeable.
LEMMA ShowsCarries ==
  ASSUME NEW r, NEW s, Shows(r, s), OneMore(s) PROVE OneMore(r)
  BY DEF Shows, OneMore

\* Taking the lock on the record as it is, or with one thing added.
LEMMA BeginIsAhead ==
  ASSUME NEW p \in Procs, NEW op, NEW stage, NEW pc, NEW r,
         IInv, StepInv, Begin(p, op, stage, pc, r),
         Ahead(pc, r)
  PROVE  StepInv' /\ disk' = disk
<1> DEFINE h == [op |-> op, stage |-> stage, pc |-> pc, r |-> r]
<1>1. disk' = disk /\ run' = [run EXCEPT ![p] = h] BY DEF Begin
<1>2. run \in [Procs -> Runs] BY DEF IInv, TypeOK
<1>3. run'[p] = h /\ \A q \in Procs : q # p => run'[q] = run[q] BY <1>1, <1>2
<1> HIDE DEF h
<1>4. Ahead(pc, r)' /\ h.pc = pc /\ h.r = r BY <1>1 DEF h, Ahead, OneMore
<1>5. ASSUME NEW q \in Procs, Pending(run'[q].pc) PROVE Ahead(run[q].pc, run[q].r)'
  <2>1. CASE q = p BY <1>1, <1>3, <1>4, <2>1 DEF Ahead, OneMore
  <2>2. CASE q # p BY <1>1, <1>3, <1>5, <2>2 DEF StepInv, Ahead, OneMore
  <2> QED BY <2>1, <2>2
<1> QED BY <1>1, <1>5 DEF StepInv, Faithful, Pending

LEMMA CallIsAhead == ASSUME NEW p \in Procs, IInv, StepInv, Call(p) PROVE StepInv' /\ disk' = disk
<1>1. /\ disk \in Records /\ Coherent(disk) /\ Faithful(disk)
      /\ Rank(disk.phase) \in Nat
  BY DiskIsGoodCopy, RankIsNat DEF StepInv, Records
<1>2. ASSUME NEW op, NEW stage, NEW pc, Begin(p, op, stage, pc, disk)
      PROVE  StepInv' /\ disk' = disk
  <2>1. Shows(disk, disk) BY DEF Shows
  <2>2. Ahead(pc, disk) BY <1>1, <2>1 DEF Ahead, OneMore
  <2> QED BY <1>2, <2>2, BeginIsAhead
<1>3. ASSUME NEW op, NEW stage, NEW pc, NEW attempt \in Stages,
             Begin(p, op, stage, pc, [disk EXCEPT !.receiptAttempt = attempt]),
             attempt = "agreement" => disk.approvals = Roles
      PROVE  StepInv' /\ disk' = disk
  <2> DEFINE r == [disk EXCEPT !.receiptAttempt = attempt]
  <2>1. /\ r.receiptAttempt = attempt /\ r.phase = disk.phase /\ Shows(r, disk)
        /\ r.xrplValidation = disk.xrplValidation
    BY <1>1 DEF Records, Shows
  <2> HIDE DEF r
  <2>2. Ahead(pc, r)
    BY <1>1, <1>3, <2>1 DEF Ahead, OneMore, Faithful, Shows
  <2> QED BY <1>3, <2>2, BeginIsAhead DEF r
<1>4. CASE create(p)
  <2> DEFINE r == [Blank EXCEPT !.phase = "AGREEMENT_LOCKED", !.lastLedgerSequence = ledger + Window]
  <2>1. disk = Blank BY <1>1, <1>4 DEF create, Coherent
  <2>2. /\ r.receiptAttempt = "none" /\ r.phase = "AGREEMENT_LOCKED" /\ Shows(r, disk)
        /\ r.validated = "none"
    BY <2>1 DEF Blank, Shows
  <2> HIDE DEF r
  <2>3. Rank(disk.phase) <= Rank(r.phase) BY <2>1, <2>2 DEF Rank, Blank
  <2>4. Ahead("write", r)
    BY <2>2, <2>3 DEF Ahead, OneMore, Faithful
  <2> QED BY <1>4, <2>4, BeginIsAhead DEF create, r
<1>5. ASSUME NEW role \in Roles, approve(p, role) PROVE StepInv' /\ disk' = disk
  <2> DEFINE r == [disk EXCEPT !.approvals = @ \cup {role}]
  <2>1. /\ r.receiptAttempt = disk.receiptAttempt /\ r.phase = disk.phase
        /\ r.approvals = disk.approvals \cup {role}
        /\ r.validated = disk.validated /\ r.xrplValidation = disk.xrplValidation
    BY <1>1 DEF Records
  <2>2. ~disk.signed BY <1>1, <1>5 DEF approve, approvable, Coherent
  <2>3. Shows(r, [disk EXCEPT !.approvals = @ \cup {role}]) BY DEF Shows
  <2>4. disk.approvals \subseteq Roles BY <1>1 DEF Records
  <2>5. OneMore(r) BY <2>2, <2>3 DEF OneMore
  <2> HIDE DEF r
  <2>6. Ahead("write", r)
    BY <1>1, <2>1, <2>4, <2>5 DEF Ahead, Faithful, Untouched
  <2> QED BY <1>5, <2>6, BeginIsAhead DEF approve, r
<1>6. CASE receiptAgreement(p)
  BY <1>2, <1>3, <1>6 DEF receiptAgreement, receiptable, Intend, assertApprovals, Stages
<1>7. CASE receiptExecution(p)
  BY <1>2, <1>3, <1>7 DEF receiptExecution, receiptable, Intend, Stages
<1>8. ASSUME NEW stage \in Stages, prepareExternalReceipt(p, stage) PROVE StepInv' /\ disk' = disk
  BY <1>3, <1>8 DEF prepareExternalReceipt, receiptable, assertApprovals
<1>9. ASSUME NEW stage \in Stages, attachRecoveredReceipt(p, stage) PROVE StepInv' /\ disk' = disk
  <2> DEFINE r == [disk EXCEPT !.receipts = @ \cup {stage}]
  <2>1. /\ r.receiptAttempt = disk.receiptAttempt /\ r.phase = disk.phase
        /\ r.approvals = disk.approvals
        /\ r.validated = disk.validated /\ r.xrplValidation = disk.xrplValidation
    BY <1>1 DEF Records
  <2>2. Shows(r, [disk EXCEPT !.receipts = @ \cup {stage}]) BY DEF Shows
  <2>3. OneMore(r) BY <2>2 DEF OneMore
  <2> HIDE DEF r
  <2>4. Ahead("verify", r)
    BY <1>1, <2>1, <2>3 DEF Ahead, Faithful, Untouched
  <2> QED BY <1>9, <2>4, BeginIsAhead DEF attachRecoveredReceipt, r
<1>10. CASE sign(p) \/ advance(p) BY <1>2, <1>10 DEF sign, signable, advance, advanceable
<1> QED BY <1>4, <1>5, <1>6, <1>7, <1>8, <1>9, <1>10 DEF Call

\* A handler that goes on with the copy r, which adds at most one thing.
LEMMA ContinueIsAhead ==
  ASSUME NEW p \in Procs, NEW pc, NEW r, IInv, StepInv, Continue(p, pc, r),
         pc = "throw" \/ Ahead(pc, r)
  PROVE  StepInv' /\ disk' = disk
<1>1. disk' = disk /\ run' = [run EXCEPT ![p].pc = pc, ![p].r = r] BY DEF Continue
<1>2. run \in [Procs -> Runs] BY DEF IInv, TypeOK
<1>3. PICK h : h = [run[p] EXCEPT !.pc = pc, !.r = r] OBVIOUS
<1>4. run'[p] = h /\ \A q \in Procs : q # p => run'[q] = run[q] BY <1>1, <1>2, <1>3
<1>5. h.pc = pc /\ h.r = r BY <1>2, <1>3 DEF Runs
<1>6. ASSUME NEW q \in Procs, Pending(run'[q].pc) PROVE Ahead(run[q].pc, run[q].r)'
  <2>1. CASE q = p
    <3>1. Ahead(pc, r) BY <1>4, <1>5, <1>6, <2>1 DEF Pending
    <3> QED BY <1>1, <1>4, <1>5, <2>1, <3>1 DEF Ahead, OneMore
  <2>2. CASE q # p BY <1>1, <1>4, <1>6, <2>2 DEF StepInv, Ahead, OneMore
  <2> QED BY <2>1, <2>2
<1> QED BY <1>1, <1>6 DEF StepInv, Faithful, Pending

LEMMA LocalStepIsAhead ==
  ASSUME NEW p \in Procs, IInv, StepInv,
         \/ callFails(p) \/ verify(p) \/ recheck(p) \/ cosign(p) \/ lookupFinds(p)
         \/ lookupMisses(p) \/ boundPassed(p) \/ intendSubmit(p) \/ originate(p)
  PROVE  StepInv' /\ disk' = disk
<1> DEFINE h == run[p]
<1>1. Pending(h.pc)
  BY DEF Pending, callFails, verify, recheck, cosign, lookupFinds, lookupMisses, boundPassed,
         intendSubmit, originate, CallPCs
<1>2. /\ h.r \in Records /\ Coherent(h.r) /\ AtAwait(h.op, h.stage, h.pc, h.r)
      /\ Ahead(h.pc, h.r) /\ Faithful(h.r)
  BY <1>1, PendingFacts DEF StepInv, Ahead
<1>3. h.r.phase \in Phases /\ disk.phase \in Phases /\ Rank(disk.phase) \in Nat
  BY <1>2, RankIsNat DEF IInv, TypeOK, Records
<1> HIDE DEF h
<1>4. ASSUME NEW pc, NEW r, Continue(p, pc, r), Shows(r, h.r), Faithful(r),
             Rank(h.r.phase) <= Rank(r.phase), Rank(r.phase) \in Nat,
             pc \in Untouched => h.pc \in Untouched
      PROVE  StepInv' /\ disk' = disk
  <2>1. Rank(disk.phase) <= Rank(r.phase)
    BY <1>2, <1>3, <1>4, RankIsNat DEF Ahead
  <2>2. OneMore(r) BY <1>2, <1>4, ShowsCarries DEF Ahead
  <2>3. pc \in Untouched => Shows(r, disk) BY <1>2, <1>4 DEF Ahead, Shows
  <2>4. Ahead(pc, r) BY <1>4, <2>1, <2>2, <2>3 DEF Ahead
  <2> QED BY <1>4, <2>4, ContinueIsAhead
<1>5. CASE callFails(p) BY <1>5, ContinueIsAhead DEF callFails
<1>6. CASE verify(p)
  <2> DEFINE r == Receipted(h.stage, h.r)
  <2>1. /\ h.stage \in Stages /\ h.pc = "verify"
        /\ IF h.stage = "agreement" THEN ~h.r.signed ELSE h.r.validated = "tesSUCCESS"
        /\ h.r.phase # "NONE"
    BY <1>2, <1>6 DEF verify, AtAwait, h
  <2>2. /\ Shows(r, h.r) /\ r.receiptAttempt = "none" /\ r.xrplValidation = h.r.xrplValidation
        /\ r.phase = IF h.stage = "agreement" THEN "AGREEMENT_RECEIPTED" ELSE "FUNDED_WITH_EVIDENCE"
    BY <1>2 DEF Receipted, Records, Shows
  <2>3. Continue(p, "write", r) BY <1>6 DEF verify, h
  <2> HIDE DEF r
  <2>4. h.r.phase \in OpenPhases \/ h.r.phase \in Receiptable
    BY <1>2, <1>3, <2>1 DEF Coherent
  <2>5. Rank(h.r.phase) <= Rank(r.phase) /\ Rank(r.phase) \in Nat
    <3>1. CASE h.stage = "agreement"
      BY <1>2, <2>1, <2>2, <2>4, <3>1 DEF Coherent, Rank, OpenPhases, Receiptable
    <3>2. CASE h.stage # "agreement"
      BY <2>2, <2>4, <3>2 DEF Rank, OpenPhases, Receiptable
    <3> QED BY <3>1, <3>2
  <2>6. Faithful(r) BY <1>2, <2>2 DEF Faithful, Shows
  <2> QED BY <1>4, <2>2, <2>3, <2>5, <2>6 DEF Untouched
<1>7. CASE recheck(p)
  <2> DEFINE r == Rechecked(h.r)
  <2>1. /\ Shows(r, h.r) /\ r.receiptAttempt \in {"none", h.r.receiptAttempt}
        /\ r.xrplValidation = h.r.xrplValidation
    BY <1>2 DEF Rechecked, Records, Shows
  <2>2. r.phase = IF h.r.phase = "AGREEMENT_LOCKED" THEN "AGREEMENT_RECEIPTED" ELSE h.r.phase
    BY <1>2 DEF Rechecked, Records
  <2>3. Continue(p, "write", r) BY <1>7 DEF recheck, h
  <2> HIDE DEF r
  <2>4. Rank(h.r.phase) <= Rank(r.phase) /\ Rank(r.phase) \in Nat
    <3>1. CASE h.r.phase = "AGREEMENT_LOCKED" BY <2>2, <3>1 DEF Rank
    <3>2. CASE h.r.phase # "AGREEMENT_LOCKED" BY <1>3, <2>2, <3>2, RankIsNat
    <3> QED BY <3>1, <3>2
  <2>5. Faithful(r) BY <1>2, <2>1 DEF Faithful, Shows
  <2> QED BY <1>4, <2>1, <2>3, <2>4, <2>5 DEF Untouched
<1>8. CASE cosign(p)
  <2> DEFINE r == [h.r EXCEPT !.signed = TRUE, !.phase = "SIGNED"]
  <2>1. h.pc = "sign" /\ ~h.r.signed /\ Shows(h.r, disk)
    BY <1>2, <1>8 DEF cosign, AtAwait, h, Ahead, Untouched
  <2>2. /\ r.approvals = h.r.approvals /\ r.receipts = h.r.receipts /\ r.signed = TRUE
        /\ r.validated = h.r.validated /\ r.receiptAttempt = h.r.receiptAttempt /\ r.phase = "SIGNED"
        /\ r.xrplValidation = h.r.xrplValidation
    BY <1>2 DEF Records
  <2>3. Continue(p, "write", r) BY <1>8 DEF cosign, h
  <2> HIDE DEF r
  <2>4. Shows(r, [disk EXCEPT !.signed = TRUE])
    BY <2>1, <2>2 DEF Shows, IInv, TypeOK, Records
  <2>5. Rank(h.r.phase) <= Rank("SIGNED") /\ Rank("SIGNED") \in Nat
    BY <1>2, <1>3, <2>1 DEF Coherent, Rank, OpenPhases
  <2>6. Rank(disk.phase) <= Rank(r.phase)
    BY <1>2, <1>3, <2>2, <2>5, RankIsNat DEF Ahead
  <2>7. Faithful(r) BY <1>2, <2>2 DEF Faithful
  <2>8. Ahead("write", r) BY <2>4, <2>6, <2>7 DEF Ahead, OneMore, Untouched
  <2> QED BY <2>3, <2>8, ContinueIsAhead
<1>9. CASE lookupFinds(p)
  <2> DEFINE r == Reconciled(h.r, chain.result)
  <2>1. h.pc = "lookup" /\ h.r.signed /\ h.r.validated = "none" /\ Shows(h.r, disk)
    BY <1>2, <1>9 DEF lookupFinds, AtAwait, h, Ahead, Untouched
  <2>2. chain.result \in Outcomes BY DEF IInv, TypeOK
  <2>3. /\ r.approvals = h.r.approvals /\ r.receipts = h.r.receipts /\ r.signed = h.r.signed
        /\ r.validated = chain.result /\ r.receiptAttempt = h.r.receiptAttempt
        /\ r.phase \in {"VALIDATED_RECEIPT_PENDING", "REJECTED"}
        /\ chain.result = "tesSUCCESS" => r.xrplValidation = "validated-success"
    BY <1>2 DEF Reconciled, Records
  <2>4. Continue(p, "write", r) BY <1>9 DEF lookupFinds, h
  <2> HIDE DEF r
  <2>5. Shows(r, [disk EXCEPT !.validated = chain.result]) /\ disk.validated = "none"
    BY <2>1, <2>3 DEF Shows, IInv, TypeOK, Records
  <2>6. Rank(h.r.phase) <= Rank(r.phase) /\ Rank(r.phase) \in Nat
    BY <1>2, <1>3, <2>1, <2>3 DEF Coherent, Rank, Phases, OpenPhases, Receiptable
  <2>7. Rank(disk.phase) <= Rank(r.phase)
    BY <1>2, <1>3, <2>6, RankIsNat DEF Ahead
  <2>8. Faithful(r) BY <1>2, <2>3 DEF Faithful
  <2>9. Ahead("write", r) BY <2>2, <2>5, <2>7, <2>8 DEF Ahead, OneMore, Untouched
  <2> QED BY <2>4, <2>9, ContinueIsAhead
<1>10. CASE lookupMisses(p) \/ originate(p)
  <2>1. h.pc \in {"lookup", "originate"} /\ \E pc : Continue(p, pc, h.r)
    BY <1>10 DEF lookupMisses, originate, h
  <2>2. h.pc \in Untouched BY <2>1 DEF Untouched
  <2> QED BY <1>2, <1>3, <1>4, <2>1, <2>2, RankIsNat DEF Shows
<1>11. ASSUME NEW phase \in {"EXPIRED_UNRESOLVED", "SUBMITTED"}, NEW pc, NEW r, Continue(p, pc, r),
              h.pc = "bound", Shows(r, h.r), r.phase = phase, r.receiptAttempt = h.r.receiptAttempt
       PROVE  StepInv' /\ disk' = disk
  <2>1. h.r.signed /\ h.r.validated = "none" /\ h.pc \in Untouched
    BY <1>2, <1>11 DEF AtAwait, Untouched
  <2>2. Rank(h.r.phase) <= Rank(r.phase) /\ Rank(r.phase) \in Nat
    BY <1>2, <1>3, <1>11, <2>1 DEF Coherent, Rank, Phases, OpenPhases, Receiptable
  <2>3. Faithful(r) BY <1>2, <1>11, <2>1 DEF Faithful, Shows
  <2> QED BY <1>4, <1>11, <2>1, <2>2, <2>3
<1>12. CASE boundPassed(p)
  <2> DEFINE r == [h.r EXCEPT !.phase = "EXPIRED_UNRESOLVED", !.xrplValidation = "unknown"]
  <2>1. Shows(r, h.r) /\ r.phase = "EXPIRED_UNRESOLVED" /\ r.receiptAttempt = h.r.receiptAttempt
    BY <1>2 DEF Records, Shows
  <2>2. Continue(p, "write", r) /\ h.pc = "bound" BY <1>12 DEF boundPassed, h
  <2> HIDE DEF r
  <2> QED BY <1>11, <2>1, <2>2
<1>13. CASE intendSubmit(p)
  <2> DEFINE r == [h.r EXCEPT !.phase = "SUBMITTED"]
  <2>1. Shows(r, h.r) /\ r.phase = "SUBMITTED" /\ r.receiptAttempt = h.r.receiptAttempt
    BY <1>2 DEF Records, Shows
  <2>2. Continue(p, "submitting", r) /\ h.pc = "bound" BY <1>13 DEF intendSubmit, h
  <2> HIDE DEF r
  <2> QED BY <1>11, <2>1, <2>2
<1> QED BY <1>5, <1>6, <1>7, <1>8, <1>9, <1>10, <1>12, <1>13

\* One handler changes to g; every other one is idle.
LEMMA OneMovesAhead ==
  ASSUME NEW p \in Procs, NEW g, IInv, StepInv, Active(p), run' = [run EXCEPT ![p] = g],
         Faithful(disk'), Pending(g.pc) => Ahead(g.pc, g.r)'
  PROVE  StepInv'
<1>1. run \in [Procs -> Runs] BY DEF IInv, TypeOK
<1>2. run'[p] = g /\ \A q \in Procs : q # p => run'[q] = run[q] BY <1>1
<1>3. \A q \in Procs \ {p} : run[q].pc = "idle" BY OthersAreIdle
<1>4. ASSUME NEW q \in Procs, Pending(run'[q].pc) PROVE Ahead(run[q].pc, run[q].r)'
  <2>1. q = p BY <1>2, <1>3, <1>4 DEF Pending
  <2>2. Ahead(g.pc, g.r)' BY <1>2, <1>4, <2>1
  <2> QED BY <1>2, <2>1, <2>2 DEF Ahead, OneMore
<1> QED BY <1>4 DEF StepInv, Faithful, Pending

\* After its write a handler's copy is the record on disk.
LEMMA WriteIsAhead == ASSUME NEW p \in Procs, IInv, StepInv, write(p) PROVE StepInv'
<1>1. PICK g : g = [run[p] EXCEPT !.pc = AfterWrite(@)] OBVIOUS
<1>2. run' = [run EXCEPT ![p] = g] /\ disk' = run[p].r BY <1>1 DEF write
<1>3. Pending(run[p].pc) BY DEF write, WritePCs, Pending
<1>4. run[p].r \in Records /\ Active(p) /\ Faithful(run[p].r) /\ run[p] \in Runs
  BY <1>3, PendingFacts DEF StepInv, Ahead, IInv, TypeOK
<1>5. g.r = run[p].r BY <1>1, <1>4 DEF Runs
<1>6. Rank(g.r.phase) <= Rank(g.r.phase) BY <1>4, <1>5, RankIsNat DEF Records
<1>7. Ahead(g.pc, g.r)' BY <1>2, <1>4, <1>5, <1>6 DEF Ahead, OneMore, Shows
<1> QED BY <1>2, <1>4, <1>5, <1>7, OneMovesAhead DEF Faithful

LEMMA SealIsAhead == ASSUME NEW p \in Procs, IInv, StepInv, seal(p) PROVE StepInv' /\ disk' = disk
<1>1. PICK h : h = run[p] OBVIOUS
<1>2. h.pc = "seal" /\ Pending(h.pc) BY <1>1 DEF seal, Pending
<1>3. /\ h.r \in Records /\ AtAwait(h.op, h.stage, h.pc, h.r)
      /\ Ahead(h.pc, h.r) /\ Faithful(h.r) /\ Shows(h.r, disk) /\ disk \in Records
  BY <1>1, <1>2, PendingFacts DEF StepInv, Ahead, Untouched, IInv, TypeOK
<1>4. PICK r : r = [h.r EXCEPT !.receipts = @ \cup {h.stage}] OBVIOUS
<1>5. CASE Continue(p, "store", r)
  <2>1. /\ r.approvals = h.r.approvals /\ r.receipts = h.r.receipts \cup {h.stage}
        /\ r.signed = h.r.signed /\ r.validated = h.r.validated /\ r.phase = h.r.phase
        /\ r.receiptAttempt = h.r.receiptAttempt /\ r.xrplValidation = h.r.xrplValidation
    BY <1>3, <1>4 DEF Records
  <2>2. h.stage \in Stages BY <1>2, <1>3 DEF AtAwait
  <2>3. Shows(r, [disk EXCEPT !.receipts = @ \cup {h.stage}])
    BY <1>3, <2>1 DEF Shows, Records
  <2>4. OneMore(r) BY <2>2, <2>3 DEF OneMore
  <2>5. Ahead("store", r) BY <1>3, <2>1, <2>4 DEF Ahead, Faithful, Untouched
  <2> QED BY <1>5, <2>5, ContinueIsAhead
<1>6. CASE Continue(p, "throw", h.r) BY <1>6, ContinueIsAhead
<1> QED BY <1>1, <1>4, <1>5, <1>6 DEF seal

LEMMA SubmitIsAhead == ASSUME NEW p \in Procs, IInv, StepInv, submit(p) PROVE StepInv' /\ disk' = disk
<1>1. PICK h : h = run[p] OBVIOUS
<1>2. h.pc = "submit" /\ Pending(h.pc) BY <1>1 DEF submit, Pending
<1>3. /\ h.r \in Records /\ AtAwait(h.op, h.stage, h.pc, h.r)
      /\ Ahead(h.pc, h.r) /\ Faithful(h.r) /\ Shows(h.r, disk)
  BY <1>1, <1>2, PendingFacts DEF StepInv, Ahead, Untouched
<1>4. PICK r : r = [h.r EXCEPT !.phase = "VALIDATION_UNKNOWN", !.xrplValidation = "unknown"] OBVIOUS
<1>5. /\ Shows(r, h.r) /\ r.phase = "VALIDATION_UNKNOWN" /\ r.receiptAttempt = h.r.receiptAttempt
  BY <1>3, <1>4 DEF Records, Shows
<1>6. h.r.phase = "SUBMITTED" /\ h.r.validated = "none" BY <1>2, <1>3 DEF AtAwait
<1>7. Rank(r.phase) = Rank(h.r.phase) BY <1>5, <1>6 DEF Rank
<1>8. OneMore(r) BY <1>3, <1>5, ShowsCarries DEF Ahead
<1>9. Faithful(r) BY <1>3, <1>5, <1>6 DEF Faithful, Shows
<1>10. Ahead("write", r) BY <1>3, <1>7, <1>8, <1>9 DEF Ahead, Untouched
<1>11. Continue(p, "write", r) BY <1>1, <1>4 DEF submit
<1> QED BY <1>10, <1>11, ContinueIsAhead

\* A handler that ends or throws leaves the record alone.
LEMMA EndIsAhead ==
  ASSUME NEW p \in Procs, IInv, StepInv, writeFails(p) \/ release(p) \/ crash(p)
  PROVE  StepInv' /\ disk' = disk /\ chain' = chain /\ issued' = issued
<1>1. disk' = disk /\ chain' = chain /\ issued' = issued /\ Active(p) /\ run[p] \in Runs
  BY DEF writeFails, release, crash, Active, WritePCs, IInv, TypeOK
<1>2. PICK g : run' = [run EXCEPT ![p] = g] /\ ~Pending(g.pc)
  <2>1. [run[p] EXCEPT !.pc = "throw"].pc = "throw" BY <1>1 DEF Runs
  <2>2. CASE writeFails(p)
    <3>1. run' = [run EXCEPT ![p] = [run[p] EXCEPT !.pc = "throw"]] BY <2>2 DEF writeFails
    <3> QED BY <2>1, <3>1 DEF Pending
  <2>3. CASE release(p) \/ crash(p) BY <2>3, IdleIsRun DEF release, crash
  <2> QED BY <2>2, <2>3
<1> QED BY <1>1, <1>2, OneMovesAhead DEF StepInv

LEMMA AheadStays == ASSUME StepInv, UNCHANGED <<disk, run>> PROVE StepInv'
  BY DEF StepInv, Faithful, Pending, Ahead, OneMore

LEMMA NextIsAhead == IInv /\ StepInv /\ [Next]_vars => StepInv'
<1> SUFFICES ASSUME IInv, StepInv, [Next]_vars PROVE StepInv'
  OBVIOUS
<1>1. ASSUME NEW p \in Procs, Call(p) \/ Step(p) \/ crash(p) PROVE StepInv'
  BY <1>1, CallIsAhead, WriteIsAhead, LocalStepIsAhead, SealIsAhead, SubmitIsAhead, EndIsAhead DEF Step
<1>2. ASSUME NEW p \in Procs, clearStaleLock(p) PROVE StepInv'
  BY <1>2, AheadStays DEF clearStaleLock
<1>3. ASSUME closeLedger \/ consentExpires \/ \E s \in Stages : sealExternally(s) PROVE StepInv'
  BY <1>3, AheadStays DEF closeLedger, consentExpires, sealExternally
<1>4. CASE UNCHANGED vars BY <1>4, AheadStays DEF vars
<1> QED BY <1>1, <1>2, <1>3, <1>4 DEF Next

LEMMA InitIsAhead == Init => StepInv
<1> SUFFICES ASSUME Init PROVE StepInv
  OBVIOUS
<1>1. /\ disk.receiptAttempt = "none" /\ disk.validated = "none"
      /\ \A p \in Procs : ~Pending(run[p].pc)
  BY IdleIsRun DEF Init, Blank
<1> QED BY <1>1 DEF StepInv, Faithful

\* Whatever a handler is about to write is at most one step of the promise ahead
\* of the file, and never behind it.
THEOREM CopiesAreAhead == Spec => []StepInv
  BY InitIsAhead, NextIsAhead, InductiveInvariant, PTL DEF Spec

\* The request never moves backwards (service.ts:69-70).
THEOREM PhasesNeverRewind == Spec => NeverRewinds
<1>1. ASSUME IInv, StepInv, [Next]_vars PROVE Rank(disk.phase) <= Rank(disk'.phase)
  <2>1. Rank(disk.phase) \in Nat BY <1>1, RankIsNat DEF IInv, TypeOK, Records
  <2>2. ASSUME NEW p \in Procs, write(p) PROVE Rank(disk.phase) <= Rank(disk'.phase)
    BY <1>1, <2>2 DEF StepInv, Ahead, write, WritePCs, Pending
  <2>3. CASE disk' = disk BY <2>1, <2>3
  <2>4. CASE disk' # disk
    <3>1. \E p \in Procs : write(p) BY <1>1, <2>4, OthersLeaveDisk
    <3> QED BY <2>2, <3>1
  <2> QED BY <2>3, <2>4
<1> QED BY <1>1, InductiveInvariant, CopiesAreAhead, PTL DEF Spec, NeverRewinds

-----------------------------------------------------------------------------
(* Every step is a step of the promise, or none of its business.            *)
Charged == {stage \in Stages : issued[stage] > 0}

\* What is written is one approval, receipt, signature or verdict.
LEMMA WriteIsPromised ==
  ASSUME NEW p \in Procs, IInv, StepInv, write(p) PROVE [Promise!Next]_(Promise!vars)
<1>1. PICK r : r = run[p].r OBVIOUS
<1>2. disk' = r /\ UNCHANGED <<chain, issued>> BY <1>1 DEF write
<1>3. Pending(run[p].pc) /\ run[p].pc # "verify" BY DEF write, WritePCs, Pending
<1>4. /\ r \in Records /\ disk \in Records /\ Coherent(r) /\ Extends(r) /\ OneMore(r)
      /\ \A s \in r.receipts : issued[s] = 1
  BY <1>1, <1>3, PendingFacts DEF StepInv, Ahead, AtAwait, IInv, TypeOK
<1>5. Charged' = Charged BY <1>2 DEF Charged
<1>6. CASE Shows(r, disk)
  BY <1>2, <1>6 DEF Shows, Promise!vars
<1>7. ASSUME NEW role \in Roles, ~disk.signed, Shows(r, [disk EXCEPT !.approvals = @ \cup {role}])
      PROVE  Promise!Approve(role)
  BY <1>2, <1>4, <1>7 DEF Shows, Records, Promise!Approve
<1>8. ASSUME NEW stage \in Stages, Shows(r, [disk EXCEPT !.receipts = @ \cup {stage}])
      PROVE  Promise!Keep(stage)
  <2>1. /\ r.receipts = disk.receipts \cup {stage} /\ r.approvals = disk.approvals
        /\ r.signed = disk.signed /\ r.validated = disk.validated
    BY <1>4, <1>8 DEF Shows, Records
  <2>2. stage \in Charged BY <1>4, <2>1 DEF Charged
  <2> QED BY <1>2, <1>5, <2>1, <2>2 DEF Promise!Keep, Charged
<1>9. ASSUME Shows(r, [disk EXCEPT !.signed = TRUE]) PROVE Promise!Sign
  <2>1. /\ r.receipts = disk.receipts /\ r.approvals = disk.approvals
        /\ r.signed = TRUE /\ r.validated = disk.validated
    BY <1>4, <1>9 DEF Shows, Records
  <2>2. disk.approvals = Roles /\ "agreement" \in disk.receipts BY <1>4, <2>1 DEF Coherent
  <2> QED BY <1>2, <2>1, <2>2 DEF Promise!Sign, Promise!Roles, Roles
<1>10. ASSUME NEW v \in Outcomes, disk.validated = "none", Shows(r, [disk EXCEPT !.validated = v]),
              ~Shows(r, disk)
       PROVE  Promise!Report
  <2>1. /\ r.receipts = disk.receipts /\ r.approvals = disk.approvals
        /\ r.signed = disk.signed /\ r.validated = v
    BY <1>4, <1>10 DEF Shows, Records
  <2>2. v # "none" BY <1>10, <2>1 DEF Shows
  <2>3. r.validated = chain.result BY <1>4, <2>1, <2>2 DEF Extends
  <2> QED BY <1>2, <1>10, <2>1, <2>2, <2>3 DEF Promise!Report
<1> QED
  BY <1>4, <1>6, <1>7, <1>8, <1>9, <1>10 DEF OneMore, Promise!Next, Promise!Roles, Promise!Stages,
     Roles, Stages

\* A stage is issued once, for approved terms or for reported funding.
LEMMA IssuedIsPromised ==
  ASSUME IInv, StepInv, NEW stage \in Stages, issued' = [issued EXCEPT ![stage] = @ + 1],
         issued[stage] = 0, disk.receiptAttempt = stage, disk' = disk, chain' = chain
  PROVE  Promise!Charge(stage)
<1>1. issued \in [Stages -> Nat] BY DEF IInv, TypeOK
<1>2. Charged' = Charged \cup {stage} /\ stage \notin Charged BY <1>1 DEF Charged
<1>3. stage \notin disk.receipts /\ Coherent(disk) BY DEF IInv, Charges
<1>4. stage = "agreement" => disk.approvals = Roles /\ ~disk.signed
  BY <1>3 DEF StepInv, Faithful, Coherent
<1>5. stage # "agreement" => disk.validated = "tesSUCCESS" BY <1>3 DEF Coherent, Stages
<1> QED BY <1>2, <1>4, <1>5 DEF Promise!Charge, Promise!Roles, Roles, Charged

LEMMA StepIsPromised ==
  ASSUME IInv, StepInv, [Next]_vars PROVE [Promise!Next]_(Promise!vars)
<1> USE DEF Promise!Stages, Stages
<1>1. ASSUME UNCHANGED <<disk, chain, issued>> PROVE UNCHANGED Promise!vars
  BY <1>1 DEF Promise!vars
<1>2. ASSUME NEW p \in Procs, Call(p) PROVE UNCHANGED <<disk, chain, issued>>
  BY <1>2 DEF Call, create, approve, receiptAgreement, receiptExecution, prepareExternalReceipt,
              attachRecoveredReceipt, sign, advance, Intend, Begin
<1>3. ASSUME NEW p \in Procs,
             \/ callFails(p) \/ verify(p) \/ recheck(p) \/ cosign(p) \/ lookupFinds(p)
             \/ lookupMisses(p) \/ boundPassed(p) \/ intendSubmit(p) \/ originate(p)
             \/ writeFails(p) \/ release(p) \/ crash(p) \/ clearStaleLock(p)
      PROVE  UNCHANGED <<disk, chain, issued>>
  BY <1>3 DEF callFails, verify, recheck, cosign, lookupFinds, lookupMisses, boundPassed,
              intendSubmit, originate, writeFails, release, crash, clearStaleLock, Continue, Silent
<1>4. ASSUME NEW p \in Procs, submit(p) PROVE UNCHANGED Promise!vars
  <2>1. disk' = disk /\ issued' = issued /\ chain'.result = chain.result
    BY <1>4 DEF submit, Continue, IInv, TypeOK
  <2> QED BY <2>1 DEF Promise!vars
<1>5. ASSUME NEW p \in Procs, seal(p) PROVE Promise!Next
  <2>1. PICK h : h = run[p] OBVIOUS
  <2>2. AtAwait(h.op, h.stage, h.pc, h.r) /\ h.pc = "seal"
    BY <1>5, <2>1, PendingFacts DEF seal, Pending
  <2>3. h.stage \in Stages /\ disk.receiptAttempt = h.stage /\ issued[h.stage] = 0
    BY <2>2 DEF AtAwait
  <2>4. disk' = disk /\ chain' = chain /\ issued' = [issued EXCEPT ![h.stage] = @ + 1]
    BY <1>5, <2>1 DEF seal, Continue
  <2>5. Promise!Charge(h.stage) BY <2>3, <2>4, IssuedIsPromised
  <2> QED BY <2>3, <2>5 DEF Promise!Next
<1>6. ASSUME NEW stage \in Stages, sealExternally(stage) PROVE Promise!Next
  <2>1. disk.receiptAttempt = stage /\ issued[stage] = 0
    BY <1>6 DEF sealExternally, IInv, Charges
  <2>2. Promise!Charge(stage) BY <1>6, <2>1, IssuedIsPromised DEF sealExternally
  <2> QED BY <2>2 DEF Promise!Next
<1>7. ASSUME closeLedger PROVE [Promise!Next]_(Promise!vars)
  <2>1. UNCHANGED <<disk, issued>> BY <1>7 DEF closeLedger
  <2>2. CASE UNCHANGED chain BY <1>1, <2>1, <2>2
  <2>3. ASSUME NEW result \in Outcomes \ {"none"}, chain.sent, chain.result = "none",
               chain' = [chain EXCEPT !.result = result]
        PROVE  Promise!Decide(result)
    <3>1. disk.signed /\ chain'.result = result BY <2>3 DEF IInv, SendIsSaved, TypeOK
    <3> QED BY <2>1, <2>3, <3>1 DEF Promise!Decide
  <2> QED BY <1>7, <2>2, <2>3 DEF closeLedger, Promise!Next, Outcomes
<1>8. ASSUME consentExpires PROVE UNCHANGED <<disk, chain, issued>> BY <1>8 DEF consentExpires
<1>9. ASSUME UNCHANGED vars PROVE UNCHANGED <<disk, chain, issued>> BY <1>9 DEF vars
<1> QED BY <1>1, <1>2, <1>3, <1>4, <1>5, <1>6, <1>7, <1>8, <1>9, WriteIsPromised DEF Next, Step

\* The service with all its awaits, crashes and failures implements the promise
\* made to the two people (service.ts:53-167), for any processes and bounds.
THEOREM ImplementsPromise == Spec => KeepsPromise
<1>1. Init => Promise!Init
  <2> SUFFICES ASSUME Init PROVE Promise!Init
    OBVIOUS
  <2>1. {stage \in Stages : issued[stage] > 0} = {} BY DEF Init
  <2> QED BY <2>1 DEF Init, Blank, Promise!Init
<1>2. IInv /\ StepInv /\ [Next]_vars => [Promise!Next]_(Promise!vars)
  BY StepIsPromised
<1> QED BY <1>1, <1>2, InductiveInvariant, CopiesAreAhead, PTL DEF Spec, KeepsPromise, Promise!Spec

-----------------------------------------------------------------------------
(* What people are told.                                                    *)

\* The dashboard, the customer's page and the journey tell one story, and it is
\* the ledger's (dashboard.ts:24-35, customer-model.mjs:37-51, journey-model.mjs:4-35).
THEOREM PeopleAreToldTheTruth == Spec => []ToldTruthfully
<1>1. ASSUME IInv, StepInv, disk.phase # "NONE"
      PROVE  /\ outcome(disk) = title(disk)
             /\ outcome(disk) = "funded" => chain.result = "tesSUCCESS"
             /\ outcome(disk) = "refused" => chain.result = "tec"
             /\ outcome(disk) \in {"expired", "to-review", "signed"} => ~chain.sent
             /\ chain.sent => next(disk) \in {"go-on", "recover-execution", "reconcile", "inspect"}
             /\ "receive" \in done(disk) => {"approved", "agree"} \subseteq done(disk)
  <2>1. PICK r : r = disk OBVIOUS
  <2>2. /\ r.phase \in Phases /\ r.validated \in Outcomes /\ Coherent(r)
        /\ Faithful(r) /\ r.signed \in BOOLEAN
    BY <1>1, <2>1 DEF IInv, TypeOK, Records, StepInv
  <2>3. /\ r.validated # "none" => r.validated = chain.result
        /\ chain.sent => r.signed /\ r.phase \notin OnLedger
    BY <1>1, <2>1 DEF IInv, SendIsSaved
  <2>4. Funded(r) <=> r.validated = "tesSUCCESS" BY <2>2 DEF Faithful, Funded
  <2>5. /\ r.validated = "tesSUCCESS" => r.signed /\ r.phase \in Receiptable
        /\ r.validated = "tec" => r.signed /\ r.phase = "REJECTED"
    BY <2>2 DEF Coherent, OpenPhases, Receiptable
  <2>6. CASE r.validated = "tesSUCCESS"
    <3>1. funding(r) = "funded" BY <2>4, <2>6 DEF funding
    <3>2. outcome(r) = "funded" BY <3>1 DEF outcome
    <3>3. title(r) = "funded" BY <3>1 DEF title
    <3>4. next(r) \in {"go-on", "recover-execution"} BY <3>3 DEF next
    <3>5. r.approvals = Roles BY <2>2, <2>5, <2>6 DEF Coherent
    <3>6. {"approved", "agree"} \subseteq done(r) BY <2>5, <2>6, <3>5 DEF done
    <3> QED BY <2>1, <2>3, <2>6, <3>2, <3>3, <3>4, <3>6
  <2>7. CASE r.validated = "tec"
    <3>1. funding(r) = "refused" BY <2>4, <2>7 DEF funding
    <3>2. outcome(r) = "refused" BY <2>5, <2>7, <3>1 DEF outcome
    <3>3. title(r) = "refused" BY <2>5, <2>7, <3>1 DEF title
    <3>4. next(r) = "inspect" BY <3>3 DEF next
    <3>5. "receive" \notin done(r) BY <3>1 DEF done
    <3> QED BY <2>1, <2>3, <2>7, <3>2, <3>3, <3>4, <3>5
  <2>8. CASE r.validated = "none" /\ r.signed
    <3>1. funding(r) = "unknown" BY <2>4, <2>8 DEF funding
    <3>2. "receive" \notin done(r) BY <3>1 DEF done
    <3>3. CASE r.phase = "SIGNED"
      <4>1. outcome(r) = "signed" BY <3>1, <3>3 DEF outcome
      <4>2. title(r) = "signed" BY <3>1, <3>3 DEF title
      <4>3. ~chain.sent BY <2>3, <3>3 DEF OnLedger
      <4> QED BY <2>1, <3>2, <4>1, <4>2, <4>3
    <3>4. CASE r.phase # "SIGNED"
      <4>1. outcome(r) = "checking" BY <3>1, <3>4 DEF outcome
      <4>2. title(r) = "checking" BY <3>1, <3>4 DEF title
      <4>3. next(r) = "reconcile" BY <4>2 DEF next
      <4> QED BY <2>1, <3>2, <4>1, <4>2, <4>3
    <3> QED BY <3>3, <3>4
  <2>9. CASE r.validated = "none" /\ ~r.signed
    <3>1. funding(r) = "unfunded" BY <2>4, <2>9 DEF funding
    <3>2. r.phase \in OpenPhases BY <1>1, <2>1, <2>2, <2>9 DEF Coherent
    <3>3. outcome(r) = IF expired THEN "expired" ELSE "to-review"
      BY <3>1, <3>2 DEF outcome, OpenPhases
    <3>4. title(r) = IF expired THEN "expired" ELSE "to-review"
      BY <3>1, <3>2 DEF title, OpenPhases
    <3>5. ~chain.sent BY <2>3, <2>9
    <3>6. "receive" \notin done(r) BY <3>1 DEF done
    <3> QED BY <2>1, <3>3, <3>4, <3>5, <3>6
  <2> QED BY <2>2, <2>6, <2>7, <2>8, <2>9 DEF Outcomes
<1>2. IInv /\ StepInv => ToldTruthfully BY <1>1 DEF ToldTruthfully
<1> QED BY <1>2, InductiveInvariant, CopiesAreAhead, PTL

\* Every button shown for the record on disk is accepted by its handler, from
\* whichever process: the dashboard's conditions and those of the service agree
\* on every record that can be on disk (dashboard.ts:37-44).
THEOREM OfferedActionsAreAccepted == Spec => []OfferedIsAccepted
<1>1. ASSUME IInv, lock = NoProc
      PROVE  /\ \A p \in Procs : run[p].pc = "idle"
             /\ \A action \in requestActions(disk) : accepts(action)
  <2>1. \A p \in Procs : run[p].pc = "idle"
    BY <1>1, ProcsAssumption DEF IInv, OneWriter, Active
  <2>2. /\ Coherent(disk) /\ disk \in Records
    BY <1>1 DEF IInv, TypeOK
  <2>3. disk.approvals = Roles \/ disk.signed \/ disk.validated # "none" => disk.phase # "NONE"
    <3>1. Blank.approvals = {} /\ ~Blank.signed /\ Blank.validated = "none" BY DEF Blank
    <3> QED BY <2>2, <3>1 DEF Coherent, Roles
  <2>4. Funded(disk) => disk.validated = "tesSUCCESS" /\ disk.executionManifest
    BY <2>2 DEF Funded, Coherent
  <2>5. ASSUME NEW role \in Roles, disk.phase \in OpenPhases, ~expired
        PROVE  accepts(<<"approve", role>>)
    <3>1. approvable BY <2>5 DEF approvable, assertContent, OpenPhases
    <3> QED BY <3>1 DEF accepts
  <2>6. ASSUME disk.approvals = Roles, ~expired, ~disk.signed,
               disk.receiptAttempt = "none" \/ "agreement" \in disk.receipts
        PROVE  accepts(<<"receipt", "agreement">>)
    <3>1. receiptable("agreement")
      BY <2>3, <2>6 DEF receiptable, assertContent, assertApprovals
    <3> QED BY <3>1 DEF accepts
  <2>7. ASSUME disk.approvals = Roles, ~expired, ~disk.signed, "agreement" \in disk.receipts
        PROVE  accepts(<<"sign", "none">>)
    <3>1. signable BY <2>3, <2>7 DEF signable, assertContent, assertApprovals
    <3> QED BY <3>1 DEF accepts
  <2>8. ASSUME disk.signed, disk.validated = "none"
        PROVE  accepts(<<"submit", "none">>)
    <3>1. disk.approvals = Roles /\ "agreement" \in disk.receipts BY <2>2, <2>8 DEF Coherent
    <3>2. advanceable BY <2>3, <2>8, <3>1 DEF advanceable, assertContent, assertApprovals
    <3> QED BY <3>2 DEF accepts
  <2>9. ASSUME Funded(disk), disk.receiptAttempt = "none" \/ "execution" \in disk.receipts
        PROVE  accepts(<<"receipt", "execution">>)
    <3>1. receiptable("execution") BY <2>3, <2>4, <2>9 DEF receiptable, assertContent
    <3> QED BY <3>1 DEF accepts
  <2>10. ASSUME disk.approvals = Roles, ~expired, ~disk.signed
         PROVE  accepts(<<"recover", "agreement">>)
    <3>1. recoverable("agreement") BY <2>3, <2>10 DEF recoverable, assertContent
    <3> QED BY <3>1 DEF accepts
  <2>11. ASSUME Funded(disk)
         PROVE  accepts(<<"recover", "execution">>)
    <3>1. recoverable("execution") BY <2>3, <2>4, <2>11 DEF recoverable, assertContent
    <3> QED BY <3>1 DEF accepts
  <2>12. ASSUME NEW action \in requestActions(disk) PROVE accepts(action)
    <3>1. \/ \E role \in Roles : action = <<"approve", role>> /\ disk.phase \in OpenPhases /\ ~expired
          \/ /\ action = <<"receipt", "agreement">>
             /\ disk.approvals = Roles /\ ~expired /\ ~disk.signed
             /\ disk.receiptAttempt = "none" \/ "agreement" \in disk.receipts
          \/ /\ action = <<"sign", "none">>
             /\ disk.approvals = Roles /\ ~expired /\ ~disk.signed /\ "agreement" \in disk.receipts
          \/ action = <<"submit", "none">> /\ disk.signed /\ disk.validated = "none"
          \/ /\ action = <<"receipt", "execution">> /\ Funded(disk)
             /\ disk.receiptAttempt = "none" \/ "execution" \in disk.receipts
          \/ /\ action = <<"recover", "agreement">>
             /\ disk.approvals = Roles /\ ~expired /\ ~disk.signed
          \/ action = <<"recover", "execution">> /\ Funded(disk)
      BY <2>12 DEF requestActions
    <3> QED BY <2>5, <2>6, <2>7, <2>8, <2>9, <2>10, <2>11, <3>1
  <2> QED BY <2>1, <2>12
<1>2. IInv => OfferedIsAccepted BY <1>1 DEF OfferedIsAccepted
<1> QED BY <1>2, InductiveInvariant, PTL
=============================================================================
