------------------------------- MODULE Round -------------------------------
(* One financing round driven to its end without an operator                *)
(* (src/xrpl/automatic-round.ts). The local server advances it from a timer *)
(* (src/server/index.ts); for the hosted site a worker takes jobs from a    *)
(* blob queue and starts the bridge (scripts/execution-worker.ts,           *)
(* scripts/bridge.ts, src/hosted/execution-queue.ts, api.ts). People may    *)
(* take any step by hand in between. A step is one call of LendingService   *)
(* or Cycle, which LendingService.tla and Cycle.tla take apart: here it     *)
(* returns, or throws with any of the partial effects it can leave behind.  *)
(* A command holds the writer lock of its directory (src/requests/store.ts) *)
(* from its first check to its last write, and leaves it behind if it dies. *)
(* It is one step here, except where a check precedes calls to the network  *)
(* that the outcome of the check may not survive: the plan, and sign.       *)
EXTENDS Naturals

CONSTANT MaxFaults      \* bound on crashes and failed writes together

ASSUME FaultsAssumption == MaxFaults \in Nat

VARIABLES
    site,       \* where the round runs: the local server or the hosted site
    loan,       \* the request's file: approvals, receiptAttempt, receipts, phase
    steps,      \* the cycle's file: what it records of refusal, repay and withdraw
    job,        \* the status kept for the automatic round
    pending,    \* the status the worker is about to save
    view,       \* what the hosted site knows of the loan: the last publication
    chain,      \* the ledger: the loan's and each operation's fate
    issued,     \* receipts the authority has charged for, per stage
    handed,     \* receipts that a person was told to have sealed, and has not yet
    clock,      \* which deadlines have passed
    command,    \* the command that holds the writer lock between two steps
    stale,      \* locks left behind by a process that died
    faults

facts == <<loan, steps, chain, issued, handed>>
vars == <<site, facts, job, pending, view, clock, command, stale, faults>>

Roles == {"broker", "borrower"}
Stages == {"agreement", "execution"}
Operations == {"refusal", "repay", "withdraw"}
Deadlines == {"consent", "LastLedgerSequence", "NextPaymentDueDate", "intake", "match"}
OfSignature == {"consent", "intake", "match"}
Settled == {"REJECTED", "EXPIRED_UNRESOLVED"}
Signed == {"SIGNED", "SUBMITTED", "FUNDED"} \cup Settled
TerminalJobs == {"COMPLETE", "PAUSED", "YIELD_CHECK_FAILED"} \cup Settled

\* No command is between two steps. A command remembers whether, when it took
\* the lock, nothing had lapsed of what a signature rests on (history).
Nobody == [by |-> "nobody", at |-> "rest", fresh |-> TRUE]

\* No publication has been read, or none will be.
Unread == [approvals |-> {}, signed |-> FALSE]

\* A prepared offer over a finished setup; nobody has approved it yet.
Init ==
    /\ site \in {"local", "hosted"}
    /\ loan = [approvals |-> {}, attempt |-> "none", receipts |-> {}, phase |-> "OPEN"]
    /\ steps = [refusal |-> "none", repay |-> "none", withdraw |-> "none", yield |-> "none"]
    /\ job = "none"
    /\ pending = "none"
    /\ view = Unread
    /\ chain = [op \in Operations \cup {"loan"} |-> "none"]
    /\ issued = [stage \in Stages |-> 0]
    /\ handed = {}
    /\ clock = {}
    /\ command = Nobody
    /\ stale = {}
    /\ faults = 0

Passed(deadline) == deadline \in clock
Approved == loan.approvals = Roles

-----------------------------------------------------------------------------
(* The calls of the service and the cycle, as far as they have effects; ok  *)
(* says whether they return. Every call may also throw with no effect.      *)
Nothing == UNCHANGED facts

ReceiptDue(stage) ==
    IF stage = "agreement" THEN Approved /\ ~Passed("consent") ELSE loan.phase = "FUNDED"

\* A charge may lose its answer, and a stored receipt may fail its check: the
\* attempt's mark, saved before the call, stays.
issue(stage, ok) ==
    \E charged, stored \in BOOLEAN :
        /\ ok => stored
        /\ stored => charged
        /\ issued' = [issued EXCEPT ![stage] = @ + IF charged THEN 1 ELSE 0]
        /\ loan' = [loan EXCEPT !.attempt = IF ok THEN "none" ELSE stage,
                                !.receipts = IF stored THEN @ \cup {stage} ELSE @]

\* Mutant: an unresolved attempt does not keep the service from issuing.
receiptReissuing(stage, ok) ==
    /\ ReceiptDue(stage) /\ stage \notin loan.receipts
    /\ issue(stage, ok)
    /\ UNCHANGED <<steps, chain, handed>>

\* receiptAgreement, receiptExecution: a stored receipt is checked again.
receipt(stage, ok) ==
    /\ ReceiptDue(stage)
    /\ \/ /\ stage \in loan.receipts /\ ok
          /\ loan' = [loan EXCEPT !.attempt =
                IF @ = stage \/ stage = "execution" THEN "none" ELSE @]
          /\ UNCHANGED issued
       \/ /\ stage \notin loan.receipts /\ loan.attempt = "none"
          /\ issue(stage, ok)
    /\ UNCHANGED <<steps, chain, handed>>

\* Mutant: the authority is not asked about the receipt.
recoverUnverified(stage) ==
    /\ IF stage = "agreement" THEN loan.phase = "OPEN" /\ ~Passed("consent")
                              ELSE loan.phase = "FUNDED"
    /\ loan' = [loan EXCEPT !.attempt = "none", !.receipts = @ \cup {stage}]
    /\ UNCHANGED <<steps, chain, issued, handed>>

\* attachRecoveredReceipt: the authority confirms what it has issued.
recover(stage) ==
    /\ issued[stage] > 0
    /\ IF stage = "agreement" THEN loan.phase = "OPEN" /\ ~Passed("consent")
                              ELSE loan.phase = "FUNDED"
    /\ loan' = [loan EXCEPT !.attempt = "none", !.receipts = @ \cup {stage}]
    /\ UNCHANGED <<steps, chain, issued, handed>>

\* prepareExternalReceipt: the attempt is marked, and a person told to have
\* the receipt sealed.
prepareExternalReceipt(stage) ==
    /\ ReceiptDue(stage)
    /\ stage = "agreement" => loan.phase = "OPEN"
    /\ stage \notin loan.receipts /\ loan.attempt = "none"
    /\ loan' = [loan EXCEPT !.attempt = stage]
    /\ handed' = handed \cup {stage}
    /\ UNCHANGED <<steps, chain, issued>>

approve(role) ==
    /\ loan.phase = "OPEN" /\ ~Passed("consent")
    /\ loan' = [loan EXCEPT !.approvals = @ \cup {role}]
    /\ UNCHANGED <<steps, chain, issued, handed>>

\* sign looks at the approvals and their expiry first,
MaySign == Approved /\ ~Passed("consent") /\ loan.phase = "OPEN"

\* and signs after it has asked the ledger and the authority.
sign(ok) ==
    \/ /\ ok /\ "agreement" \in loan.receipts /\ ~Passed("LastLedgerSequence")
       /\ loan' = [loan EXCEPT !.phase = "SIGNED"]
       /\ UNCHANGED <<steps, chain, issued, handed>>
    \/ ~ok /\ Nothing

\* Mutant: the bound of the transaction is not looked at.
advanceUnbounded(ok) ==
    /\ loan.phase \in {"SIGNED", "SUBMITTED"}
    /\ \/ /\ ok /\ chain["loan"] \in {"done", "failed"}
          /\ loan' = [loan EXCEPT !.phase = IF chain["loan"] = "done" THEN "FUNDED" ELSE "REJECTED"]
          /\ UNCHANGED chain
       \/ /\ loan' = [loan EXCEPT !.phase = "SUBMITTED"]
          /\ chain' \in {chain, [chain EXCEPT !["loan"] = IF @ = "none" THEN "sent" ELSE @]}
    /\ UNCHANGED <<steps, issued, handed>>

\* advance: the result is found, the bound has passed, or the blob goes out.
advance(ok) ==
    /\ loan.phase \in Signed \ {"FUNDED", "REJECTED"}
    /\ \/ /\ ok /\ chain["loan"] \in {"done", "failed"}
          /\ loan' = [loan EXCEPT !.phase = IF chain["loan"] = "done" THEN "FUNDED" ELSE "REJECTED"]
          /\ UNCHANGED chain
       \/ /\ ok /\ Passed("LastLedgerSequence")
          /\ loan' = [loan EXCEPT !.phase = "EXPIRED_UNRESOLVED"]
          /\ UNCHANGED chain
       \/ /\ ~Passed("LastLedgerSequence")
          /\ loan.phase = "SIGNED" => ~Passed("consent")
          /\ loan' = [loan EXCEPT !.phase = "SUBMITTED"]
          /\ chain' \in {chain, [chain EXCEPT !["loan"] = IF @ = "none" THEN "sent" ELSE @]}
    /\ UNCHANGED <<steps, issued, handed>>

\* What the ledger may answer to an operation's blob. The deposit cannot be
\* withdrawn while it is lent out, nor twice.
Fates(op) ==
    CASE op = "refusal" -> IF chain["repay"] = "done" /\ chain["withdraw"] # "done"
                           THEN {"done", "failed"} ELSE {"failed"}
      [] op = "withdraw" -> {"done"}
      [] OTHER -> {"done", "failed"}

\* What the journal finds for it now; an expired repayment is followed by a
\* late one.
Found(op) ==
    IF chain[op] = "done" \/ (chain[op] = "failed" /\ op # "repay") THEN {chain[op]} ELSE Fates(op)

Allowed(op) ==
    /\ loan.phase = "FUNDED"
    /\ op = "refusal" => steps.repay = "none"
    /\ op = "withdraw" => steps.repay = "done"

\* A deposit that the refusal moved away is missing from the proceeds.
Yields == IF chain["refusal"] = "done" THEN {"none or negative"} ELSE {"positive", "none or negative"}

Expected(op, fate, yield) ==
    CASE op = "refusal" -> fate = "failed"
      [] op = "repay" -> fate = "done"
      [] op = "withdraw" -> yield = "positive"

\* refusal, repay, withdraw: what the ledger has decided is recorded before it
\* is judged; without a decision the blob stays out.
operate(op, ok) ==
    /\ Allowed(op)
    /\ \/ /\ ~ok /\ chain[op] = "none"
          /\ chain' = [chain EXCEPT ![op] = "sent"]
          /\ UNCHANGED steps
       \/ \E fate \in Found(op), yield \in Yields :
             /\ chain' = [chain EXCEPT ![op] = fate]
             /\ IF op = "withdraw"
                THEN /\ steps.yield \in {"none", yield}
                     /\ steps' = [steps EXCEPT ![op] = fate, !.yield = yield]
                ELSE steps' = [steps EXCEPT ![op] = fate]
             /\ ok <=> Expected(op, fate, yield)
    /\ UNCHANGED <<loan, issued, handed>>

-----------------------------------------------------------------------------
(* advanceAutomaticRound: one durable step, chosen from the files alone.    *)
NextStep ==
    IF ~Approved THEN "approvals"
    ELSE IF loan.phase \in Settled THEN "settled"
    ELSE IF loan.phase = "OPEN"
    THEN IF "agreement" \notin loan.receipts \/ loan.attempt = "agreement" THEN "agreement" ELSE "sign"
    ELSE IF loan.phase \in {"SIGNED", "SUBMITTED"} THEN "advance"
    ELSE IF "execution" \notin loan.receipts \/ loan.attempt = "execution" THEN "execution"
    ELSE IF steps.yield # "none" THEN "yield"
    ELSE IF steps.refusal = "none" THEN "refusal"
    ELSE IF steps.refusal = "done" THEN "halt"
    ELSE IF steps.repay = "done" THEN "withdraw"
    ELSE IF Passed("NextPaymentDueDate") THEN "repay" ELSE "wait"

\* Mutant: the round is called complete as soon as it has been repaid.
ReturnedEarly ==
    CASE NextStep = "approvals" -> "WAITING_FOR_APPROVALS"
      [] NextStep = "settled" -> loan.phase
      [] NextStep \in {"yield", "withdraw", "repay"} -> "COMPLETE"
      [] OTHER -> "WORKING"

\* The status a step returns; the progress reports are all "WORKING".
Returned ==
    CASE NextStep = "approvals" -> "WAITING_FOR_APPROVALS"
      [] NextStep = "settled" -> loan.phase
      [] NextStep = "yield" -> IF steps.yield = "positive" THEN "COMPLETE" ELSE "YIELD_CHECK_FAILED"
      [] NextStep = "withdraw" -> "COMPLETE"
      [] OTHER -> "WORKING"

\* Every step but the signature, which starts with MaySign and ends with sign.
advanceAutomaticRound(ok) ==
    \/ NextStep \in Stages /\ receipt(NextStep, ok)
    \/ NextStep = "advance" /\ advance(ok)
    \/ NextStep \in Operations /\ operate(NextStep, ok)
    \/ NextStep = "halt" /\ ~ok /\ Nothing
    \/ NextStep \in {"approvals", "settled", "yield", "wait"} /\ ok /\ Nothing

-----------------------------------------------------------------------------
(* The writer lock, and what can go wrong with its holder.                  *)
Free == command = Nobody /\ "writer" \notin stale

begins(by, at) ==
    command' = [by |-> by, at |-> at, fresh |-> clock \cap OfSignature = {}]

lives == UNCHANGED <<stale, faults>>

\* A write fails, or a process dies and leaves its locks behind.
fault(left) ==
    /\ faults < MaxFaults /\ faults' = faults + 1
    /\ stale' = stale \cup left

\* An operator has seen that the process is gone, and removes its lock.
clearStaleLock ==
    /\ \E lock \in stale : stale' = stale \ {lock}
    /\ UNCHANGED <<site, facts, job, pending, view, clock, command, faults>>

-----------------------------------------------------------------------------
(* The local server: every route and the timer run under processLock. A     *)
(* tick that does not get the lock, because it is held or was left behind,  *)
(* throws before it reads the job, and nobody is told.                      *)
Local == site = "local" /\ UNCHANGED <<site, pending, view, clock>>

\* The call ends, or the process dies before.
callEnds == lives \/ fault({"writer"})

\* The job's file is written; or that fails, or the process dies before.
writeJob(status) ==
    \/ job' = status /\ lives
    \/ UNCHANGED job /\ \E left \in SUBSET {"writer"} : fault(left)

approveLocally(role) ==
    /\ Local /\ Free
    /\ approve(role)
    /\ writeJob("WAITING_FOR_APPROVALS")
    /\ UNCHANGED command

\* Mutant: run starts a finished round again.
runAgain ==
    /\ Local /\ Free /\ Nothing
    /\ Approved /\ job # "PAUSED"
    /\ writeJob("QUEUED")
    /\ UNCHANGED command

\* POST run: a job that exists is returned as it is.
run ==
    /\ Local /\ Free /\ Nothing
    /\ Approved
    /\ loan.phase \in Signed \/ ~Passed("consent")
    /\ job = "none" /\ writeJob("QUEUED")
    /\ UNCHANGED command

\* One tick: any exception pauses the round, a lost connection too.
automaticTick ==
    /\ Local /\ Free
    /\ job \notin TerminalJobs \cup {"none"}
    /\ \/ Nothing /\ writeJob("PAUSED") /\ UNCHANGED command
       \/ NextStep = "sign" /\ MaySign /\ begins("timer", "signing") /\ Nothing /\ UNCHANGED job /\ lives
       \/ \E ok \in BOOLEAN :
             /\ advanceAutomaticRound(ok)
             /\ writeJob(IF ok THEN Returned ELSE "PAUSED")
             /\ UNCHANGED command

\* The operator's routes.
byHandLocally ==
    /\ Local /\ Free /\ UNCHANGED job
    /\ \/ /\ \/ \E ok \in BOOLEAN :
                   \/ \E stage \in Stages : receipt(stage, ok)
                   \/ advance(ok)
                   \/ \E op \in Operations : operate(op, ok)
             \/ \E stage \in Stages : recover(stage)
             \/ Nothing
          /\ callEnds /\ UNCHANGED command
       \/ MaySign /\ begins("operator", "signing") /\ Nothing /\ lives

\* The timer's or the operator's sign comes to its end.
signsLocally ==
    /\ Local
    /\ command.at = "signing" /\ command' = Nobody
    /\ \E ok \in BOOLEAN :
          /\ sign(ok)
          /\ IF command.by = "timer" THEN writeJob(IF ok THEN Returned ELSE "PAUSED")
                                     ELSE UNCHANGED job /\ callEnds

-----------------------------------------------------------------------------
(* The bridge to the hosted site: one process per command.                  *)
Hosted == site = "hosted" /\ UNCHANGED site

\* Mutant: the request is not compared with the one that was planned.
MatchHolds == site = "hosted" => ~Passed("match")

PlanIsSame == site = "hosted" => ~Passed("intake")
PlanHolds == PlanIsSame /\ (site = "hosted" => ~Passed("match"))

\* A publication is kept until there is a job: nothing here reads it after.
Publication ==
    IF job # "none" THEN Unread
    ELSE [approvals |-> loan'.approvals, signed |-> loan'.phase \in Signed]

\* A lapsed plan is forgotten when the transaction is out: nothing compares it
\* after that.
Minded == IF loan'.phase \in {"OPEN", "SIGNED"} THEN clock ELSE clock \ {"intake", "match"}

\* What a bridge started by the worker makes of its job: it is paused unless
\* the step returns, is published, and the process ends by itself.
bridgeEnds(by, ok) ==
    /\ command' = Nobody /\ clock' = Minded
    /\ \/ /\ ok /\ view' = Publication /\ lives
          /\ pending' = IF by # "worker" THEN pending
                        ELSE IF Returned = "COMPLETE" THEN "complete" ELSE "running"
       \/ /\ view' \in {view, Publication} /\ callEnds
          /\ pending' = IF by = "worker" THEN "paused" ELSE pending

\* The commands that look at the plan before they connect and do their work.
plans(by, at) ==
    /\ IF at = "submit" THEN loan.phase = "SIGNED" /\ PlanIsSame
                        ELSE loan.phase = "OPEN" /\ PlanHolds
    /\ begins(by, at)
    /\ Nothing /\ lives /\ UNCHANGED <<pending, view, clock>>

byHandOnBridge ==
    /\ Hosted /\ Free /\ UNCHANGED job
    /\ \/ \E at \in Roles \cup {"automatic", "sign", "submit"} : plans("operator", at)
       \/ \E ok \in BOOLEAN :
             /\ \/ ~ok /\ Nothing
                \/ loan.phase # "SIGNED" /\ advance(ok)
                \/ loan.phase \in Signed /\ advanceAutomaticRound(ok)
                \/ \E op \in Operations : operate(op, ok)
                \/ ok /\ \E stage \in Stages : recover(stage) \/ prepareExternalReceipt(stage)
             /\ bridgeEnds("operator", ok)

\* The bridge has its connection, and goes on as far as the signature.
bridgeGoesOn ==
    /\ Hosted /\ UNCHANGED job
    /\ command.at \notin {"rest", "signing"}
    /\ \/ /\ command.at = "sign" \/ (command.at = "automatic" /\ NextStep = "sign")
          /\ MaySign
          /\ command' = [command EXCEPT !.at = "signing"]
          /\ Nothing /\ lives /\ UNCHANGED <<pending, view, clock>>
       \/ \E ok \in BOOLEAN :
             /\ \/ ~ok /\ Nothing
                \/ command.at = "automatic" /\ advanceAutomaticRound(ok)
                \/ command.at = "submit" /\ advance(ok)
                \/ ok /\ command.at \in Roles /\ approve(command.at)
             /\ bridgeEnds(command.by, ok)

signsOnBridge ==
    /\ Hosted /\ UNCHANGED job
    /\ command.at = "signing"
    /\ \E ok \in BOOLEAN : sign(ok) /\ bridgeEnds(command.by, ok)

-----------------------------------------------------------------------------
(* The hosted site's queue and the worker.                                  *)

\* The run route knows the loan from the last publication only; a job that
\* exists is never overwritten.
enqueue ==
    /\ Hosted /\ Nothing
    /\ view.approvals = Roles
    /\ view.signed \/ ~Passed("consent")
    /\ job = "none" /\ job' = "queued"
    /\ view' = Unread
    /\ UNCHANGED <<pending, clock, command, stale, faults>>

\* The worker starts the bridge for a job it has listed; without the lock the
\* bridge ends before it has done or published anything.
workerSteps ==
    /\ Hosted /\ UNCHANGED job
    /\ "worker" \notin stale /\ command.by # "worker"
    /\ job \in {"queued", "running"} /\ pending = "none"
    /\ \/ Nothing /\ pending' = "paused" /\ lives /\ UNCHANGED <<view, clock, command>>
       \/ Free /\ plans("worker", "automatic")
       \/ Free /\ \E ok \in BOOLEAN :
             /\ \/ ~ok /\ Nothing
                \/ loan.phase \in Signed /\ advanceAutomaticRound(ok)
             /\ bridgeEnds("worker", ok)

workerSaves ==
    /\ Hosted /\ Nothing
    /\ pending # "none" /\ pending' = "none"
    /\ (job' = pending /\ lives) \/ (UNCHANGED job /\ fault({}))
    /\ UNCHANGED <<view, clock, command>>

\* The bridge that it has started goes on, as if an operator had done that.
workerDies ==
    /\ Hosted /\ Nothing
    /\ "worker" \notin stale /\ fault({"worker"})
    /\ pending' = "none"
    /\ command' = IF command.by = "worker" THEN [command EXCEPT !.by = "operator"] ELSE command
    /\ UNCHANGED <<job, view, clock>>

-----------------------------------------------------------------------------
(* The world.                                                               *)

\* The person whom a receipt was handed to has it sealed, once.
sealByHand(stage) ==
    /\ stage \in handed /\ handed' = handed \ {stage}
    /\ issued' = [issued EXCEPT ![stage] = @ + 1]
    /\ UNCHANGED <<site, loan, steps, chain, job, pending, view, clock, command, stale, faults>>

\* The ledger decides on a blob, the loan's only up to LastLedgerSequence.
validates(id) ==
    /\ chain[id] = "sent"
    /\ id = "loan" => ~Passed("LastLedgerSequence")
    /\ \E fate \in Fates(id) : chain' = [chain EXCEPT ![id] = fate]
    /\ UNCHANGED <<site, loan, steps, issued, handed, job, pending, view, clock, command, stale, faults>>

passes(deadline) ==
    /\ deadline \notin clock
    /\ deadline \in {"intake", "match"} => site = "hosted" /\ loan.phase \in {"OPEN", "SIGNED"}
    /\ deadline = "NextPaymentDueDate" => chain["loan"] = "done"
    /\ clock' = clock \cup {deadline}
    /\ UNCHANGED <<site, facts, job, pending, view, command, stale, faults>>

Next ==
    \/ \E role \in Roles : approveLocally(role)
    \/ run \/ automaticTick \/ byHandLocally \/ signsLocally
    \/ byHandOnBridge \/ bridgeGoesOn \/ signsOnBridge
    \/ enqueue \/ workerSteps \/ workerSaves \/ workerDies
    \/ clearStaleLock
    \/ \E stage \in Stages : sealByHand(stage)
    \/ \E id \in DOMAIN chain : validates(id)
    \/ \E deadline \in Deadlines : passes(deadline)

Spec == Init /\ [][Next]_vars
=============================================================================
