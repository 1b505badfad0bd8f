-------------------------- MODULE RoundProperties --------------------------
(* What the automatic round must guarantee beside people who take the same  *)
(* steps by hand, through exceptions, crashes, lost publications and jobs   *)
(* that are paused, saved late or queued again.                             *)
EXTENDS Round

Finished == {"COMPLETE", "complete"}
Active == {"WAITING_FOR_APPROVALS", "QUEUED", "WORKING", "queued", "running"}

\* The type of every variable of the round.
TypeOK ==
    /\ site \in {"local", "hosted"}
    /\ loan \in [approvals : SUBSET Roles, attempt : Stages \cup {"none"},
                 receipts : SUBSET Stages, phase : Signed \cup {"OPEN"}]
    /\ steps \in [refusal : {"none", "done", "failed"}, repay : {"none", "done", "failed"},
                  withdraw : {"none", "done", "failed"}, yield : {"none", "positive", "none or negative"}]
    /\ job \in TerminalJobs \cup Active \cup {"none", "paused", "complete"}
    /\ pending \in {"none", "paused", "complete", "running"}
    /\ view \in [approvals : SUBSET Roles, signed : BOOLEAN]
    /\ chain \in [Operations \cup {"loan"} -> {"none", "sent", "done", "failed"}]
    /\ issued \in [Stages -> Nat]
    /\ handed \subseteq Stages
    /\ clock \subseteq Deadlines
    /\ command \in [by : {"nobody", "timer", "worker", "operator"},
                   at : Roles \cup {"rest", "sign", "automatic", "submit", "signing"}, fresh : BOOLEAN]
    /\ stale \subseteq {"writer", "worker"}
    /\ faults \in Nat

\* Neither the timer, the worker nor an operator beside them has a receipt
\* charged twice, also when a paused round is set going again (index.ts:41,
\* "Never blindly reissue").
NeverReissued == \A stage \in Stages : issued[stage] <= 1

\* A round is called complete only when the story is true: funded, receipted,
\* no capital moved while it was lent out, repaid, and withdrawn at a profit
\* (automatic-round.ts:29, 41; execution-worker.ts:20).
CompleteIsTrue ==
    job \in Finished \/ pending = "complete" =>
        /\ chain["loan"] = "done" /\ loan.receipts = Stages
        /\ chain["refusal"] # "done"
        /\ chain["repay"] = "done" /\ chain["withdraw"] = "done"
        /\ steps.yield = "positive"

\* A job is queued or worked on only for terms that both people have approved
\* on the record itself, however old the publication it was queued from
\* (index.ts:150, api.ts:38-40).
QueuedIsApproved == job \in Active \ {"WAITING_FOR_APPROVALS"} \/ pending = "running" => Approved

\* The job, which is all that people and the worker look at, does not run
\* ahead of the records and the ledger at either end of the round.
JobIsTruthful == CompleteIsTrue /\ QueuedIsApproved

\* The transaction is signed only for terms that both people have approved and
\* the authority has receipted, by a command that took the lock while their
\* consent was in force and the hosted request and match were those of the plan
\* (service.ts:86-96, bridge.ts:53-63, automatic-round.ts:21). They may lapse
\* while the command waits for the network.
SignatureIsAuthorized ==
    [][ loan.phase = "OPEN" /\ loan'.phase # "OPEN" =>
          Approved /\ issued["agreement"] > 0 /\ command.by # "nobody" /\ command.fresh ]_vars

\* The outcome of a round is not taken back: no late approval, repeated run
\* or queue write restarts it (index.ts:36, 154; execution-queue.ts:8-11).
OutcomeStands ==
    [][ (job \in Finished \cup Settled \cup {"YIELD_CHECK_FAILED"}) => job' = job ]_vars

\* The round's shorter view of the service's calls promises what the service
\* itself is shown to promise: whoever drives it, nothing is charged, signed,
\* sent or reported but as LoanPromise has it (service.ts:53-167).
Promise == INSTANCE LoanPromise WITH
    consent <- loan.approvals,
    signed <- loan.phase \in Signed,
    decided <- CASE chain["loan"] = "done" -> "tesSUCCESS"
                 [] chain["loan"] = "failed" -> "tec"
                 [] OTHER -> "none",
    reported <- CASE loan.phase = "FUNDED" -> "tesSUCCESS"
                  [] loan.phase = "REJECTED" -> "tec"
                  [] OTHER -> "none",
    charged <- {stage \in Stages : issued[stage] > 0},
    evidence <- loan.receipts

KeepsPromise == Promise!Spec

-----------------------------------------------------------------------------
(* Fairness (stated in RoundMC): the timer and the worker's loop go on, a   *)
(* command that holds the lock comes to an end, and time passes. A step     *)
(* that can return is not assumed to throw.                                 *)
MustThrow == IF NextStep = "sign" THEN ~MaySign ELSE ~ENABLED advanceAutomaticRound(TRUE)
MustPause == ~Free \/ IF loan.phase \in Signed THEN MustThrow ELSE ~PlanHolds

TickGoesOn == automaticTick /\ (job' = "PAUSED" => MustThrow)
WorkerGoesOn == workerSteps /\ (pending' = "paused" => MustPause)

\* The worker looks for COMPLETE only (execution-worker.ts:20): other ends are
\* told by the records, and the round is started again without any effect.
ToldByRecords == loan.phase \in Settled \/ steps.yield = "none or negative"

\* An approved round that is under way comes to an end, which is on its job or,
\* behind the worker, on its records; or it stops with an exception that pauses
\* the job; or else a process has died, and left a lock that stops the round
\* until an operator removes it (index.ts:32, 204, store.ts:29-30): nothing else
\* makes it wait for ever.
RoundSettles ==
    (Approved /\ job \in Active) ~>
        \/ job \in TerminalJobs \cup {"paused", "complete"}
        \/ site = "hosted" /\ ToldByRecords
        \/ stale # {}
=============================================================================
