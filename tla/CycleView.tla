----------------------------- MODULE CycleView -----------------------------
(* What the dashboard and the pages make of the cycle's record: the         *)
(* operations offered to the operator (src/server/dashboard.ts, cycleView   *)
(* and cycleActions) and what the lender is told (web/customer-model.mjs).  *)
(* The services are ready; see RequestView for the loan itself.             *)
EXTENDS CycleProperties

StepSucceeded(id) == record.steps[id] = "tesSUCCESS"
funded == record.requestId /\ request = "funded"
repaid == StepSucceeded("repay") \/ StepSucceeded("repay-late")

\* Mutant: a repayment that has a result is not offered again.
cycleActionsOnce ==
    {action \in {"setup", "prepare", "refusal", "repay", "withdraw"} :
       CASE action = "setup" -> ~StepSucceeded("cover")
         [] action = "prepare" -> StepSucceeded("cover") /\ request = "none"
         [] action = "refusal" -> funded /\ record.refusal = "none" /\ record.steps["repay"] = "none"
         [] action = "repay" -> funded /\ record.steps["repay"] = "none"
         [] action = "withdraw" -> repaid /\ ~StepSucceeded("withdraw")}

cycleActions ==
    {action \in {"setup", "prepare", "refusal", "repay", "withdraw"} :
       CASE action = "setup" -> ~StepSucceeded("cover")
         [] action = "prepare" -> StepSucceeded("cover") /\ request = "none"
         [] action = "refusal" -> funded /\ record.refusal = "none" /\ record.steps["repay"] = "none"
         [] action = "repay" -> funded /\ ~repaid
         [] action = "withdraw" -> repaid /\ ~StepSucceeded("withdraw")}

\* lenderOutcome.
deposited == StepSucceeded("deposit")
redeemed == deposited /\ StepSucceeded("withdraw") /\ record.yield # "none"

-----------------------------------------------------------------------------
\* A handler died between creating the request and binding it to the cycle,
\* or between recording the withdrawal and recording its yield.
CutShort ==
    \/ request # "none" /\ ~record.requestId
    \/ StepSucceeded("withdraw") /\ record.yield = "none"

\* The operator is left without an operation only while the loan is being
\* agreed, once the lender is told that the position is redeemed, or where a
\* handler was cut short at one of two places; whatever the ledger refused
\* and whatever was rerun before (dashboard.ts:58-69).
OfferedUntilRedeemed ==
    handler.pc = "idle" /\ cycleActions = {} => request = "prepared" \/ redeemed \/ CutShort
=============================================================================
