--------------------------- MODULE CycleProperties ---------------------------
(* What the native cycle must guarantee through timeouts, crashes, reruns   *)
(* and late or conclusive refusals by the ledger.                           *)
EXTENDS Cycle

Statuses == {"ABSENT", "SIGNED", "SUBMITTED", "VALIDATION_UNKNOWN", "VALIDATED", "EXPIRED_UNRESOLVED"}
Operations == [status : Statuses, amount : Int, result : Results \cup {"none"}]
CycleRecords ==
    [exists : BOOLEAN, vaultId : BOOLEAN, loanBrokerId : BOOLEAN, requestId : BOOLEAN,
     steps : [Ids -> Results \cup {"none"}], refusal : Results \cup {"none"},
     yield : {"none", "positive", "none or negative"}]
Handlers ==
    [op : {"none", "setup", "prepareRequest", "refusal", "repay", "withdraw"}, id : Ids,
     pc : {"idle", "begin", "create", "bind", "register", "lookup", "bound", "submit", "store",
           "record", "after"},
     amount : Int, file : Operations, rec : CycleRecords]

\* The type of every variable of the cycle and its surroundings.
TypeOK ==
    /\ journal \in [Ids -> Operations]
    /\ record \in CycleRecords
    /\ request \in {"none", "prepared", "funded"}
    /\ handler \in Handlers
    /\ sent \subseteq Ids
    /\ verdict \in [Ids -> Results \cup {"none"}]
    /\ passed \subseteq Ids
    /\ faults \in Nat

\* What the ledger must have decided before a blob may reach it. The corrected
\* operation needs the conclusive refusal of the first one.
Needs(id) ==
    CASE id = "vault" -> TRUE
      [] id \in {"deposit", "lender-topup"} -> Succeeded("vault")
      [] id = "deposit-funded" -> Succeeded("lender-topup") /\ verdict["deposit"] = "tecINSUFFICIENT_FUNDS"
      [] id = "broker" -> Deposited
      [] id = "cover" -> Succeeded("broker")
      [] id \in {"native-refusal", "repay"} -> request = "funded" /\ Deposited
      [] id = "repay-late" -> request = "funded" /\ verdict["repay"] = "tecEXPIRED"
      [] id = "withdraw" -> Repaid

\* No step reaches the ledger before the steps it depends on have succeeded
\* there, and the borrower pays and the lender deposits only once, whatever is
\* rerun after whatever failure (cycle.ts:98-105, 120-129, 191-199, 213-223).
InOrder == \A id \in sent : Needs(id)

\* The records kept as evidence say what the ledger decided, operation by
\* operation (journal.ts:36-38, cycle.ts:100, 130-131, 182).
EvidenceIsTrue ==
    /\ \A id \in Ids : journal[id].result # "none" => journal[id].result = verdict[id]
    /\ \A id \in Ids : record.steps[id] # "none" =>
          \/ record.steps[id] = verdict[id]
          \/ id = "deposit" /\ record.steps[id] = verdict["deposit-funded"]
    /\ record.refusal # "none" => record.refusal = verdict["native-refusal"]

\* One signed blob per operation ID, for ever: no retry, restart or expiry
\* replaces it or its result (journal.ts:15).
OneBlob ==
    [][ \A id \in Ids : journal[id].status # "ABSENT" =>
          /\ journal'[id].status \notin {"ABSENT", "SIGNED"} \/ journal'[id] = journal[id]
          /\ journal'[id].amount = journal[id].amount
          /\ journal[id].result # "none" => journal'[id] = journal[id] ]_vars

\* A positive yield is recorded only for the whole honest history: the loan
\* was repaid, the refusal moved nothing, and the vault was emptied
\* (cycle.ts:213-231).
YieldIsEarned ==
    record.yield = "positive" =>
        Repaid /\ Succeeded("withdraw") /\ ~Succeeded("native-refusal") /\ VaultAvailable = 0

\* No rerun, restart or interrupted handler erases what the record knows; the
\* refused deposit alone gives way to the funded one (cycle.ts:112-117, 131).
RecordKeepsHistory ==
    [][ /\ record.vaultId => record'.vaultId
        /\ record.loanBrokerId => record'.loanBrokerId
        /\ record.requestId => record'.requestId
        /\ record.refusal # "none" => record'.refusal = record.refusal
        /\ record.yield # "none" => record'.yield = record.yield
        /\ \A id \in Ids : record.steps[id] # "none" =>
              \/ record'.steps[id] = record.steps[id]
              \/ id = "deposit" /\ record'.steps["deposit-funded"] = "tesSUCCESS" ]_vars

-----------------------------------------------------------------------------
(* Fairness: a handler goes on (every call times out), its 45 s deadline    *)
(* ends a wait, people keep repeating an operation, and a lookup repeated   *)
(* for ever is answered in the end.                                         *)
FairSpec ==
    /\ Spec
    /\ WF_vars(Step)
    /\ SF_vars(setup) /\ SF_vars(refusal) /\ SF_vars(repay) /\ SF_vars(withdraw)
    /\ SF_vars(lookupFinds)
    /\ SF_vars(store /\ handler'.pc = "idle")

Unjournaled ==
    {id \in Ids : /\ verdict[id] # "none" /\ journal[id].result = "none"
                  /\ ~(id = "native-refusal" /\ record.steps["repay"] # "none")}

\* Whatever the ledger decided is journaled in the end by repeating the same
\* operation, also after EXPIRED_UNRESOLVED; only the refusal cannot be
\* repeated once a repayment is on record (journal.ts:31-50, cycle.ts:177).
VerdictIsJournaled == (Unjournaled # {}) ~> (Unjournaled = {})

-----------------------------------------------------------------------------
\* cycle.ts:177: "Liquidity refusal must precede repayment".
RefusalPrecedesRepayment ==
    [][ "native-refusal" \notin sent /\ "native-refusal" \in sent' => "repay" \notin sent ]_vars
=============================================================================
