------------------------------- MODULE Cycle -------------------------------
(* The native cycle around one loan (src/xrpl/cycle.ts): set up a vault,    *)
(* prove that lent liquidity cannot be withdrawn, repay, withdraw. Each     *)
(* ledger operation goes through the durable Journal (requests/journal.ts), *)
(* which signs one blob per operation ID and sends that blob again until    *)
(* the ledger has decided. Handlers run one at a time under processLock;    *)
(* between any two awaits the ledger moves on or the process dies.          *)
(* Wallets, hashes and fees are abstracted; amounts are symbolic drops.     *)
EXTENDS Integers

CONSTANTS
    Deposit, Principal, Interest,   \* depositDrops, principalDrops, interest due
    MaxFaults                       \* bound on crashes and failed writes together

ASSUME AmountsAssumption ==
    /\ Deposit \in Nat /\ Principal \in Nat /\ Interest \in Nat
    /\ 0 < Principal /\ Principal <= Deposit /\ 0 < Interest
ASSUME FaultsAssumption == MaxFaults \in Nat

VARIABLES
    journal,    \* data/operations/<id>.json
    record,     \* data/cycles/native.json
    request,    \* the loan request: none, prepared, or funded and validated
    handler,    \* the operation in progress, with its copies of the files
    sent,       \* operation IDs whose blob the ledger may include
    verdict,    \* the ledger's validated result per operation ID
    passed,     \* operation IDs whose LastLedgerSequence has passed
    faults

vars == <<journal, record, request, handler, sent, verdict, passed, faults>>

Ids == {"vault", "deposit", "lender-topup", "deposit-funded", "broker", "cover",
        "native-refusal", "repay", "repay-late", "withdraw"}
Results == {"tesSUCCESS", "tecINSUFFICIENT_FUNDS", "tecEXPIRED", "tec"}

\* The ledger's own books, from what it has decided so far.
Succeeded(id) == verdict[id] = "tesSUCCESS"
Deposited == Succeeded("deposit") \/ Succeeded("deposit-funded")
Repaid == Succeeded("repay") \/ Succeeded("repay-late")
Withdrawn == (IF Succeeded("native-refusal") THEN Deposit ELSE 0)
           + (IF Succeeded("withdraw") THEN journal["withdraw"].amount ELSE 0)
VaultAvailable ==
    (IF Deposited THEN Deposit ELSE 0) + (IF Repaid THEN Principal + Interest ELSE 0)
    - (IF request = "funded" THEN Principal ELSE 0) - Withdrawn

Absent == [status |-> "ABSENT", amount |-> 0, result |-> "none"]
Signed(amount) == [Absent EXCEPT !.status = "SIGNED", !.amount = amount]

NoRecord ==
    [exists |-> FALSE, vaultId |-> FALSE, loanBrokerId |-> FALSE, requestId |-> FALSE,
     steps |-> [id \in Ids |-> "none"], refusal |-> "none", yield |-> "none"]

Idle == [op |-> "none", id |-> "vault", pc |-> "idle", amount |-> 0, file |-> Absent, rec |-> NoRecord]

Init ==
    /\ journal = [id \in Ids |-> Absent]
    /\ record = NoRecord
    /\ request = "none"
    /\ handler = Idle
    /\ sent = {}
    /\ verdict = [id \in Ids |-> "none"]
    /\ passed = {}
    /\ faults = 0

-----------------------------------------------------------------------------
(* The calls: each takes the free lock and reads the native record.         *)
Start(op, id, pc, amount, rec) ==
    /\ handler.pc = "idle"
    /\ handler' = [op |-> op, id |-> id, pc |-> pc, amount |-> amount, file |-> Absent, rec |-> rec]
    /\ UNCHANGED <<journal, record, request, sent, verdict, passed, faults>>

\* Mutant: a rerun of setup starts a fresh record.
setupAfresh == Start("setup", "vault", "begin", 0, [NoRecord EXCEPT !.exists = TRUE])

setup == Start("setup", "vault", "begin", 0, [record EXCEPT !.exists = TRUE])

prepareRequest ==
    /\ record.vaultId /\ record.loanBrokerId
    /\ Start("prepareRequest", "vault", IF request = "none" THEN "create" ELSE "bind", 0,
             [record EXCEPT !.requestId = TRUE])

refusal ==
    /\ record.vaultId /\ record.requestId /\ request = "funded"
    /\ record.steps["repay"] = "none"
    /\ Start("refusal", "native-refusal", "register", Deposit, record)

\* Mutant: an expired payment is replaced although its history is unresolved.
repayReplacing ==
    /\ record.requestId /\ request = "funded"
    /\ Start("repay", IF journal["repay"].result = "tecEXPIRED"
                         \/ journal["repay"].status = "EXPIRED_UNRESOLVED"
                      THEN "repay-late" ELSE "repay", "register", Principal + Interest, record)

\* A validated tecEXPIRED is resolved history and gets a separate late payment.
repay ==
    /\ record.requestId /\ request = "funded"
    /\ Start("repay", IF journal["repay"].result = "tecEXPIRED" THEN "repay-late" ELSE "repay",
             "register", Principal + Interest, record)

RepaidOnRecord == "tesSUCCESS" \in {record.steps["repay"], record.steps["repay-late"]}

\* Mutant: a rerun computes the amount again.
withdrawRecomputed ==
    /\ record.vaultId /\ RepaidOnRecord
    /\ Start("withdraw", "withdraw", "register", VaultAvailable, record)

\* A rerun asks for the amount the journal already holds.
withdraw ==
    /\ record.vaultId /\ RepaidOnRecord
    /\ Start("withdraw", "withdraw", "register",
             IF journal["withdraw"].status = "ABSENT" THEN VaultAvailable
             ELSE journal["withdraw"].amount, record)

-----------------------------------------------------------------------------
(* Journal.register and Journal.advance, one await at a time.               *)
Goto(pc) == handler' = [handler EXCEPT !.pc = pc]
Store(status, result) ==
    handler' = [handler EXCEPT !.pc = "store",
                               !.file = [journal[handler.id] EXCEPT !.status = status, !.result = result]]
At(pc) == handler.pc = pc
LedgerAlone == UNCHANGED <<sent, verdict, passed>>
FilesAlone == UNCHANGED <<journal, record, request>>

\* Mutant: an operation that has expired is signed again.
signAgain ==
    /\ At("register")
    /\ journal[handler.id].status \in {"ABSENT", "EXPIRED_UNRESOLVED"}
    /\ journal' = [journal EXCEPT ![handler.id] = Signed(handler.amount)]
    /\ Goto("lookup")
    /\ LedgerAlone /\ UNCHANGED <<record, request, faults>>

signOnce ==
    /\ At("register")
    /\ journal[handler.id].status = "ABSENT"
    /\ journal' = [journal EXCEPT ![handler.id] = Signed(handler.amount)]
    /\ Goto("lookup")
    /\ LedgerAlone /\ UNCHANGED <<record, request, faults>>

\* The ID is bound: the same intent goes on with the same blob.
registered ==
    /\ At("register")
    /\ journal[handler.id].status # "ABSENT"
    /\ journal[handler.id].amount = handler.amount
    /\ Goto("lookup")
    /\ LedgerAlone /\ FilesAlone /\ UNCHANGED faults

\* autofill fails, or the ID is bound to another intent: the handler throws.
registerThrows ==
    /\ At("register")
    /\ \/ journal[handler.id].status = "ABSENT"
       \/ journal[handler.id].amount # handler.amount
    /\ handler' = Idle
    /\ LedgerAlone /\ FilesAlone /\ UNCHANGED faults

answered ==
    /\ At("lookup")
    /\ journal[handler.id].result # "none"
    /\ Goto("record")
    /\ LedgerAlone /\ FilesAlone /\ UNCHANGED faults

\* Mutant: a preliminary result is taken for a validated one.
lookupPreliminary ==
    /\ At("lookup")
    /\ journal[handler.id].result = "none"
    /\ handler.id \in sent
    /\ Store("VALIDATED", "tesSUCCESS")
    /\ LedgerAlone /\ FilesAlone /\ UNCHANGED faults

lookupFinds ==
    /\ At("lookup")
    /\ journal[handler.id].result = "none"
    /\ verdict[handler.id] # "none"
    /\ Store("VALIDATED", verdict[handler.id])
    /\ LedgerAlone /\ FilesAlone /\ UNCHANGED faults

\* Not validated yet, or a server without the full history.
lookupMisses ==
    /\ At("lookup")
    /\ journal[handler.id].result = "none"
    /\ Goto("bound")
    /\ LedgerAlone /\ FilesAlone /\ UNCHANGED faults

\* Mutant: an expired operation gets a status no reader of the journal knows.
boundPassedAsRefused ==
    /\ At("bound")
    /\ handler.id \in passed
    /\ Store("EXPIRED", "none")
    /\ LedgerAlone /\ FilesAlone /\ UNCHANGED faults

boundPassed ==
    /\ At("bound")
    /\ handler.id \in passed
    /\ Store("EXPIRED_UNRESOLVED", "none")
    /\ LedgerAlone /\ FilesAlone /\ UNCHANGED faults

saveSubmitted ==
    /\ At("bound")
    /\ handler.id \notin passed
    /\ journal' = [journal EXCEPT ![handler.id].status = "SUBMITTED"]
    /\ Goto("submit")
    /\ LedgerAlone /\ UNCHANGED <<record, request, faults>>

\* The blob arrives or not, and the caller is told or not.
submit ==
    /\ At("submit")
    /\ sent' \in {sent, sent \cup {handler.id}}
    /\ Store("VALIDATION_UNKNOWN", "none")
    /\ FilesAlone /\ UNCHANGED <<verdict, passed, faults>>

\* advance's catch: any failing call, or the write of SUBMITTED.
advanceCatches ==
    /\ At("lookup") \/ At("bound")
    /\ journal[handler.id].result = "none"
    /\ Store("VALIDATION_UNKNOWN", "none")
    /\ LedgerAlone /\ FilesAlone /\ UNCHANGED faults

\* execute: done, given up as unresolved, tried again, or out of time.
store ==
    /\ At("store")
    /\ journal' = [journal EXCEPT ![handler.id] = handler.file]
    /\ IF handler.file.result # "none" THEN Goto("record")
       ELSE \/ handler.file.status # "EXPIRED_UNRESOLVED" /\ Goto("lookup")
            \/ handler' = Idle
    /\ LedgerAlone /\ UNCHANGED <<record, request, faults>>

-----------------------------------------------------------------------------
(* The cycle's own record, written at the same places as the code writes it.*)
Save(rec) ==
    /\ record' = rec
    /\ LedgerAlone /\ UNCHANGED <<journal, request, faults>>

begin ==
    /\ At("begin")
    /\ Save(handler.rec)
    /\ Goto("register")

create ==
    /\ At("create")
    /\ request' = "prepared"
    /\ Goto("bind")
    /\ LedgerAlone /\ UNCHANGED <<journal, record, faults>>

bind ==
    /\ At("bind")
    /\ Save(handler.rec)
    /\ handler' = Idle

\* step: the result is on record before it is judged.
recordStep ==
    /\ At("record") /\ handler.op # "refusal"
    /\ LET result == journal[handler.id].result
           rec == [handler.rec EXCEPT !.steps[handler.id] = result]
       IN  /\ Save(rec)
           /\ handler' = IF result = "tesSUCCESS"
                         THEN [handler EXCEPT !.pc = "after", !.rec = rec] ELSE Idle

recordRefusal ==
    /\ At("record") /\ handler.op = "refusal"
    /\ Save([handler.rec EXCEPT !.refusal = journal["native-refusal"].result])
    /\ handler' = Idle

\* Mutant: the yield is the proceeds, with no deposit subtracted.
RealisedProceeds(amount) == IF amount > 0 THEN "positive" ELSE "none or negative"

\* withdraw: proceeds of the withdrawal less the deposit.
Realised(amount) == IF amount > Deposit THEN "positive" ELSE "none or negative"

\* What the handler adds to its record once a step has succeeded.
After(id, rec) ==
    CASE id = "vault" -> [rec EXCEPT !.vaultId = TRUE]
      [] id = "broker" -> [rec EXCEPT !.loanBrokerId = TRUE]
      [] id = "deposit-funded" -> [rec EXCEPT !.steps["deposit"] = "tesSUCCESS"]
      [] id = "withdraw" -> [rec EXCEPT !.yield = Realised(journal["withdraw"].amount)]
      [] OTHER -> rec

LastOf == {"cover", "repay", "repay-late", "withdraw"}

\* Setup goes on in order, around a deposit the ledger has refused.
Follows(id) ==
    CASE id = "vault" -> IF journal["deposit"].result = "tecINSUFFICIENT_FUNDS"
                         THEN "lender-topup" ELSE "deposit"
      [] id = "lender-topup" -> "deposit-funded"
      [] id \in {"deposit", "deposit-funded"} -> "broker"
      [] id = "broker" -> "cover"

after ==
    /\ At("after")
    /\ LET rec == After(handler.id, handler.rec)
       IN  /\ Save(rec)
           /\ handler' = IF handler.id \in LastOf THEN Idle
                         ELSE [handler EXCEPT !.id = Follows(handler.id), !.pc = "register", !.rec = rec]

-----------------------------------------------------------------------------
(* The process, the ledger and the loan service around the cycle.           *)

\* A crash, a failed file write, or a ledger read that throws outside of
\* advance: the handler is gone, the files stay.
stop ==
    /\ handler.pc # "idle"
    /\ faults < MaxFaults
    /\ faults' = faults + 1
    /\ handler' = Idle
    /\ LedgerAlone /\ FilesAlone

\* What the ledger may answer to a blob it includes now.
Verdicts(id) ==
    CASE id = "native-refusal" ->
            IF VaultAvailable >= Deposit THEN {"tesSUCCESS"} ELSE {"tecINSUFFICIENT_FUNDS"}
      [] id = "withdraw" ->
            IF VaultAvailable >= journal[id].amount THEN {"tesSUCCESS"} ELSE {"tecINSUFFICIENT_FUNDS"}
      [] id = "deposit" -> {"tesSUCCESS", "tecINSUFFICIENT_FUNDS"}
      [] id = "repay" -> {"tesSUCCESS", "tecEXPIRED"}
      [] OTHER -> {"tesSUCCESS", "tec"}

validate(id) ==
    /\ id \in sent \ passed
    /\ verdict[id] = "none"
    /\ \E result \in Verdicts(id) : verdict' = [verdict EXCEPT ![id] = result]
    /\ FilesAlone /\ UNCHANGED <<handler, sent, passed, faults>>

boundPasses(id) ==
    /\ journal[id].status # "ABSENT"
    /\ verdict[id] = "none"
    /\ passed' = passed \cup {id}
    /\ FilesAlone /\ UNCHANGED <<handler, sent, verdict, faults>>

\* LendingService funds the loan and records its validation (see LendingService).
fundLoan ==
    /\ handler.pc = "idle"
    /\ request = "prepared" /\ Succeeded("cover") /\ VaultAvailable >= Principal
    /\ request' = "funded"
    /\ UNCHANGED <<journal, record, handler, sent, verdict, passed, faults>>

Calls == setup \/ prepareRequest \/ refusal \/ repay \/ withdraw

Step ==
    \/ signOnce \/ registered \/ registerThrows
    \/ answered \/ lookupFinds \/ lookupMisses \/ boundPassed \/ saveSubmitted \/ submit
    \/ advanceCatches \/ store
    \/ begin \/ create \/ bind \/ recordStep \/ recordRefusal \/ after

Next ==
    \/ Calls \/ Step \/ stop \/ fundLoan
    \/ \E id \in Ids : validate(id) \/ boundPasses(id)

Spec == Init /\ [][Next]_vars
=============================================================================
