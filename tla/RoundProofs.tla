----------------------------- MODULE RoundProofs -----------------------------
(* Machine-checked proofs about Round, for any number of crashes and failed *)
(* writes, in either deployment.                                            *)
EXTENDS RoundProperties, TLAPS

-----------------------------------------------------------------------------
(* The inductive invariant: what the records and the ledger say of one      *)
(* another, and what the job says of the records.                           *)
Loans ==
    [approvals : SUBSET Roles, attempt : Stages \cup {"none"},
     receipts : SUBSET Stages, phase : Signed \cup {"OPEN"}]
Records ==
    [refusal : {"none", "done", "failed"}, repay : {"none", "done", "failed"},
     withdraw : {"none", "done", "failed"}, yield : {"none", "positive", "none or negative"}]
Chains == [Operations \cup {"loan"} -> {"none", "sent", "done", "failed"}]

FactsType ==
    /\ loan \in Loans /\ steps \in Records /\ chain \in Chains
    /\ issued \in [Stages -> Nat] /\ handed \subseteq Stages

\* A charge is on record, as a receipt or as an unresolved attempt.
ChargesAreOnRecord ==
    \A stage \in Stages :
        /\ issued[stage] <= 1
        /\ issued[stage] = 1 => stage \in loan.receipts \/ loan.attempt = stage
        /\ stage \in loan.receipts => issued[stage] = 1

\* A receipt that somebody is to have sealed is an unresolved attempt, of terms
\* that are approved, and has not been charged for.
HandedAreMarked ==
    \A stage \in handed :
        /\ loan.attempt = stage /\ stage \notin loan.receipts
        /\ issued[stage] = 0 /\ Approved

\* The agreement's receipt precedes the signature, the signature whatever the
\* ledger has seen, and the loan the other receipt.
StagesFollow ==
    /\ chain["loan"] # "none" => loan.phase # "OPEN"
    /\ loan.phase # "OPEN" => Approved /\ "agreement" \in loan.receipts
    /\ loan.phase = "FUNDED" => chain["loan"] = "done"
    /\ loan.phase # "FUNDED" => loan.attempt # "execution" /\ issued["execution"] = 0

\* What the cycle records of the repayment and the proceeds is on the ledger.
CapitalIsTracked ==
    /\ steps.repay = "done" => chain["repay"] = "done"
    /\ steps.yield # "none" =>
          chain["withdraw"] = "done" /\ chain["repay"] = "done" /\ loan.phase = "FUNDED"
    /\ steps.yield = "positive" => chain["refusal"] # "done"
    /\ chain["withdraw"] # "failed"

Facts == FactsType /\ ChargesAreOnRecord /\ HandedAreMarked /\ StagesFollow /\ CapitalIsTracked

\* The end of the story, as far as the records tell it.
Told == loan.phase = "FUNDED" /\ loan.receipts = Stages /\ steps.yield = "positive"

JobFollows ==
    /\ job \in Finished \/ pending = "complete" => Told
    /\ QueuedIsApproved
    /\ job \in Settled \cup {"YIELD_CHECK_FAILED"} => loan.phase # "OPEN"
    /\ view.approvals \subseteq loan.approvals
    /\ pending # "none" => job \in {"queued", "running"}
    /\ site = "local" => job \notin {"queued", "running", "complete"}

\* Who may hold the lock, and what its checks have established.
CommandFollows ==
    /\ command.by = "nobody" <=> command.at = "rest"
    /\ command.by = "timer" => site = "local" /\ job \notin TerminalJobs \cup {"none"}
    /\ command.by = "worker" =>
          /\ site = "hosted" /\ job \in {"queued", "running"} /\ pending = "none"
          /\ command.at \in {"automatic", "signing"}
    /\ site = "local" => command.at \in {"rest", "signing"} /\ clock \cap {"intake", "match"} = {}
    /\ command.at \in {"automatic", "sign"} => command.fresh \/ Passed("consent")
    /\ command.at = "signing" => command.fresh /\ Approved /\ loan.phase = "OPEN"

IInv == TypeOK /\ Facts /\ JobFollows /\ CommandFollows

\* What no step takes back.
Progress ==
    /\ loan.approvals \subseteq loan'.approvals
    /\ loan.phase # "OPEN" => loan'.phase # "OPEN"
    /\ Told => Told'

-----------------------------------------------------------------------------
(* One lemma per call: it keeps the facts consistent and takes none back.   *)
LEMMA NothingKeepsFacts ==
    ASSUME Facts, UNCHANGED facts
    PROVE  Facts' /\ Progress
BY DEF facts, Facts, FactsType, ChargesAreOnRecord, HandedAreMarked, StagesFollow,
       CapitalIsTracked, Progress, Approved, Told

LEMMA ReceiptKeepsFacts ==
    ASSUME Facts, NEW stage \in Stages, NEW ok \in BOOLEAN, receipt(stage, ok)
    PROVE  Facts' /\ Progress
<1>1. steps' = steps /\ chain' = chain /\ handed' = handed BY DEF receipt
<1>2. loan \in Loans /\ issued \in [Stages -> Nat] BY DEF Facts, FactsType
<1>3. stage = "agreement" \/ (stage = "execution" /\ loan.phase = "FUNDED")
  BY DEF receipt, ReceiptDue, Stages
<1>4. CASE /\ stage \in loan.receipts
           /\ loan' = [loan EXCEPT !.attempt = IF @ = stage \/ stage = "execution" THEN "none" ELSE @]
           /\ UNCHANGED issued
  <2>1. /\ loan' \in Loans
        /\ loan'.approvals = loan.approvals /\ loan'.receipts = loan.receipts
        /\ loan'.phase = loan.phase
        /\ loan'.attempt = IF loan.attempt = stage \/ stage = "execution" THEN "none" ELSE loan.attempt
    BY <1>2, <1>4 DEF Loans
  <2>2. issued' = issued BY <1>4
  <2>3. ChargesAreOnRecord'
    BY <1>3, <1>4, <2>1, <2>2 DEF Facts, ChargesAreOnRecord, StagesFollow, Stages
  <2>4. StagesFollow' BY <1>1, <2>1, <2>2 DEF Facts, StagesFollow, Approved
  <2>5. HandedAreMarked'
    <3> SUFFICES ASSUME NEW other \in handed
                 PROVE  /\ loan'.attempt = other /\ other \notin loan'.receipts
                        /\ issued'[other] = 0 /\ Approved'
      BY <1>1 DEF HandedAreMarked
    <3>1. /\ loan.attempt = other /\ other \notin loan.receipts
          /\ issued[other] = 0 /\ Approved /\ other \in Stages
      BY DEF Facts, FactsType, HandedAreMarked
    <3>2. stage # "execution" BY <1>3, <1>4, <3>1 DEF Facts, StagesFollow, Stages
    <3> QED BY <1>4, <2>1, <2>2, <3>1, <3>2 DEF Approved
  <2>6. FactsType' /\ CapitalIsTracked' /\ Progress
    BY <1>1, <2>1, <2>2 DEF Facts, FactsType, CapitalIsTracked, Progress, Told
  <2> QED BY <2>3, <2>4, <2>5, <2>6 DEF Facts
<1>5. CASE stage \notin loan.receipts /\ loan.attempt = "none" /\ issue(stage, ok)
  <2>1. PICK charged \in BOOLEAN, stored \in BOOLEAN :
            /\ ok => stored
            /\ stored => charged
            /\ issued' = [issued EXCEPT ![stage] = @ + IF charged THEN 1 ELSE 0]
            /\ loan' = [loan EXCEPT !.attempt = IF ok THEN "none" ELSE stage,
                                    !.receipts = IF stored THEN @ \cup {stage} ELSE @]
    BY <1>5 DEF issue
  <2>2. /\ loan' \in Loans
        /\ loan'.approvals = loan.approvals /\ loan'.phase = loan.phase
        /\ loan'.receipts = IF stored THEN loan.receipts \cup {stage} ELSE loan.receipts
        /\ loan'.attempt = IF ok THEN "none" ELSE stage
    BY <1>2, <2>1 DEF Loans
  <2>3. issued[stage] = 0 BY <1>2, <1>5 DEF Facts, ChargesAreOnRecord, Stages
  <2>4. /\ issued' \in [Stages -> Nat]
        /\ issued'[stage] = IF charged THEN 1 ELSE 0
        /\ \A other \in Stages : other # stage => issued'[other] = issued[other]
    BY <1>2, <2>1, <2>3
  <2>5. ChargesAreOnRecord'
    <3> SUFFICES ASSUME NEW other \in Stages
                 PROVE  /\ issued'[other] <= 1
                        /\ issued'[other] = 1 => other \in loan'.receipts \/ loan'.attempt = other
                        /\ other \in loan'.receipts => issued'[other] = 1
      BY DEF ChargesAreOnRecord
    <3>1. CASE other = stage BY <1>5, <2>1, <2>2, <2>4, <3>1
    <3>2. CASE other # stage
      BY <1>5, <2>2, <2>4, <3>2 DEF Facts, ChargesAreOnRecord, Stages
    <3> QED BY <3>1, <3>2
  <2>6. StagesFollow'
    BY <1>1, <1>3, <2>2, <2>4 DEF Facts, StagesFollow, Approved, Stages
  <2>7. FactsType' /\ CapitalIsTracked'
    BY <1>1, <2>2, <2>4 DEF Facts, FactsType, CapitalIsTracked
  <2>8. Progress BY <1>1, <1>2, <2>2 DEF Progress, Told, Loans
  <2>9. HandedAreMarked'
    <3>1. handed = {} BY <1>2, <1>5 DEF Facts, FactsType, HandedAreMarked, Stages
    <3> QED BY <1>1, <3>1 DEF HandedAreMarked
  <2> QED BY <2>5, <2>6, <2>7, <2>8, <2>9 DEF Facts
<1> QED BY <1>4, <1>5 DEF receipt

LEMMA RecoverKeepsFacts ==
    ASSUME Facts, NEW stage \in Stages, recover(stage)
    PROVE  Facts' /\ Progress
<1>1. loan \in Loans /\ issued \in [Stages -> Nat] BY DEF Facts, FactsType
<1>2. steps' = steps /\ chain' = chain /\ issued' = issued /\ handed' = handed BY DEF recover
<1>3. /\ loan' \in Loans
      /\ loan'.approvals = loan.approvals /\ loan'.phase = loan.phase
      /\ loan'.attempt = "none" /\ loan'.receipts = loan.receipts \cup {stage}
  BY <1>1 DEF recover, Loans
<1>4. issued[stage] = 1 BY <1>1 DEF recover, Facts, ChargesAreOnRecord
<1>5. ChargesAreOnRecord'
  <2> SUFFICES ASSUME NEW other \in Stages
               PROVE  /\ issued[other] <= 1
                      /\ issued[other] = 1 => other \in loan'.receipts
                      /\ other \in loan'.receipts => issued[other] = 1
    BY <1>2, <1>3 DEF ChargesAreOnRecord
  <2>1. CASE other = stage BY <1>3, <1>4, <2>1
  <2>2. CASE other # stage
    <3>1. loan.attempt # other \/ other \in loan.receipts
      BY <2>2 DEF recover, Facts, StagesFollow, Stages
    <3> QED BY <1>3, <2>2, <3>1 DEF Facts, ChargesAreOnRecord
  <2> QED BY <2>1, <2>2
<1>6. StagesFollow' BY <1>2, <1>3 DEF Facts, StagesFollow, Approved
<1>7. FactsType' /\ CapitalIsTracked' BY <1>2, <1>3 DEF Facts, FactsType, CapitalIsTracked
<1>8. Progress BY <1>1, <1>2, <1>3 DEF Progress, Told, Loans
<1>9. HandedAreMarked'
  <2>1. handed = {}
    <3> SUFFICES ASSUME NEW other \in handed PROVE FALSE OBVIOUS
    <3>1. loan.attempt = other /\ other \notin loan.receipts /\ issued[other] = 0
      BY DEF Facts, HandedAreMarked
    <3>2. other \in Stages BY DEF Facts, FactsType
    <3>3. other # stage BY <1>4, <3>1
    <3> QED BY <3>1, <3>2, <3>3 DEF recover, Facts, StagesFollow, Stages
  <2> QED BY <1>2, <2>1 DEF HandedAreMarked
<1> QED BY <1>5, <1>6, <1>7, <1>8, <1>9 DEF Facts

LEMMA SignKeepsFacts ==
    ASSUME Facts, NEW ok \in BOOLEAN, sign(ok), Approved, loan.phase = "OPEN"
    PROVE  Facts' /\ Progress
<1>1. loan \in Loans BY DEF Facts, FactsType
<1>2. CASE ~ok /\ Nothing BY <1>2, NothingKeepsFacts DEF Nothing
<1>3. CASE "agreement" \in loan.receipts /\ loan' = [loan EXCEPT !.phase = "SIGNED"]
           /\ UNCHANGED <<steps, chain, issued, handed>>
  <2>1. /\ loan' \in Loans
        /\ loan'.approvals = loan.approvals /\ loan'.receipts = loan.receipts
        /\ loan'.attempt = loan.attempt /\ loan'.phase = "SIGNED"
    BY <1>1, <1>3 DEF Loans, Signed
  <2>2. ChargesAreOnRecord' BY <1>3, <2>1 DEF Facts, ChargesAreOnRecord
  <2>3. StagesFollow' BY <1>3, <2>1 DEF Facts, StagesFollow, Approved
  <2>4. HandedAreMarked' BY <1>3, <2>1 DEF Facts, HandedAreMarked, Approved
  <2>5. FactsType' /\ CapitalIsTracked' BY <1>3, <2>1 DEF Facts, FactsType, CapitalIsTracked
  <2>6. Progress BY <2>1 DEF Progress, Told
  <2> QED BY <2>2, <2>3, <2>4, <2>5, <2>6 DEF Facts
<1> QED BY <1>2, <1>3 DEF sign

\* A receipt is handed to a person, who has it sealed later.
LEMMA HandingKeepsFacts ==
    ASSUME Facts, NEW stage \in Stages, prepareExternalReceipt(stage)
    PROVE  Facts' /\ Progress
<1>1. loan \in Loans /\ handed \subseteq Stages BY DEF Facts, FactsType
<1>2. steps' = steps /\ chain' = chain /\ issued' = issued /\ handed' = handed \cup {stage}
  BY DEF prepareExternalReceipt
<1>3. /\ loan' \in Loans
      /\ loan'.approvals = loan.approvals /\ loan'.receipts = loan.receipts
      /\ loan'.attempt = stage /\ loan'.phase = loan.phase
  BY <1>1 DEF prepareExternalReceipt, Loans
<1>4. handed = {} /\ issued[stage] = 0
  <2>1. handed = {} BY <1>1 DEF prepareExternalReceipt, Facts, HandedAreMarked, Stages
  <2>2. issued[stage] = 0
    BY DEF prepareExternalReceipt, Facts, FactsType, ChargesAreOnRecord, Stages
  <2> QED BY <2>1, <2>2
<1>5. stage = "execution" => loan.phase = "FUNDED" BY DEF prepareExternalReceipt, ReceiptDue
<1>6. ChargesAreOnRecord'
  BY <1>2, <1>3 DEF prepareExternalReceipt, Facts, ChargesAreOnRecord, Stages
<1>7. Approved /\ stage \notin loan.receipts
  <2>1. stage = "agreement" => Approved BY DEF prepareExternalReceipt, ReceiptDue
  <2>2. stage = "execution" => Approved BY <1>5 DEF Facts, StagesFollow
  <2> QED BY <2>1, <2>2 DEF prepareExternalReceipt, Stages
<1>8. HandedAreMarked' BY <1>2, <1>3, <1>4, <1>7 DEF HandedAreMarked, Approved
<1>9. StagesFollow' BY <1>2, <1>3, <1>5 DEF Facts, StagesFollow, Approved, Stages
<1>10. FactsType' /\ CapitalIsTracked' BY <1>2, <1>3 DEF Facts, FactsType, CapitalIsTracked
<1>11. Progress BY <1>2, <1>3 DEF Progress, Told
<1> QED BY <1>6, <1>8, <1>9, <1>10, <1>11 DEF Facts

LEMMA SealingKeepsFacts ==
    ASSUME Facts, NEW stage \in Stages, sealByHand(stage)
    PROVE  Facts' /\ Progress
<1>1. issued \in [Stages -> Nat] BY DEF Facts, FactsType
<1>2. /\ loan' = loan /\ steps' = steps /\ chain' = chain /\ handed' = handed \ {stage}
      /\ stage \in handed
  BY DEF sealByHand
<1>3. /\ issued' \in [Stages -> Nat] /\ issued'[stage] = 1
      /\ \A other \in Stages : other # stage => issued'[other] = issued[other]
  BY <1>1, <1>2 DEF sealByHand, Facts, HandedAreMarked
<1>4. loan.attempt = stage BY <1>2 DEF Facts, HandedAreMarked
<1>5. ChargesAreOnRecord'
  <2> SUFFICES ASSUME NEW other \in Stages
               PROVE  /\ issued'[other] <= 1
                      /\ issued'[other] = 1 => other \in loan.receipts \/ loan.attempt = other
                      /\ other \in loan.receipts => issued'[other] = 1
    BY <1>2 DEF ChargesAreOnRecord
  <2>1. CASE other = stage BY <1>3, <1>4, <2>1
  <2>2. CASE other # stage BY <1>3, <2>2 DEF Facts, ChargesAreOnRecord
  <2> QED BY <2>1, <2>2
<1>6. HandedAreMarked' BY <1>2, <1>3 DEF Facts, FactsType, HandedAreMarked, Approved
<1>7. StagesFollow'
  BY <1>2, <1>3, <1>4 DEF Facts, StagesFollow, Approved, Stages
<1>8. FactsType' /\ CapitalIsTracked' BY <1>2, <1>3 DEF Facts, FactsType, CapitalIsTracked
<1>9. Progress BY <1>2 DEF Progress, Told
<1> QED BY <1>5, <1>6, <1>7, <1>8, <1>9 DEF Facts

LEMMA AdvanceKeepsFacts ==
    ASSUME Facts, NEW ok \in BOOLEAN, advance(ok)
    PROVE  Facts' /\ Progress
<1>1. loan \in Loans /\ chain \in Chains BY DEF Facts, FactsType
<1>2. steps' = steps /\ issued' = issued /\ handed' = handed /\ loan.phase \notin {"OPEN", "FUNDED"}
  BY DEF advance, Signed, Settled
<1>3. PICK phase \in {"FUNDED", "REJECTED", "EXPIRED_UNRESOLVED", "SUBMITTED"} :
          /\ loan' = [loan EXCEPT !.phase = phase]
          /\ phase = "FUNDED" => chain["loan"] = "done" /\ chain' = chain
          /\ chain' \in {chain, [chain EXCEPT !["loan"] = IF @ = "none" THEN "sent" ELSE @]}
  <2>1. CASE chain["loan"] = "done" BY <2>1 DEF advance
  <2>2. CASE chain["loan"] # "done" BY <2>2 DEF advance
  <2> QED BY <2>1, <2>2
<1>4. /\ loan' \in Loans
      /\ loan'.approvals = loan.approvals /\ loan'.receipts = loan.receipts
      /\ loan'.attempt = loan.attempt /\ loan'.phase = phase
  BY <1>1, <1>3 DEF Loans, Signed, Settled
<1>5. /\ chain' \in Chains
      /\ \A op \in Operations : chain'[op] = chain[op]
  BY <1>1, <1>3 DEF Chains, Operations
<1>6. ChargesAreOnRecord' BY <1>2, <1>4 DEF Facts, ChargesAreOnRecord
<1>7. StagesFollow' BY <1>2, <1>3, <1>4 DEF Facts, StagesFollow, Approved
<1>8. CapitalIsTracked' BY <1>2, <1>4, <1>5 DEF Facts, CapitalIsTracked, Operations
<1>9. FactsType' /\ Progress BY <1>2, <1>3, <1>4, <1>5 DEF Facts, FactsType, Progress, Told
<1>10. HandedAreMarked' BY <1>2, <1>4 DEF Facts, HandedAreMarked, Approved
<1> QED BY <1>6, <1>7, <1>8, <1>9, <1>10 DEF Facts

LEMMA OperateKeepsFacts ==
    ASSUME Facts, NEW op \in Operations, NEW ok \in BOOLEAN, operate(op, ok)
    PROVE  /\ Facts' /\ Progress
           /\ ok /\ op = "withdraw" => steps'.yield = "positive"
<1>1. steps \in Records /\ chain \in Chains BY DEF Facts, FactsType
<1>2. loan' = loan /\ issued' = issued /\ handed' = handed /\ loan.phase = "FUNDED"
  BY DEF operate, Allowed
<1>3. ChargesAreOnRecord' /\ HandedAreMarked'
  BY <1>2 DEF Facts, ChargesAreOnRecord, HandedAreMarked, Approved
<1>4. CASE ~ok /\ chain[op] = "none" /\ chain' = [chain EXCEPT ![op] = "sent"] /\ UNCHANGED steps
  <2>1. chain' \in Chains /\ \A id \in Operations \cup {"loan"} : id # op => chain'[id] = chain[id]
    BY <1>1, <1>4 DEF Chains
  <2>2. chain'[op] = "sent" /\ op # "loan" BY <1>1, <1>4 DEF Chains, Operations
  <2>3. StagesFollow' BY <1>2, <2>1, <2>2 DEF Facts, StagesFollow, Approved
  <2>4. CapitalIsTracked' BY <1>2, <1>4, <2>1, <2>2 DEF Facts, CapitalIsTracked, Operations
  <2>5. FactsType' /\ Progress BY <1>2, <1>4, <2>1 DEF Facts, FactsType, Progress, Told
  <2> QED BY <1>3, <1>4, <2>3, <2>4, <2>5 DEF Facts
<1>5. CASE \E fate \in Found(op), yield \in Yields :
             /\ chain' = [chain EXCEPT ![op] = fate]
             /\ IF op = "withdraw"
                THEN /\ steps.yield \in {"none", yield}
                     /\ steps' = [steps EXCEPT ![op] = fate, !.yield = yield]
                ELSE steps' = [steps EXCEPT ![op] = fate]
             /\ ok <=> Expected(op, fate, yield)
  <2>1. PICK fate \in Found(op), yield \in Yields :
             /\ chain' = [chain EXCEPT ![op] = fate]
             /\ IF op = "withdraw"
                THEN /\ steps.yield \in {"none", yield}
                     /\ steps' = [steps EXCEPT ![op] = fate, !.yield = yield]
                ELSE steps' = [steps EXCEPT ![op] = fate]
             /\ ok <=> Expected(op, fate, yield)
    BY <1>5
  <2>2. yield \in {"positive", "none or negative"} /\ (yield = "positive" => chain["refusal"] # "done")
    BY <2>1 DEF Yields
  <2>3. chain' \in Chains /\ chain'[op] = fate /\ fate \in {"done", "failed"}
        /\ \A id \in Operations \cup {"loan"} : id # op => chain'[id] = chain[id]
    BY <1>1, <2>1 DEF Chains, Found, Fates, Operations
  <2>4. CASE op = "withdraw"
    <3>1. fate = "done" BY <2>1, <2>4 DEF Found, Fates, Facts, CapitalIsTracked
    <3>2. /\ steps' \in Records
          /\ steps'.repay = steps.repay /\ steps'.yield = yield /\ steps.yield \in {"none", yield}
      BY <1>1, <2>1, <2>2, <2>3, <2>4 DEF Records
    <3>3. steps.repay = "done" BY <2>4 DEF operate, Allowed
    <3>4. CapitalIsTracked'
      BY <1>2, <2>2, <2>3, <2>4, <3>1, <3>2, <3>3 DEF Facts, CapitalIsTracked, Operations
    <3>5. ok => yield = "positive" BY <2>1, <2>4 DEF Expected
    <3>6. StagesFollow' BY <1>2, <2>3, <2>4 DEF Facts, StagesFollow, Approved, Operations
    <3>7. FactsType' /\ Progress BY <1>2, <2>2, <2>3, <3>2 DEF Facts, FactsType, Progress, Told
    <3> QED BY <1>3, <3>2, <3>4, <3>5, <3>6, <3>7 DEF Facts
  <2>5. CASE op = "repay"
    <3>1. chain["repay"] = "done" => fate = "done" BY <2>1, <2>5 DEF Found
    <3>2. steps' \in Records /\ steps'.repay = fate /\ steps'.yield = steps.yield
      BY <1>1, <2>1, <2>3, <2>5 DEF Records
    <3>3. CapitalIsTracked'
      BY <1>2, <2>3, <2>5, <3>1, <3>2 DEF Facts, CapitalIsTracked, Operations
    <3>4. StagesFollow' BY <1>2, <2>3, <2>5 DEF Facts, StagesFollow, Approved, Operations
    <3>5. FactsType' /\ Progress BY <1>2, <2>3, <3>2 DEF Facts, FactsType, Progress, Told
    <3> QED BY <1>3, <2>5, <3>3, <3>4, <3>5 DEF Facts
  <2>6. CASE op = "refusal"
    <3>1. chain["withdraw"] = "done" /\ chain["refusal"] # "done" => fate # "done"
      BY <2>1, <2>6 DEF Found, Fates
    <3>2. steps' \in Records /\ steps'.repay = steps.repay /\ steps'.yield = steps.yield
      BY <1>1, <2>1, <2>3, <2>6 DEF Records
    <3>3. CapitalIsTracked'
      BY <1>2, <2>3, <2>6, <3>1, <3>2 DEF Facts, CapitalIsTracked, Operations
    <3>4. StagesFollow' BY <1>2, <2>3, <2>6 DEF Facts, StagesFollow, Approved, Operations
    <3>5. FactsType' /\ Progress BY <1>2, <2>3, <3>2 DEF Facts, FactsType, Progress, Told
    <3> QED BY <1>3, <2>6, <3>3, <3>4, <3>5 DEF Facts
  <2> QED BY <2>4, <2>5, <2>6 DEF Operations
<1> QED BY <1>4, <1>5 DEF operate

\* One step of the automatic round, whatever it is.
LEMMA AutomaticKeepsFacts ==
    ASSUME Facts, NEW ok \in BOOLEAN, advanceAutomaticRound(ok)
    PROVE  Facts' /\ Progress
<1>1. CASE NextStep \in Stages /\ receipt(NextStep, ok) BY <1>1, ReceiptKeepsFacts
<1>2. CASE NextStep \in Operations /\ operate(NextStep, ok) BY <1>2, OperateKeepsFacts
<1>3. CASE advance(ok) BY <1>3, AdvanceKeepsFacts
<1>4. CASE Nothing BY <1>4, NothingKeepsFacts DEF Nothing
<1> QED BY <1>1, <1>2, <1>3, <1>4 DEF advanceAutomaticRound

\* What a step that returns says of the records it leaves behind.
LEMMA ReturnedFollows ==
    ASSUME Facts, advanceAutomaticRound(TRUE)
    PROVE  /\ Returned \in TerminalJobs \cup {"WAITING_FOR_APPROVALS", "WORKING"}
           /\ Returned # "PAUSED"
           /\ Returned = "COMPLETE" => Told'
           /\ Returned \in Settled \cup {"YIELD_CHECK_FAILED"} => loan.phase # "OPEN"
           /\ Approved => Returned # "WAITING_FOR_APPROVALS"
           /\ Returned = "WORKING" => Approved
<1>1. Facts' /\ Progress BY AutomaticKeepsFacts
<1>2. loan \in Loans /\ steps \in Records BY DEF Facts, FactsType
<1>3. NextStep \in {"approvals", "settled", "agreement", "sign", "advance", "execution", "yield",
                    "refusal", "halt", "repay", "wait", "withdraw"}
  BY DEF NextStep
<1>4. NextStep = "approvals" <=> ~Approved BY DEF NextStep
<1>5. NextStep = "settled" => loan.phase \in Settled BY DEF NextStep
<1>6. NextStep \in {"yield", "withdraw"} => loan.phase = "FUNDED" /\ "execution" \in loan.receipts
  BY <1>2 DEF NextStep, Loans, Signed
<1>7. NextStep \in {"yield", "withdraw"} => loan.phase = "FUNDED" /\ loan.receipts = Stages
  BY <1>2, <1>6 DEF Facts, StagesFollow, Loans, Stages
<1>8. CASE NextStep = "withdraw"
  <2>1. operate("withdraw", TRUE)
    BY <1>8 DEF advanceAutomaticRound, Stages, Operations
  <2>2. steps'.yield = "positive" /\ loan' = loan
    BY <2>1, OperateKeepsFacts DEF Operations, operate
  <2>3. Told' BY <1>7, <1>8, <2>2 DEF Told
  <2> QED BY <1>4, <1>8, <2>3 DEF Returned, TerminalJobs, Settled
<1>9. CASE NextStep = "yield"
  <2>1. steps.yield = "positive" => Told' BY <1>1, <1>7, <1>9 DEF Told, Progress
  <2> QED BY <1>4, <1>7, <1>9, <2>1 DEF Returned, TerminalJobs, Settled
<1>10. CASE NextStep = "settled"
  BY <1>4, <1>5, <1>10 DEF Returned, TerminalJobs, Settled
<1>11. CASE NextStep \notin {"withdraw", "yield", "settled"}
  BY <1>4, <1>11 DEF Returned, TerminalJobs, Settled
<1> QED BY <1>8, <1>9, <1>10, <1>11

\* A round that is signed for has not come to its end with that.
LEMMA SigningReturns ==
    ASSUME Approved, loan.phase = "OPEN"
    PROVE  Returned = "WORKING"
<1>1. NextStep \in {"agreement", "sign"} BY DEF NextStep, Settled
<1> QED BY <1>1 DEF Returned

-----------------------------------------------------------------------------
(* The steps of the specification.                                          *)
LEMMA InitIsSound == Init => IInv
<1> SUFFICES ASSUME Init PROVE IInv OBVIOUS
<1>1. FactsType
  BY DEF Init, FactsType, Loans, Records, Chains, Signed, Roles, Stages, Operations
<1>2. ChargesAreOnRecord /\ HandedAreMarked /\ StagesFollow /\ CapitalIsTracked
  BY DEF Init, ChargesAreOnRecord, HandedAreMarked, StagesFollow, CapitalIsTracked, Stages,
         Operations
<1>3. JobFollows
  BY DEF Init, JobFollows, QueuedIsApproved, Finished, Active, Settled, TerminalJobs, Unread
<1>4. CommandFollows BY DEF Init, CommandFollows, Nobody
<1>5. TypeOK
  BY <1>1, FaultsAssumption
     DEF Init, TypeOK, FactsType, Loans, Records, Chains, TerminalJobs, Active, Deadlines, Nobody,
         Unread
<1> QED BY <1>1, <1>2, <1>3, <1>4, <1>5 DEF IInv, Facts

\* A job that does not change still says what is true after the step.
LEMMA JobStillFollows ==
    ASSUME JobFollows, Facts, Progress, UNCHANGED <<site, job, pending>>,
           view'.approvals \subseteq loan'.approvals, loan'.approvals \subseteq Roles
    PROVE  JobFollows'
<1>1. Approved => Approved' BY DEF Progress, Approved
<1>2. QueuedIsApproved' BY <1>1 DEF JobFollows, QueuedIsApproved
<1>3. Told => Told' BY DEF Progress
<1>4. loan.phase # "OPEN" => loan'.phase # "OPEN" BY DEF Progress
<1> QED BY <1>2, <1>3, <1>4 DEF JobFollows

\* Nobody holds the lock after the step.
LEMMA NobodyFollows ==
    ASSUME command' = Nobody, site' = "local" => clock' \cap {"intake", "match"} = {}
    PROVE  CommandFollows'
BY DEF CommandFollows, Nobody

\* What every step has to say of the types.
LEMMA TypesFollow ==
    ASSUME Facts', site' \in {"local", "hosted"},
           job' \in TerminalJobs \cup Active \cup {"none", "paused", "complete"},
           pending' \in {"none", "paused", "complete", "running"},
           view' \in [approvals : SUBSET Roles, signed : BOOLEAN], clock' \subseteq Deadlines,
           command' \in [by : {"nobody", "timer", "worker", "operator"},
                         at : Roles \cup {"rest", "sign", "automatic", "submit", "signing"},
                         fresh : BOOLEAN],
           stale' \subseteq {"writer", "worker"}, faults' \in Nat
    PROVE  TypeOK'
BY DEF Facts, FactsType, Loans, Records, Chains, TypeOK

\* A step that changes the facts, a lock or the clock only.
LEMMA TypesStay ==
    ASSUME TypeOK, Facts', UNCHANGED <<site, job, pending, view, command, faults>>,
           clock' \subseteq Deadlines, stale' \subseteq stale
    PROVE  TypeOK'
<1>1. /\ site \in {"local", "hosted"}
      /\ job \in TerminalJobs \cup Active \cup {"none", "paused", "complete"}
      /\ pending \in {"none", "paused", "complete", "running"}
      /\ view \in [approvals : SUBSET Roles, signed : BOOLEAN]
      /\ command \in [by : {"nobody", "timer", "worker", "operator"},
                      at : Roles \cup {"rest", "sign", "automatic", "submit", "signing"},
                      fresh : BOOLEAN]
      /\ stale \subseteq {"writer", "worker"}
      /\ faults \in Nat
  BY DEF TypeOK
<1>2. /\ site' = site /\ job' = job /\ pending' = pending /\ view' = view
      /\ command' = command /\ faults' = faults /\ stale' \subseteq {"writer", "worker"}
  BY <1>1
<1> QED BY <1>1, <1>2, TypesFollow

\* What a publication makes of the hosted view.
LEMMA PublicationKeepsView ==
    ASSUME TypeOK, Facts', JobFollows, loan.approvals \subseteq loan'.approvals,
           view' \in {view, Publication}
    PROVE  /\ view' \in [approvals : SUBSET Roles, signed : BOOLEAN]
           /\ view'.approvals \subseteq loan'.approvals
<1>1. loan' \in Loans BY DEF Facts, FactsType
<1>2. CASE view' = view BY <1>2 DEF TypeOK, JobFollows
<1>3. CASE view' = Publication BY <1>1, <1>3 DEF Loans, Publication, Unread
<1> QED BY <1>2, <1>3

\* An approval, on either path.
LEMMA ApprovalKeepsFacts ==
    ASSUME Facts, NEW role \in Roles, approve(role)
    PROVE  Facts' /\ Progress
<1>1. loan \in Loans BY DEF Facts, FactsType
<1>2. /\ loan' \in Loans
      /\ loan'.approvals = loan.approvals \cup {role} /\ loan'.receipts = loan.receipts
      /\ loan'.attempt = loan.attempt /\ loan'.phase = "OPEN" /\ loan.phase = "OPEN"
  BY <1>1 DEF approve, Loans
<1>3. steps' = steps /\ chain' = chain /\ issued' = issued /\ handed' = handed BY DEF approve
<1>4. ChargesAreOnRecord' BY <1>2, <1>3 DEF Facts, ChargesAreOnRecord
<1>5. StagesFollow' /\ CapitalIsTracked'
  BY <1>2, <1>3 DEF Facts, StagesFollow, CapitalIsTracked
<1>6. HandedAreMarked'
  BY <1>2, <1>3 DEF Facts, HandedAreMarked, Approved
<1>7. FactsType' BY <1>2, <1>3 DEF Facts, FactsType
<1>8. Progress BY <1>2 DEF Progress, Told
<1> QED BY <1>4, <1>5, <1>6, <1>7, <1>8 DEF Facts

LEMMA FaultEffect ==
    ASSUME stale \subseteq {"writer", "worker"}, faults \in Nat,
           NEW left, left \subseteq {"writer", "worker"}, fault(left)
    PROVE  stale' \subseteq {"writer", "worker"} /\ faults' \in Nat
BY DEF fault

\* A job's file is written or left; a call ends or its process dies.
LEMMA WriteJobEffect ==
    ASSUME TypeOK, NEW status, writeJob(status)
    PROVE  job' \in {job, status} /\ stale' \subseteq {"writer", "worker"} /\ faults' \in Nat
<1>1. stale \subseteq {"writer", "worker"} /\ faults \in Nat BY DEF TypeOK
<1>2. CASE job' = status /\ lives BY <1>1, <1>2 DEF lives
<1>3. CASE UNCHANGED job /\ \E left \in SUBSET {"writer"} : fault(left)
  BY <1>1, <1>3, FaultEffect
<1> QED BY <1>2, <1>3 DEF writeJob

LEMMA CallEndsEffect ==
    ASSUME TypeOK, callEnds
    PROVE  stale' \subseteq {"writer", "worker"} /\ faults' \in Nat
<1>1. stale \subseteq {"writer", "worker"} /\ faults \in Nat BY DEF TypeOK
<1>2. CASE lives BY <1>1, <1>2 DEF lives
<1>3. CASE fault({"writer"}) BY <1>1, <1>3, FaultEffect
<1> QED BY <1>2, <1>3 DEF callEnds

\* A call on the local server that ends, with what it has stored as the job.
LEMMA LocalKeeps ==
    ASSUME IInv, Local, Facts', Progress, command' = Nobody,
           stale' \subseteq {"writer", "worker"}, faults' \in Nat,
           NEW status \in TerminalJobs \cup {"WAITING_FOR_APPROVALS", "WORKING", "QUEUED"},
           job' \in {job, status},
           status = "COMPLETE" => Told',
           status \in Settled \cup {"YIELD_CHECK_FAILED"} => loan.phase # "OPEN",
           status \in {"WORKING", "QUEUED"} => Approved
    PROVE  IInv'
<1>1. UNCHANGED <<site, pending, view, clock>> /\ site = "local" BY DEF Local
<1>2. pending = "none" /\ job \notin {"queued", "running", "complete"}
  BY <1>1 DEF IInv, JobFollows
<1>3. TypeOK'
  BY <1>1, TypesFollow DEF IInv, TypeOK, Active, Nobody
<1>4. /\ Approved => Approved'
      /\ view'.approvals \subseteq loan'.approvals /\ loan'.approvals \subseteq Roles
  <2>1. loan'.approvals \subseteq Roles BY DEF Facts, FactsType, Loans
  <2>2. view'.approvals \subseteq loan'.approvals BY <1>1 DEF IInv, JobFollows, Progress
  <2> QED BY <2>1, <2>2 DEF Progress, Approved
<1>5. CommandFollows' BY <1>1, NobodyFollows DEF IInv, CommandFollows
<1>6. CASE job' = job
  <2>1. JobFollows' BY <1>1, <1>4, <1>6, JobStillFollows DEF IInv
  <2> QED BY <1>3, <1>5, <2>1 DEF IInv
<1>7. CASE job' = status
  <2>1. job' \in Settled \cup {"YIELD_CHECK_FAILED"} => loan'.phase # "OPEN"
    BY <1>7 DEF Progress
  <2>2. /\ job' \notin {"queued", "running", "complete"}
        /\ job' \in Active => job' \in {"WAITING_FOR_APPROVALS", "WORKING", "QUEUED"}
    BY <1>7 DEF TerminalJobs, Settled, Active
  <2>3. pending' = "none" BY <1>1, <1>2
  <2>4. QueuedIsApproved' BY <1>4, <1>7, <2>2, <2>3 DEF QueuedIsApproved
  <2>5. job' \in Finished \/ pending' = "complete" => Told'
    BY <1>7, <2>2, <2>3 DEF Finished
  <2>6. JobFollows' BY <1>4, <2>1, <2>2, <2>3, <2>4, <2>5 DEF JobFollows
  <2> QED BY <1>3, <1>5, <2>6 DEF IInv
<1> QED BY <1>6, <1>7

\* The timer or the operator has the lock for a signature.
LEMMA LocalBeginKeeps ==
    ASSUME IInv, Local, Nothing, UNCHANGED job, lives, MaySign, Free, NEW by, begins(by, "signing"),
           by = "operator" \/ (by = "timer" /\ job \notin TerminalJobs \cup {"none"})
    PROVE  IInv' /\ Progress
<1>1. Facts' /\ Progress /\ UNCHANGED facts BY NothingKeepsFacts DEF Nothing, IInv
<1>2. UNCHANGED <<site, pending, view, clock, job, stale, faults>> /\ site = "local"
  BY DEF Local, lives
<1>3. clock \cap OfSignature = {}
  BY <1>2 DEF IInv, CommandFollows, MaySign, Passed, OfSignature
<1>4. command' = [by |-> by, at |-> "signing", fresh |-> TRUE] BY <1>3 DEF begins
<1>5. Approved' /\ loan'.phase = "OPEN" BY <1>1 DEF facts, MaySign, Approved
<1>6. CommandFollows' BY <1>2, <1>4, <1>5 DEF IInv, CommandFollows
<1>7. TypeOK' BY <1>1, <1>2, <1>4, TypesFollow DEF IInv, TypeOK
<1>8. JobFollows'
  BY <1>1, <1>2, JobStillFollows DEF facts, IInv, JobFollows, Facts, FactsType, Loans
<1> QED BY <1>1, <1>6, <1>7, <1>8 DEF IInv

LEMMA ApproveLocallyKeeps ==
    ASSUME IInv, NEW role \in Roles, approveLocally(role)
    PROVE  IInv' /\ Progress
<1>1. Facts' /\ Progress BY ApprovalKeepsFacts DEF approveLocally, IInv
<1>2. Local /\ command' = Nobody BY DEF approveLocally, Free
<1>3. /\ job' \in {job, "WAITING_FOR_APPROVALS"}
      /\ stale' \subseteq {"writer", "worker"} /\ faults' \in Nat
  BY WriteJobEffect DEF approveLocally, IInv
<1> QED BY <1>1, <1>2, <1>3, LocalKeeps DEF Settled

LEMMA RunKeeps ==
    ASSUME IInv, run
    PROVE  IInv' /\ Progress
<1>1. Facts' /\ Progress BY NothingKeepsFacts DEF run, Nothing, IInv
<1>2. Local /\ command' = Nobody /\ Approved BY DEF run, Free
<1>3. job' \in {job, "QUEUED"} /\ stale' \subseteq {"writer", "worker"} /\ faults' \in Nat
  BY WriteJobEffect DEF run, IInv
<1> QED BY <1>1, <1>2, <1>3, LocalKeeps DEF Settled

LEMMA AutomaticTickKeeps ==
    ASSUME IInv, automaticTick
    PROVE  IInv' /\ Progress
<1>1. Local /\ Free /\ job \notin TerminalJobs \cup {"none"} BY DEF automaticTick
<1>2. CASE Nothing /\ writeJob("PAUSED") /\ UNCHANGED command
  <2>1. Facts' /\ Progress BY <1>2, NothingKeepsFacts DEF Nothing, IInv
  <2>2. job' \in {job, "PAUSED"} /\ stale' \subseteq {"writer", "worker"} /\ faults' \in Nat
    BY <1>2, WriteJobEffect DEF IInv
  <2>3. command' = Nobody BY <1>1, <1>2 DEF Free
  <2> QED BY <1>1, <2>1, <2>2, <2>3, LocalKeeps DEF TerminalJobs, Settled
<1>3. CASE MaySign /\ begins("timer", "signing") /\ Nothing /\ UNCHANGED job /\ lives
  BY <1>1, <1>3, LocalBeginKeeps
<1>4. CASE advanceAutomaticRound(FALSE) /\ writeJob("PAUSED") /\ UNCHANGED command
  <2>1. Facts' /\ Progress BY <1>4, AutomaticKeepsFacts DEF IInv
  <2>2. job' \in {job, "PAUSED"} /\ stale' \subseteq {"writer", "worker"} /\ faults' \in Nat
    BY <1>4, WriteJobEffect DEF IInv
  <2>3. command' = Nobody BY <1>1, <1>4 DEF Free
  <2> QED BY <1>1, <2>1, <2>2, <2>3, LocalKeeps DEF TerminalJobs, Settled
<1>5. CASE advanceAutomaticRound(TRUE) /\ writeJob(Returned) /\ UNCHANGED command
  <2>1. Facts' /\ Progress BY <1>5, AutomaticKeepsFacts DEF IInv
  <2>2. job' \in {job, Returned} /\ stale' \subseteq {"writer", "worker"} /\ faults' \in Nat
    BY <1>5, WriteJobEffect DEF IInv
  <2>3. command' = Nobody BY <1>1, <1>5 DEF Free
  <2>4. /\ Returned \in TerminalJobs \cup {"WAITING_FOR_APPROVALS", "WORKING"}
        /\ Returned = "COMPLETE" => Told'
        /\ Returned \in Settled \cup {"YIELD_CHECK_FAILED"} => loan.phase # "OPEN"
        /\ Returned = "WORKING" => Approved
    BY <1>5, ReturnedFollows DEF IInv
  <2>5. Returned # "QUEUED" BY <2>4 DEF TerminalJobs, Settled
  <2> QED BY <1>1, <2>1, <2>2, <2>3, <2>4, <2>5, LocalKeeps
<1>6. PICK ok \in BOOLEAN :
         \/ Nothing /\ writeJob("PAUSED") /\ UNCHANGED command
         \/ MaySign /\ begins("timer", "signing") /\ Nothing /\ UNCHANGED job /\ lives
         \/ /\ advanceAutomaticRound(ok)
            /\ writeJob(IF ok THEN Returned ELSE "PAUSED")
            /\ UNCHANGED command
  BY DEF automaticTick
<1> QED BY <1>2, <1>3, <1>4, <1>5, <1>6

LEMMA ByHandLocallyKeeps ==
    ASSUME IInv, byHandLocally
    PROVE  IInv' /\ Progress
<1>1. Local /\ Free /\ UNCHANGED job BY DEF byHandLocally
<1>2. ASSUME Facts', Progress, callEnds, UNCHANGED command PROVE IInv' /\ Progress
  <2>1. command' = Nobody BY <1>1, <1>2 DEF Free
  <2>2. stale' \subseteq {"writer", "worker"} /\ faults' \in Nat BY <1>2, CallEndsEffect DEF IInv
  <2>3. "PAUSED" \in TerminalJobs /\ "PAUSED" \notin Settled BY DEF TerminalJobs, Settled
  <2> QED BY <1>1, <1>2, <2>1, <2>2, <2>3, LocalKeeps
<1>3. CASE MaySign /\ begins("operator", "signing") /\ Nothing /\ lives
  BY <1>1, <1>3, LocalBeginKeeps
<1>4. CASE \E ok \in BOOLEAN, stage \in Stages : receipt(stage, ok) /\ callEnds /\ UNCHANGED command
  BY <1>2, <1>4, ReceiptKeepsFacts DEF IInv
<1>5. CASE \E ok \in BOOLEAN : advance(ok) /\ callEnds /\ UNCHANGED command
  BY <1>2, <1>5, AdvanceKeepsFacts DEF IInv
<1>6. CASE \E ok \in BOOLEAN, op \in Operations : operate(op, ok) /\ callEnds /\ UNCHANGED command
  BY <1>2, <1>6, OperateKeepsFacts DEF IInv
<1>7. CASE \E stage \in Stages : recover(stage) /\ callEnds /\ UNCHANGED command
  BY <1>2, <1>7, RecoverKeepsFacts DEF IInv
<1>8. CASE Nothing /\ callEnds /\ UNCHANGED command
  BY <1>2, <1>8, NothingKeepsFacts DEF IInv, Nothing
<1> QED BY <1>3, <1>4, <1>5, <1>6, <1>7, <1>8 DEF byHandLocally

LEMMA SignsLocallyKeeps ==
    ASSUME IInv, signsLocally
    PROVE  IInv' /\ Progress
<1>1. PICK ok \in BOOLEAN :
          /\ sign(ok)
          /\ IF command.by = "timer" THEN writeJob(IF ok THEN Returned ELSE "PAUSED")
                                     ELSE UNCHANGED job /\ callEnds
  BY DEF signsLocally
<1>2. Local /\ command' = Nobody BY DEF signsLocally
<1>3. Approved /\ loan.phase = "OPEN" BY DEF signsLocally, IInv, CommandFollows
<1>4. Facts' /\ Progress BY <1>1, <1>3, SignKeepsFacts DEF IInv
<1>5. PICK status \in {"WORKING", "PAUSED"} :
          job' \in {job, status} /\ stale' \subseteq {"writer", "worker"} /\ faults' \in Nat
  <2>1. CASE command.by = "timer"
    <3>1. writeJob("WORKING") \/ writeJob("PAUSED") BY <1>1, <1>3, <2>1, SigningReturns
    <3> QED BY <3>1, WriteJobEffect DEF IInv
  <2>2. CASE command.by # "timer" BY <1>1, <2>2, CallEndsEffect DEF IInv
  <2> QED BY <2>1, <2>2
<1> QED BY <1>2, <1>3, <1>4, <1>5, LocalKeeps DEF TerminalJobs, Settled

\* A bridge that ends, with what it leaves to the worker.
LEMMA BridgeKeeps ==
    ASSUME IInv, Facts', Progress, site = "hosted", UNCHANGED <<site, job>>,
           NEW by \in {"operator", "worker"}, NEW ok \in BOOLEAN, bridgeEnds(by, ok),
           by = "worker" => job \in {"queued", "running"},
           by = "worker" /\ ok /\ Returned = "COMPLETE" => Told'
    PROVE  IInv'
<1>1. command' = Nobody /\ clock' \subseteq clock BY DEF bridgeEnds, Minded
<1>2. /\ view' \in [approvals : SUBSET Roles, signed : BOOLEAN]
      /\ view'.approvals \subseteq loan'.approvals
  <2>1. view' \in {view, Publication} BY DEF bridgeEnds
  <2> QED BY <2>1, PublicationKeepsView DEF IInv, Progress
<1>3. stale' \subseteq {"writer", "worker"} /\ faults' \in Nat
  <2>1. callEnds BY DEF bridgeEnds, callEnds
  <2> QED BY <2>1, CallEndsEffect DEF IInv
<1>4. /\ by # "worker" => pending' = pending
      /\ by = "worker" => pending' \in {"paused", "running", "complete"}
      /\ by = "worker" /\ pending' = "complete" => ok /\ Returned = "COMPLETE"
  BY DEF bridgeEnds
<1>5. TypeOK'
  <2>1. pending' \in {"none", "paused", "complete", "running"} BY <1>4 DEF IInv, TypeOK
  <2>2. clock' \subseteq Deadlines BY <1>1 DEF IInv, TypeOK
  <2> QED BY <1>1, <1>2, <1>3, <2>1, <2>2, TypesFollow DEF IInv, TypeOK, Nobody
<1>6. CommandFollows' BY <1>1, NobodyFollows
<1>7. loan'.approvals \subseteq Roles BY DEF Facts, FactsType, Loans
<1>8. CASE by # "worker"
  <2>1. JobFollows' BY <1>2, <1>4, <1>7, <1>8, JobStillFollows DEF IInv
  <2> QED BY <1>5, <1>6, <2>1 DEF IInv
<1>9. CASE by = "worker"
  <2>1. Approved BY <1>9 DEF IInv, JobFollows, QueuedIsApproved, Active
  <2>2. Approved' BY <1>7, <2>1 DEF Progress, Approved
  <2>3. job \notin Finished \cup Settled \cup {"YIELD_CHECK_FAILED"}
    BY <1>9 DEF Finished, Settled
  <2>4. pending' = "complete" => Told' BY <1>4, <1>9
  <2>5. JobFollows' BY <1>2, <1>9, <2>2, <2>3, <2>4 DEF JobFollows, QueuedIsApproved
  <2> QED BY <1>5, <1>6, <2>5 DEF IInv
<1> QED BY <1>8, <1>9

\* A bridge that has found the plan to be current.
LEMMA PlansKeeps ==
    ASSUME IInv, site = "hosted", UNCHANGED <<site, job>>,
           NEW by \in {"operator", "worker"}, NEW at \in Roles \cup {"automatic", "sign", "submit"},
           plans(by, at),
           by = "worker" => /\ at = "automatic" /\ job \in {"queued", "running"} /\ pending = "none"
    PROVE  IInv' /\ Progress
<1>1. Facts' /\ Progress /\ UNCHANGED facts BY NothingKeepsFacts DEF plans, Nothing, IInv
<1>2. /\ UNCHANGED <<pending, view, clock, stale, faults>>
      /\ command' = [by |-> by, at |-> at, fresh |-> clock \cap OfSignature = {}]
  BY DEF plans, lives, begins
<1>3. at \in {"automatic", "sign"} => clock \cap OfSignature = {} \/ Passed("consent")
  <2>1. at # "submit" => PlanHolds BY DEF plans
  <2> QED BY <2>1 DEF PlanHolds, PlanIsSame, Passed, OfSignature
<1>4. at \notin {"rest", "signing"} BY DEF Roles
<1>5. CommandFollows' BY <1>2, <1>3, <1>4 DEF CommandFollows, Passed
<1>6. TypeOK' BY <1>1, <1>2, TypesFollow DEF IInv, TypeOK
<1>7. JobFollows'
  BY <1>1, <1>2, JobStillFollows DEF facts, IInv, JobFollows, Facts, FactsType, Loans
<1> QED BY <1>1, <1>5, <1>6, <1>7 DEF IInv

LEMMA ByHandOnBridgeKeeps ==
    ASSUME IInv, byHandOnBridge
    PROVE  IInv' /\ Progress
<1>1. site = "hosted" /\ UNCHANGED <<site, job>> BY DEF byHandOnBridge, Hosted
<1>2. CASE \E at \in Roles \cup {"automatic", "sign", "submit"} : plans("operator", at)
  BY <1>1, <1>2, PlansKeeps
<1>3. ASSUME NEW ok \in BOOLEAN, Facts', Progress, bridgeEnds("operator", ok)
      PROVE  IInv' /\ Progress
  BY <1>1, <1>3, BridgeKeeps
<1>4. CASE \E ok \in BOOLEAN : Nothing /\ bridgeEnds("operator", ok)
  BY <1>3, <1>4, NothingKeepsFacts DEF IInv, Nothing
<1>5. CASE \E ok \in BOOLEAN : advance(ok) /\ bridgeEnds("operator", ok)
  BY <1>3, <1>5, AdvanceKeepsFacts DEF IInv
<1>6. CASE \E ok \in BOOLEAN : advanceAutomaticRound(ok) /\ bridgeEnds("operator", ok)
  BY <1>3, <1>6, AutomaticKeepsFacts DEF IInv
<1>7. CASE \E ok \in BOOLEAN, op \in Operations : operate(op, ok) /\ bridgeEnds("operator", ok)
  BY <1>3, <1>7, OperateKeepsFacts DEF IInv
<1>8. CASE \E ok \in BOOLEAN, stage \in Stages : recover(stage) /\ bridgeEnds("operator", ok)
  BY <1>3, <1>8, RecoverKeepsFacts DEF IInv
<1>9. CASE \E ok \in BOOLEAN, stage \in Stages :
              prepareExternalReceipt(stage) /\ bridgeEnds("operator", ok)
  BY <1>3, <1>9, HandingKeepsFacts DEF IInv
<1> QED BY <1>2, <1>4, <1>5, <1>6, <1>7, <1>8, <1>9 DEF byHandOnBridge

LEMMA BridgeGoesOnKeeps ==
    ASSUME IInv, bridgeGoesOn
    PROVE  IInv' /\ Progress
<1>1. site = "hosted" /\ UNCHANGED <<site, job>> BY DEF bridgeGoesOn, Hosted
<1>2. command.by \in {"operator", "worker"}
  BY <1>1 DEF bridgeGoesOn, IInv, TypeOK, CommandFollows
<1>3. command.by = "worker" => job \in {"queued", "running"} /\ command.at = "automatic"
  BY DEF bridgeGoesOn, IInv, CommandFollows
<1>4. ASSUME NEW ok \in BOOLEAN, Facts', Progress, bridgeEnds(command.by, ok),
             command.by = "worker" /\ ok /\ Returned = "COMPLETE" => Told'
      PROVE  IInv' /\ Progress
  BY <1>1, <1>2, <1>3, <1>4, BridgeKeeps
<1>5. CASE /\ command.at \in {"automatic", "sign"} /\ MaySign
           /\ command' = [command EXCEPT !.at = "signing"]
           /\ Nothing /\ lives /\ UNCHANGED <<pending, view, clock>>
  <2>1. Facts' /\ Progress /\ UNCHANGED facts BY <1>5, NothingKeepsFacts DEF Nothing, IInv
  <2>2. UNCHANGED <<pending, view, clock, stale, faults>> BY <1>5 DEF lives
  <2>3. command.fresh BY <1>5 DEF IInv, CommandFollows, MaySign
  <2>4. /\ command' \in [by : {"nobody", "timer", "worker", "operator"},
                         at : Roles \cup {"rest", "sign", "automatic", "submit", "signing"},
                         fresh : BOOLEAN]
        /\ command'.by = command.by /\ command'.at = "signing" /\ command'.fresh
    BY <1>5, <2>3 DEF IInv, TypeOK
  <2>5. Approved' /\ loan'.phase = "OPEN" BY <1>5, <2>1 DEF facts, MaySign, Approved
  <2>6. CommandFollows'
    BY <1>1, <1>2, <2>2, <2>4, <2>5 DEF IInv, CommandFollows
  <2>7. TypeOK' BY <1>1, <2>1, <2>2, <2>4, TypesFollow DEF IInv, TypeOK
  <2>8. JobFollows'
    BY <1>1, <2>1, <2>2, JobStillFollows DEF facts, IInv, JobFollows, Facts, FactsType, Loans
  <2> QED BY <2>1, <2>6, <2>7, <2>8 DEF IInv
<1>6. CASE Nothing /\ bridgeEnds(command.by, FALSE)
  BY <1>4, <1>6, NothingKeepsFacts DEF IInv, Nothing
<1>7. CASE advanceAutomaticRound(FALSE) /\ bridgeEnds(command.by, FALSE)
  BY <1>4, <1>7, AutomaticKeepsFacts DEF IInv
<1>8. CASE advanceAutomaticRound(TRUE) /\ bridgeEnds(command.by, TRUE)
  BY <1>4, <1>8, AutomaticKeepsFacts, ReturnedFollows DEF IInv
<1>9. CASE \E ok \in BOOLEAN : command.at = "submit" /\ advance(ok) /\ bridgeEnds(command.by, ok)
  BY <1>3, <1>4, <1>9, AdvanceKeepsFacts DEF IInv
<1>10. CASE command.at \in Roles /\ approve(command.at) /\ bridgeEnds(command.by, TRUE)
  BY <1>3, <1>4, <1>10, ApprovalKeepsFacts DEF IInv, Roles
<1>11. PICK ok \in BOOLEAN :
          \/ /\ command.at \in {"automatic", "sign"} /\ MaySign
             /\ command' = [command EXCEPT !.at = "signing"]
             /\ Nothing /\ lives /\ UNCHANGED <<pending, view, clock>>
          \/ /\ \/ ~ok /\ Nothing
                \/ command.at = "automatic" /\ advanceAutomaticRound(ok)
                \/ command.at = "submit" /\ advance(ok)
                \/ ok /\ command.at \in Roles /\ approve(command.at)
             /\ bridgeEnds(command.by, ok)
  BY DEF bridgeGoesOn
<1> QED BY <1>5, <1>6, <1>7, <1>8, <1>9, <1>10, <1>11

LEMMA SignsOnBridgeKeeps ==
    ASSUME IInv, signsOnBridge
    PROVE  IInv' /\ Progress
<1>1. PICK ok \in BOOLEAN : sign(ok) /\ bridgeEnds(command.by, ok) BY DEF signsOnBridge
<1>2. site = "hosted" /\ UNCHANGED <<site, job>> BY DEF signsOnBridge, Hosted
<1>3. command.by \in {"operator", "worker"}
  BY <1>2 DEF signsOnBridge, IInv, TypeOK, CommandFollows
<1>4. Approved /\ loan.phase = "OPEN" BY DEF signsOnBridge, IInv, CommandFollows
<1>5. Facts' /\ Progress BY <1>1, <1>4, SignKeepsFacts DEF IInv
<1>6. Returned # "COMPLETE" BY <1>4, SigningReturns
<1>7. command.by = "worker" => job \in {"queued", "running"} BY DEF IInv, CommandFollows
<1> QED BY <1>1, <1>2, <1>3, <1>5, <1>6, <1>7, BridgeKeeps

LEMMA EnqueueKeeps ==
    ASSUME IInv, enqueue
    PROVE  IInv' /\ Progress
<1>1. Facts' /\ Progress /\ UNCHANGED facts BY NothingKeepsFacts DEF enqueue, Nothing, IInv
<1>2. /\ UNCHANGED <<site, pending, clock, command, stale, faults>> /\ view' = Unread
      /\ view.approvals = Roles /\ job = "none" /\ job' = "queued" /\ site = "hosted"
  BY DEF enqueue, Hosted
<1>3. Approved
  BY <1>2 DEF IInv, JobFollows, Facts, FactsType, Loans, Approved
<1>4. TypeOK' BY <1>1, <1>2, TypesFollow DEF IInv, TypeOK, Active, Unread
<1>5. Approved' /\ loan' = loan BY <1>1, <1>3 DEF facts, Approved
<1>6. pending' = "none" BY <1>2 DEF IInv, JobFollows
<1>7. JobFollows'
  BY <1>2, <1>5, <1>6 DEF JobFollows, QueuedIsApproved, Finished, Active, Settled, Unread
<1>8. CommandFollows' BY <1>2, <1>5 DEF IInv, CommandFollows, Passed, Approved
<1> QED BY <1>1, <1>4, <1>7, <1>8 DEF IInv

LEMMA WorkerStepsKeeps ==
    ASSUME IInv, workerSteps
    PROVE  IInv' /\ Progress
<1>1. /\ site = "hosted" /\ UNCHANGED <<site, job>>
      /\ command.by # "worker" /\ job \in {"queued", "running"} /\ pending = "none"
  BY DEF workerSteps, Hosted
<1>2. CASE Nothing /\ pending' = "paused" /\ lives /\ UNCHANGED <<view, clock, command>>
  <2>1. Facts' /\ Progress /\ UNCHANGED facts BY <1>2, NothingKeepsFacts DEF Nothing, IInv
  <2>2. loan' = loan BY <2>1 DEF facts
  <2>3. UNCHANGED <<view, clock, command, stale, faults>> BY <1>2 DEF lives
  <2>4. TypeOK' BY <1>1, <1>2, <2>1, <2>3, TypesFollow DEF IInv, TypeOK
  <2>5. Approved /\ Approved'
    BY <1>1, <2>2 DEF IInv, JobFollows, QueuedIsApproved, Active, Approved
  <2>6. job \notin Finished \cup Settled \cup {"YIELD_CHECK_FAILED"}
    BY <1>1 DEF Finished, Settled
  <2>7. view'.approvals \subseteq loan'.approvals BY <2>2, <2>3 DEF IInv, JobFollows
  <2>8. JobFollows' BY <1>1, <1>2, <2>5, <2>6, <2>7 DEF JobFollows, QueuedIsApproved
  <2>9. CommandFollows' BY <1>1, <2>2, <2>3 DEF IInv, CommandFollows, Passed, Approved
  <2> QED BY <2>1, <2>4, <2>8, <2>9 DEF IInv
<1>3. CASE plans("worker", "automatic") BY <1>1, <1>3, PlansKeeps
<1>4. ASSUME NEW ok \in BOOLEAN, Facts', Progress, bridgeEnds("worker", ok),
             ok /\ Returned = "COMPLETE" => Told'
      PROVE  IInv' /\ Progress
  BY <1>1, <1>4, BridgeKeeps
<1>5. CASE Nothing /\ bridgeEnds("worker", FALSE)
  BY <1>4, <1>5, NothingKeepsFacts DEF IInv, Nothing
<1>6. CASE advanceAutomaticRound(FALSE) /\ bridgeEnds("worker", FALSE)
  BY <1>4, <1>6, AutomaticKeepsFacts DEF IInv
<1>7. CASE advanceAutomaticRound(TRUE) /\ bridgeEnds("worker", TRUE)
  BY <1>4, <1>7, AutomaticKeepsFacts, ReturnedFollows DEF IInv
<1>8. PICK ok \in BOOLEAN :
         \/ Nothing /\ pending' = "paused" /\ lives /\ UNCHANGED <<view, clock, command>>
         \/ plans("worker", "automatic")
         \/ /\ (~ok /\ Nothing) \/ advanceAutomaticRound(ok)
            /\ bridgeEnds("worker", ok)
  BY DEF workerSteps
<1> QED BY <1>2, <1>3, <1>5, <1>6, <1>7, <1>8

LEMMA WorkerSavesKeeps ==
    ASSUME IInv, workerSaves
    PROVE  IInv' /\ Progress
<1>1. Facts' /\ Progress /\ UNCHANGED facts BY NothingKeepsFacts DEF workerSaves, Nothing, IInv
<1>2. /\ UNCHANGED <<site, view, clock, command>> /\ site = "hosted"
      /\ pending # "none" /\ pending' = "none"
      /\ job' \in {job, pending} /\ stale' \subseteq {"writer", "worker"} /\ faults' \in Nat
  <2>1. stale \subseteq {"writer", "worker"} /\ faults \in Nat BY DEF IInv, TypeOK
  <2>2. CASE job' = pending /\ lives BY <2>1, <2>2 DEF workerSaves, Hosted, lives
  <2>3. CASE UNCHANGED job /\ fault({}) BY <2>1, <2>3, FaultEffect DEF workerSaves, Hosted
  <2> QED BY <2>2, <2>3 DEF workerSaves
<1>3. pending \in {"paused", "complete", "running"} /\ job \in {"queued", "running"}
  BY <1>2 DEF IInv, TypeOK, JobFollows
<1>4. TypeOK' BY <1>1, <1>2, <1>3, TypesFollow DEF IInv, TypeOK, Active
<1>5. Approved /\ Approved' /\ loan' = loan
  BY <1>1, <1>3 DEF facts, IInv, JobFollows, QueuedIsApproved, Active, Approved
<1>6. pending = "complete" => Told' BY <1>1 DEF IInv, JobFollows, Progress
<1>7. view'.approvals \subseteq loan'.approvals BY <1>2, <1>5 DEF IInv, JobFollows
<1>8. JobFollows'
  BY <1>2, <1>3, <1>5, <1>6, <1>7 DEF JobFollows, QueuedIsApproved, Finished, Active, Settled
<1>9. command.by \notin {"timer", "worker"} BY <1>2 DEF IInv, CommandFollows
<1>10. CommandFollows' BY <1>2, <1>5, <1>9 DEF IInv, CommandFollows, Passed, Approved
<1> QED BY <1>1, <1>4, <1>8, <1>10 DEF IInv

LEMMA WorkerDiesKeeps ==
    ASSUME IInv, workerDies
    PROVE  IInv' /\ Progress
<1>1. Facts' /\ Progress /\ UNCHANGED facts BY NothingKeepsFacts DEF workerDies, Nothing, IInv
<1>2. /\ UNCHANGED <<site, job, view, clock>> /\ site = "hosted" /\ pending' = "none"
      /\ stale' \subseteq {"writer", "worker"} /\ faults' \in Nat
  <2>1. stale \subseteq {"writer", "worker"} /\ faults \in Nat BY DEF IInv, TypeOK
  <2> QED BY <2>1, FaultEffect DEF workerDies, Hosted
<1>3. /\ command' \in [by : {"nobody", "timer", "worker", "operator"},
                       at : Roles \cup {"rest", "sign", "automatic", "submit", "signing"},
                       fresh : BOOLEAN]
      /\ command'.at = command.at /\ command'.fresh = command.fresh
      /\ command'.by = IF command.by = "worker" THEN "operator" ELSE command.by
  BY DEF workerDies, IInv, TypeOK
<1>4. loan' = loan BY <1>1 DEF facts
<1>5. TypeOK' BY <1>1, <1>2, <1>3, TypesFollow DEF IInv, TypeOK
<1>6. CommandFollows'
  BY <1>2, <1>3, <1>4 DEF IInv, CommandFollows, Passed, Approved
<1>7. JobFollows'
  <2>1. Told => Told' BY <1>1 DEF Progress
  <2> QED BY <1>2, <1>4, <2>1 DEF IInv, JobFollows, QueuedIsApproved, Approved
<1> QED BY <1>1, <1>5, <1>6, <1>7 DEF IInv

LEMMA ClearStaleLockKeeps ==
    ASSUME IInv, clearStaleLock
    PROVE  IInv' /\ Progress
<1>1. Facts' /\ Progress /\ UNCHANGED facts BY NothingKeepsFacts DEF clearStaleLock, IInv
<1>2. UNCHANGED <<site, job, pending, view, clock, command, faults>> /\ stale' \subseteq stale
  BY DEF clearStaleLock
<1>3. loan' = loan BY <1>1 DEF facts
<1>4. TypeOK'
  <2>1. clock' \subseteq Deadlines BY <1>2 DEF IInv, TypeOK
  <2> QED BY <1>1, <1>2, <2>1, TypesStay DEF IInv
<1>5. JobFollows'
  BY <1>1, <1>2, JobStillFollows DEF facts, IInv, JobFollows, Facts, FactsType, Loans
<1>6. CommandFollows' BY <1>2, <1>3 DEF IInv, CommandFollows, Passed, Approved
<1> QED BY <1>1, <1>4, <1>5, <1>6 DEF IInv

LEMMA SealByHandKeeps ==
    ASSUME IInv, NEW stage \in Stages, sealByHand(stage)
    PROVE  IInv' /\ Progress
<1>1. Facts' /\ Progress BY SealingKeepsFacts DEF IInv
<1>2. UNCHANGED <<site, loan, steps, chain, job, pending, view, clock, command, stale, faults>>
  BY DEF sealByHand
<1>3. TypeOK'
  <2>1. clock' \subseteq Deadlines BY <1>2 DEF IInv, TypeOK
  <2> QED BY <1>1, <1>2, <2>1, TypesStay DEF IInv
<1>4. JobFollows' BY <1>2 DEF IInv, JobFollows, QueuedIsApproved, Told, Approved
<1>5. CommandFollows' BY <1>2 DEF IInv, CommandFollows, Passed, Approved
<1> QED BY <1>1, <1>3, <1>4, <1>5 DEF IInv

LEMMA ValidatesKeeps ==
    ASSUME IInv, NEW id \in DOMAIN chain, validates(id)
    PROVE  IInv' /\ Progress
<1>1. /\ UNCHANGED <<site, loan, steps, issued, handed, job, pending, view, clock, command, stale, faults>>
      /\ chain[id] = "sent"
  BY DEF validates
<1>2. chain \in Chains /\ id \in Operations \cup {"loan"} BY DEF IInv, Facts, FactsType, Chains
<1>3. PICK fate \in Fates(id) : chain' = [chain EXCEPT ![id] = fate] BY DEF validates
<1>4. /\ fate \in {"done", "failed"} /\ chain' \in Chains /\ chain'[id] = fate
      /\ \A other \in Operations \cup {"loan"} : other # id => chain'[other] = chain[other]
      /\ id = "withdraw" => fate = "done"
      /\ id = "refusal" /\ chain["withdraw"] = "done" => fate = "failed"
  BY <1>2, <1>3 DEF Fates, Chains, Operations
<1>5. CapitalIsTracked'
  BY <1>1, <1>2, <1>4 DEF IInv, Facts, CapitalIsTracked, Operations
<1>6. StagesFollow'
  BY <1>1, <1>2, <1>4 DEF IInv, Facts, StagesFollow, Approved, Operations
<1>7. FactsType' /\ ChargesAreOnRecord' /\ HandedAreMarked'
  BY <1>1, <1>4 DEF IInv, Facts, FactsType, ChargesAreOnRecord, HandedAreMarked, Approved
<1>8. Progress
  <2>1. loan' = loan /\ steps' = steps BY <1>1
  <2> QED BY <2>1 DEF Progress, Told
<1>9. TypeOK'
  <2>1. UNCHANGED <<site, job, pending, view, clock, command, stale, faults>> BY <1>1
  <2>2. Facts' BY <1>5, <1>6, <1>7 DEF Facts
  <2>3. clock' \subseteq Deadlines BY <2>1 DEF IInv, TypeOK
  <2> QED BY <2>1, <2>2, <2>3, TypesStay DEF IInv
<1>10. JobFollows'
  BY <1>1 DEF IInv, JobFollows, QueuedIsApproved, Told, Approved
<1>11. CommandFollows' BY <1>1 DEF IInv, CommandFollows, Passed, Approved
<1> QED BY <1>5, <1>6, <1>7, <1>8, <1>9, <1>10, <1>11 DEF IInv, Facts

LEMMA PassesKeeps ==
    ASSUME IInv, NEW deadline \in Deadlines, passes(deadline)
    PROVE  IInv' /\ Progress
<1>1. /\ UNCHANGED facts
      /\ UNCHANGED <<site, job, pending, view, command, stale, faults>>
      /\ clock' = clock \cup {deadline}
      /\ site = "local" => deadline \notin {"intake", "match"}
  BY DEF passes
<1>2. Facts' /\ Progress BY <1>1, NothingKeepsFacts DEF IInv
<1>3. TypeOK'
  <2>1. clock' \subseteq Deadlines BY <1>1 DEF IInv, TypeOK
  <2> QED BY <1>1, <1>2, <2>1, TypesStay DEF IInv
<1>4. loan' = loan BY <1>1 DEF facts
<1>5. JobFollows'
  <2>1. view'.approvals \subseteq loan'.approvals BY <1>1, <1>4 DEF IInv, JobFollows
  <2>2. loan'.approvals \subseteq Roles BY <1>2 DEF Facts, FactsType, Loans
  <2> QED BY <1>1, <1>2, <2>1, <2>2, JobStillFollows DEF IInv
<1>6. CommandFollows'
  <2>1. UNCHANGED <<site, job, pending, command, loan>> BY <1>1, <1>4
  <2> QED BY <1>1, <2>1 DEF IInv, CommandFollows, Passed, Approved
<1> QED BY <1>2, <1>3, <1>5, <1>6 DEF IInv

\* Every step keeps the invariant and takes nothing back.
LEMMA StepKeeps == IInv /\ [Next]_vars => IInv' /\ Progress
<1> SUFFICES ASSUME IInv, [Next]_vars PROVE IInv' /\ Progress OBVIOUS
<1>1. CASE UNCHANGED vars
  <2>1. UNCHANGED <<facts, site, job, pending, view, clock, command, stale, faults>>
    BY <1>1 DEF vars
  <2>2. Facts' /\ Progress BY <2>1, NothingKeepsFacts DEF IInv
  <2>3. loan' = loan BY <2>1 DEF facts
  <2>4. TypeOK'
    <3>1. clock' \subseteq Deadlines BY <2>1 DEF IInv, TypeOK
    <3> QED BY <2>1, <2>2, <3>1, TypesStay DEF IInv
  <2>5. JobFollows'
    BY <2>1, <2>2, <2>3, JobStillFollows DEF IInv, JobFollows, Facts, FactsType, Loans
  <2>6. CommandFollows' BY <2>1, <2>3 DEF IInv, CommandFollows, Passed, Approved
  <2> QED BY <2>2, <2>4, <2>5, <2>6 DEF IInv
<1>2. CASE \E role \in Roles : approveLocally(role) BY <1>2, ApproveLocallyKeeps
<1>3. CASE run BY <1>3, RunKeeps
<1>4. CASE automaticTick BY <1>4, AutomaticTickKeeps
<1>5. CASE byHandLocally BY <1>5, ByHandLocallyKeeps
<1>6. CASE signsLocally BY <1>6, SignsLocallyKeeps
<1>7. CASE byHandOnBridge BY <1>7, ByHandOnBridgeKeeps
<1>8. CASE bridgeGoesOn BY <1>8, BridgeGoesOnKeeps
<1>9. CASE signsOnBridge BY <1>9, SignsOnBridgeKeeps
<1>10. CASE enqueue BY <1>10, EnqueueKeeps
<1>11. CASE workerSteps BY <1>11, WorkerStepsKeeps
<1>12. CASE workerSaves BY <1>12, WorkerSavesKeeps
<1>13. CASE workerDies BY <1>13, WorkerDiesKeeps
<1>14. CASE clearStaleLock BY <1>14, ClearStaleLockKeeps
<1>15. CASE \E stage \in Stages : sealByHand(stage) BY <1>15, SealByHandKeeps
<1>16. CASE \E id \in DOMAIN chain : validates(id) BY <1>16, ValidatesKeeps
<1>17. CASE \E deadline \in Deadlines : passes(deadline) BY <1>17, PassesKeeps
<1> QED
  BY <1>1, <1>2, <1>3, <1>4, <1>5, <1>6, <1>7, <1>8, <1>9, <1>10, <1>11, <1>12, <1>13, <1>14,
     <1>15, <1>16, <1>17 DEF Next

-----------------------------------------------------------------------------
(* The results.                                                             *)

\* The records, the ledger and the job stay consistent in every behaviour.
THEOREM Consistency == Spec => []IInv
BY InitIsSound, StepKeeps, PTL DEF Spec

\* Every variable keeps its type.
THEOREM TypeCorrect == Spec => []TypeOK
<1>1. IInv => TypeOK BY DEF IInv
<1> QED BY <1>1, Consistency, PTL

\* In no interleaving of the timer or the worker with an operator, and after
\* any number of crashes, does the authority charge twice for a receipt.
THEOREM ChargedOnce == Spec => []NeverReissued
<1>1. IInv => NeverReissued BY DEF IInv, Facts, ChargesAreOnRecord, NeverReissued
<1> QED BY <1>1, Consistency, PTL

\* A job that is called complete tells the whole story truly, and one that is
\* worked on is approved.
THEOREM JobSpeaksTruly == Spec => []JobIsTruthful
<1>1. ASSUME IInv PROVE JobIsTruthful
  <2>1. QueuedIsApproved BY <1>1 DEF IInv, JobFollows
  <2>2. CompleteIsTrue
    <3> SUFFICES ASSUME Told
                 PROVE  /\ chain["loan"] = "done" /\ loan.receipts = Stages
                        /\ chain["refusal"] # "done"
                        /\ chain["repay"] = "done" /\ chain["withdraw"] = "done"
                        /\ steps.yield = "positive"
      BY <1>1 DEF IInv, JobFollows, CompleteIsTrue
    <3> QED BY <1>1 DEF IInv, Facts, StagesFollow, CapitalIsTracked, Told
  <2> QED BY <2>1, <2>2 DEF JobIsTruthful
<1> QED BY <1>1, Consistency, PTL

\* No call but sign makes an open request a signed one.
LEMMA CallsKeepOpen ==
    ASSUME Facts, loan.phase = "OPEN", NEW ok \in BOOLEAN
    PROVE  /\ \A stage \in Stages : receipt(stage, ok) => loan'.phase = "OPEN"
           /\ \A stage \in Stages : recover(stage) => loan'.phase = "OPEN"
           /\ \A stage \in Stages : prepareExternalReceipt(stage) => loan'.phase = "OPEN"
           /\ \A role \in Roles : approve(role) => loan'.phase = "OPEN"
           /\ ~advance(ok)
           /\ \A op \in Operations : ~operate(op, ok)
           /\ Nothing => loan'.phase = "OPEN"
           /\ advanceAutomaticRound(ok) => loan'.phase = "OPEN"
<1>1. loan \in Loans BY DEF Facts, FactsType
<1>2. ASSUME NEW stage \in Stages, receipt(stage, ok) PROVE loan'.phase = "OPEN"
  BY <1>1, <1>2 DEF receipt, issue, Loans
<1>3. ASSUME NEW stage \in Stages, recover(stage) \/ prepareExternalReceipt(stage)
      PROVE  loan'.phase = "OPEN"
  BY <1>1, <1>3 DEF recover, prepareExternalReceipt, Loans
<1>4. ASSUME NEW role \in Roles, approve(role) PROVE loan'.phase = "OPEN"
  BY <1>1, <1>4 DEF approve, Loans
<1>5. ~advance(ok) BY DEF advance, Signed, Settled
<1>6. ASSUME NEW op \in Operations PROVE ~operate(op, ok) BY DEF operate, Allowed
<1>7. Nothing => loan'.phase = "OPEN" BY DEF Nothing, facts
<1>8. advanceAutomaticRound(ok) => loan'.phase = "OPEN"
  BY <1>2, <1>5, <1>6, <1>7 DEF advanceAutomaticRound
<1> QED BY <1>2, <1>3, <1>4, <1>5, <1>6, <1>7, <1>8

\* A signature comes from a command that has gone through all its checks, in a
\* service that holds the agreement's receipt.
LEMMA OnlyCommandsSign ==
    ASSUME IInv, Next, loan.phase = "OPEN", loan'.phase # "OPEN"
    PROVE  command.at = "signing" /\ "agreement" \in loan.receipts
<1>1. Facts BY DEF IInv
<1>2. ASSUME NEW ok \in BOOLEAN, sign(ok) PROVE "agreement" \in loan.receipts
  BY <1>2 DEF sign, Nothing, facts
<1>3. ~\E role \in Roles : approveLocally(role) BY <1>1, CallsKeepOpen DEF approveLocally
<1>4. ~run /\ ~enqueue /\ ~workerSaves /\ ~workerDies /\ ~clearStaleLock
  BY DEF run, enqueue, workerSaves, workerDies, clearStaleLock, Nothing, facts
<1>5. ~automaticTick BY <1>1, CallsKeepOpen DEF automaticTick
<1>6. ~byHandLocally BY <1>1, CallsKeepOpen DEF byHandLocally
<1>7. CASE signsLocally BY <1>2, <1>7 DEF signsLocally
<1>8. ~byHandOnBridge BY <1>1, CallsKeepOpen DEF byHandOnBridge, plans
<1>9. ~bridgeGoesOn BY <1>1, CallsKeepOpen DEF bridgeGoesOn
<1>10. CASE signsOnBridge BY <1>2, <1>10 DEF signsOnBridge
<1>11. ~workerSteps BY <1>1, CallsKeepOpen DEF workerSteps, plans
<1>12. /\ ~\E stage \in Stages : sealByHand(stage)
       /\ ~\E id \in DOMAIN chain : validates(id)
       /\ ~\E deadline \in Deadlines : passes(deadline)
  BY DEF sealByHand, validates, passes, facts
<1> QED
  BY <1>3, <1>4, <1>5, <1>6, <1>7, <1>8, <1>9, <1>10, <1>11, <1>12 DEF Next

\* Whoever gives the command, a signature is on terms that both people have
\* approved and the authority has receipted, and the consent, the request and
\* the match were in force when the command took the lock.
THEOREM SignedUnderAuthority == Spec => SignatureIsAuthorized
<1>1. ASSUME IInv, [Next]_vars
      PROVE  [loan.phase = "OPEN" /\ loan'.phase # "OPEN" =>
                Approved /\ issued["agreement"] > 0 /\ command.by # "nobody" /\ command.fresh]_vars
  <2> SUFFICES ASSUME Next, loan.phase = "OPEN", loan'.phase # "OPEN"
               PROVE  /\ Approved /\ issued["agreement"] > 0
                      /\ command.by # "nobody" /\ command.fresh
    BY <1>1
  <2>1. command.at = "signing" /\ "agreement" \in loan.receipts
    BY <1>1, OnlyCommandsSign
  <2>2. Approved /\ command.by # "nobody" /\ command.fresh
    BY <1>1, <2>1 DEF IInv, CommandFollows
  <2>3. issued["agreement"] > 0
    BY <1>1, <2>1 DEF IInv, Facts, ChargesAreOnRecord, Stages
  <2> QED BY <2>2, <2>3
<1> QED BY <1>1, Consistency, PTL DEF Spec, SignatureIsAuthorized

\* No approval, repeated run, tick or late save of the worker restarts a round
\* that has an outcome.
THEOREM OutcomeIsFinal == Spec => OutcomeStands
<1> DEFINE Final == job \in Finished \cup Settled \cup {"YIELD_CHECK_FAILED"}
<1>1. ASSUME IInv, Next, Final PROVE job' = job
  <2>1. loan.phase # "OPEN"
    BY <1>1 DEF IInv, JobFollows, Told, Finished
  <2>2. job \notin {"none", "queued", "running"} /\ pending = "none"
    BY <1>1 DEF IInv, JobFollows, Finished, Settled
  <2>3. ~\E role \in Roles : approveLocally(role) BY <2>1 DEF approveLocally, approve
  <2>4. ~run /\ ~enqueue /\ ~workerSteps /\ ~workerSaves
    BY <2>2 DEF run, enqueue, workerSteps, workerSaves
  <2>5. site = "local" => job \in TerminalJobs
    BY <1>1 DEF IInv, JobFollows, Finished, TerminalJobs
  <2>6. ~automaticTick BY <2>5 DEF automaticTick, Local
  <2>7. CASE signsLocally
    <3>1. command.by # "timer" BY <1>1, <2>5 DEF IInv, CommandFollows
    <3> QED BY <2>7, <3>1 DEF signsLocally
  <2>8. CASE byHandLocally BY <2>8 DEF byHandLocally
  <2>9. CASE byHandOnBridge \/ bridgeGoesOn \/ signsOnBridge
    BY <2>9 DEF byHandOnBridge, bridgeGoesOn, signsOnBridge
  <2>10. CASE workerDies \/ clearStaleLock BY <2>10 DEF workerDies, clearStaleLock
  <2>11. CASE \E stage \in Stages : sealByHand(stage) BY <2>11 DEF sealByHand
  <2>12. CASE \E id \in DOMAIN chain : validates(id) BY <2>12 DEF validates
  <2>13. CASE \E deadline \in Deadlines : passes(deadline) BY <2>13 DEF passes
  <2> QED
    BY <1>1, <2>3, <2>4, <2>6, <2>7, <2>8, <2>9, <2>10, <2>11, <2>12, <2>13 DEF Next
<1>2. ASSUME IInv, [Next]_vars PROVE [Final => job' = job]_vars BY <1>1, <1>2
<1> QED BY <1>2, Consistency, PTL DEF Spec, OutcomeStands

-----------------------------------------------------------------------------
(* The promise of the service: one lemma per call of it.                    *)
PromiseStep == [Promise!Next]_(Promise!vars)

LEMMA NothingIsPromised ==
    ASSUME loan'.approvals = loan.approvals, loan'.phase = loan.phase,
           loan'.receipts = loan.receipts, chain'["loan"] = chain["loan"], issued' = issued
    PROVE  PromiseStep
BY DEF PromiseStep, Promise!vars

LEMMA ApproveIsPromised ==
    ASSUME Facts, NEW role \in Roles, approve(role)
    PROVE  PromiseStep
<1>1. /\ loan'.approvals = loan.approvals \cup {role} /\ loan'.phase = loan.phase
      /\ loan'.receipts = loan.receipts /\ loan.phase = "OPEN"
      /\ issued' = issued /\ chain' = chain
  BY DEF approve, Facts, FactsType, Loans
<1>2. Promise!Approve(role) BY <1>1 DEF Promise!Approve, Signed, Settled
<1> QED BY <1>2 DEF PromiseStep, Promise!Next, Promise!Roles, Roles

LEMMA ReceiptIsPromised ==
    ASSUME Facts, NEW stage \in Stages, NEW ok \in BOOLEAN, receipt(stage, ok)
    PROVE  PromiseStep
<1>1. loan \in Loans /\ issued \in [Stages -> Nat] BY DEF Facts, FactsType
<1>2. ReceiptDue(stage) /\ UNCHANGED chain BY DEF receipt
<1>3. CASE UNCHANGED issued /\ stage \in loan.receipts
  <2>1. loan'.approvals = loan.approvals /\ loan'.phase = loan.phase /\ loan'.receipts = loan.receipts
    BY <1>1, <1>3 DEF receipt, Loans
  <2> QED BY <1>2, <1>3, <2>1, NothingIsPromised
<1>4. CASE stage \notin loan.receipts /\ loan.attempt = "none" /\ issue(stage, ok)
  <2>1. PICK charged \in BOOLEAN, stored \in BOOLEAN :
            /\ stored => charged
            /\ issued' = [issued EXCEPT ![stage] = @ + IF charged THEN 1 ELSE 0]
            /\ loan' = [loan EXCEPT !.attempt = IF ok THEN "none" ELSE stage,
                                    !.receipts = IF stored THEN @ \cup {stage} ELSE @]
    BY <1>4 DEF issue
  <2>2. /\ loan'.approvals = loan.approvals /\ loan'.phase = loan.phase
        /\ loan'.receipts = IF stored THEN loan.receipts \cup {stage} ELSE loan.receipts
    BY <1>1, <2>1 DEF Loans
  <2>3. CASE ~charged
    <3>1. issued' = issued BY <1>1, <2>1, <2>3
    <3> QED BY <1>2, <2>1, <2>2, <2>3, <3>1, NothingIsPromised
  <2>4. CASE charged
    <3>1. issued[stage] = 0 BY <1>1, <1>4 DEF Facts, ChargesAreOnRecord, Stages
    <3>2. /\ issued'[stage] = 1
          /\ \A other \in Stages : other # stage => issued'[other] = issued[other]
      BY <1>1, <2>1, <2>4, <3>1
    <3>3. {other \in Stages : issued'[other] > 0} = {other \in Stages : issued[other] > 0} \cup {stage}
      BY <3>2
    <3>4. stage = "agreement" => loan.approvals = Roles /\ loan.phase = "OPEN"
      BY <1>2, <1>4 DEF ReceiptDue, Approved, Facts, StagesFollow
    <3>5. stage = "execution" => loan.phase = "FUNDED" BY <1>2 DEF ReceiptDue
    <3>6. stage \in {"agreement", "execution"} BY DEF Stages
    <3>7. Promise!Charge(stage)
      <4>1. stage \notin {other \in Stages : issued[other] > 0} BY <3>1
      <4>2. loan'.receipts \in {loan.receipts, loan.receipts \cup {stage}} BY <2>2
      <4>3. stage = "agreement" => loan.approvals = Promise!Roles /\ ~(loan.phase \in Signed)
        BY <3>4 DEF Promise!Roles, Roles, Signed, Settled
      <4> QED BY <1>2, <2>2, <3>3, <3>5, <3>6, <4>1, <4>2, <4>3 DEF Promise!Charge
    <3> QED BY <3>7 DEF PromiseStep, Promise!Next, Promise!Stages, Stages
  <2> QED BY <2>3, <2>4
<1> QED BY <1>3, <1>4 DEF receipt

LEMMA RecoverIsPromised ==
    ASSUME Facts, NEW stage \in Stages, recover(stage)
    PROVE  PromiseStep
<1>1. /\ loan'.approvals = loan.approvals /\ loan'.phase = loan.phase
      /\ loan'.receipts = loan.receipts \cup {stage}
      /\ issued' = issued /\ chain' = chain /\ issued[stage] > 0
  BY DEF recover, Facts, FactsType, Loans
<1>2. Promise!Keep(stage) BY <1>1 DEF Promise!Keep
<1> QED BY <1>2 DEF PromiseStep, Promise!Next, Promise!Stages, Stages

LEMMA HandingIsPromised ==
    ASSUME Facts, NEW stage \in Stages, prepareExternalReceipt(stage)
    PROVE  PromiseStep
<1>1. /\ loan'.approvals = loan.approvals /\ loan'.phase = loan.phase
      /\ loan'.receipts = loan.receipts /\ issued' = issued /\ chain' = chain
  BY DEF prepareExternalReceipt, Facts, FactsType, Loans
<1> QED BY <1>1, NothingIsPromised

\* What a person has sealed is charged for like what the service has sealed.
LEMMA SealingIsPromised ==
    ASSUME Facts, NEW stage \in Stages, sealByHand(stage)
    PROVE  PromiseStep
<1>1. /\ loan' = loan /\ chain' = chain /\ stage \in handed
      /\ issued' = [issued EXCEPT ![stage] = @ + 1] /\ issued \in [Stages -> Nat]
  BY DEF sealByHand, Facts, FactsType
<1>2. /\ loan.attempt = stage /\ stage \notin loan.receipts
      /\ issued[stage] = 0 /\ Approved
  BY <1>1 DEF Facts, HandedAreMarked
<1>3. issued'[stage] = 1 /\ \A other \in Stages : other # stage => issued'[other] = issued[other]
  BY <1>1, <1>2
<1>4. {other \in Stages : issued'[other] > 0} = {other \in Stages : issued[other] > 0} \cup {stage}
  BY <1>3
<1>5. stage \notin {other \in Stages : issued[other] > 0} BY <1>2
<1>6. stage = "agreement" => loan.approvals = Promise!Roles /\ ~(loan.phase \in Signed)
  BY <1>2 DEF Facts, StagesFollow, Approved, Promise!Roles, Roles, Signed, Settled
<1>7. stage = "execution" => loan.phase = "FUNDED" BY <1>2 DEF Facts, StagesFollow
<1>8. stage \in {"agreement", "execution"} BY DEF Stages
<1>9. Promise!Charge(stage) BY <1>1, <1>4, <1>5, <1>6, <1>7, <1>8 DEF Promise!Charge
<1> QED BY <1>9 DEF PromiseStep, Promise!Next, Promise!Stages, Stages

LEMMA SignIsPromised ==
    ASSUME Facts, NEW ok \in BOOLEAN, sign(ok), Approved, loan.phase = "OPEN"
    PROVE  PromiseStep
<1>1. CASE ~ok /\ Nothing BY <1>1, NothingIsPromised DEF Nothing, facts
<1>2. CASE "agreement" \in loan.receipts /\ loan' = [loan EXCEPT !.phase = "SIGNED"]
           /\ UNCHANGED <<steps, chain, issued, handed>>
  <2>1. /\ loan'.approvals = loan.approvals /\ loan'.phase = "SIGNED"
        /\ loan'.receipts = loan.receipts /\ issued' = issued /\ chain' = chain
        /\ loan.approvals = Roles
    BY <1>2 DEF Approved, Facts, FactsType, Loans
  <2>2. Promise!Sign BY <1>2, <2>1 DEF Promise!Sign, Promise!Roles, Roles, Signed
  <2> QED BY <2>2 DEF PromiseStep, Promise!Next
<1> QED BY <1>1, <1>2 DEF sign

LEMMA AdvanceIsPromised ==
    ASSUME Facts, NEW ok \in BOOLEAN, advance(ok)
    PROVE  PromiseStep
<1>1. loan \in Loans /\ chain \in Chains BY DEF Facts, FactsType
<1>2. /\ loan.phase \in Signed /\ loan.phase \notin {"FUNDED", "REJECTED"}
      /\ issued' = issued
  BY DEF advance
<1>3. CASE /\ chain["loan"] \in {"done", "failed"} /\ chain' = chain
           /\ loan' = [loan EXCEPT !.phase = IF chain["loan"] = "done" THEN "FUNDED" ELSE "REJECTED"]
  <2>1. /\ loan'.approvals = loan.approvals /\ loan'.receipts = loan.receipts
        /\ loan'.phase = IF chain["loan"] = "done" THEN "FUNDED" ELSE "REJECTED"
    BY <1>1, <1>3 DEF Loans
  <2>2. Promise!Report BY <1>2, <1>3, <2>1 DEF Promise!Report, Signed, Settled
  <2> QED BY <2>2 DEF PromiseStep, Promise!Next
<1>4. CASE /\ \E phase \in {"EXPIRED_UNRESOLVED", "SUBMITTED"} : loan' = [loan EXCEPT !.phase = phase]
           /\ chain' \in {chain, [chain EXCEPT !["loan"] = IF @ = "none" THEN "sent" ELSE @]}
  <2>1. /\ loan'.approvals = loan.approvals /\ loan'.receipts = loan.receipts
        /\ loan'.phase \in {"EXPIRED_UNRESOLVED", "SUBMITTED"}
    BY <1>1, <1>4 DEF Loans
  <2>2. chain'["loan"] = chain["loan"] \/ (chain["loan"] = "none" /\ chain'["loan"] = "sent")
    <3>1. CASE chain' = chain BY <3>1
    <3>2. CASE chain' = [chain EXCEPT !["loan"] = IF @ = "none" THEN "sent" ELSE @]
      BY <1>1, <3>2 DEF Chains
    <3> QED BY <1>4, <3>1, <3>2
  <2>3. UNCHANGED Promise!vars BY <1>2, <2>1, <2>2 DEF Promise!vars, Signed, Settled
  <2> QED BY <2>3 DEF PromiseStep
<1> QED BY <1>3, <1>4 DEF advance

LEMMA OperateIsPromised ==
    ASSUME Facts, NEW op \in Operations, NEW ok \in BOOLEAN, operate(op, ok)
    PROVE  PromiseStep
<1>1. chain'["loan"] = chain["loan"]
  BY DEF operate, Facts, FactsType, Chains, Operations
<1> QED BY <1>1, NothingIsPromised DEF operate

LEMMA AutomaticIsPromised ==
    ASSUME Facts, NEW ok \in BOOLEAN, advanceAutomaticRound(ok)
    PROVE  PromiseStep
<1>1. CASE NextStep \in Stages /\ receipt(NextStep, ok) BY <1>1, ReceiptIsPromised
<1>2. CASE NextStep \in Operations /\ operate(NextStep, ok) BY <1>2, OperateIsPromised
<1>3. CASE advance(ok) BY <1>3, AdvanceIsPromised
<1>4. CASE Nothing BY <1>4, NothingIsPromised DEF Nothing, facts
<1> QED BY <1>1, <1>2, <1>3, <1>4 DEF advanceAutomaticRound

LEMMA ValidatesIsPromised ==
    ASSUME Facts, NEW id \in DOMAIN chain, validates(id)
    PROVE  PromiseStep
<1>1. loan' = loan /\ issued' = issued /\ chain[id] = "sent" BY DEF validates
<1>2. PICK fate \in Fates(id) : chain' = [chain EXCEPT ![id] = fate] BY DEF validates
<1>3. chain \in Chains BY DEF Facts, FactsType
<1>4. CASE id # "loan"
  <2>1. chain'["loan"] = chain["loan"] BY <1>2, <1>3, <1>4 DEF Chains
  <2> QED BY <1>1, <2>1, NothingIsPromised
<1>5. CASE id = "loan"
  <2>1. fate \in {"done", "failed"} /\ chain'["loan"] = fate /\ chain["loan"] = "sent"
    BY <1>1, <1>2, <1>3, <1>5 DEF Fates, Chains
  <2>2. loan.phase \in Signed
    BY <1>1, <1>5 DEF Facts, FactsType, StagesFollow, Loans
  <2>3. \E verdict \in {"tesSUCCESS", "tec"} : Promise!Decide(verdict)
    <3>1. CASE fate = "done" BY <1>1, <2>1, <2>2, <3>1 DEF Promise!Decide
    <3>2. CASE fate = "failed" BY <1>1, <2>1, <2>2, <3>2 DEF Promise!Decide
    <3> QED BY <2>1, <3>1, <3>2
  <2> QED BY <2>3 DEF PromiseStep, Promise!Next
<1> QED BY <1>4, <1>5

LEMMA StepIsPromised ==
    ASSUME IInv, [Next]_vars
    PROVE  PromiseStep
<1>1. Facts BY DEF IInv
<1>2. Nothing => PromiseStep BY NothingIsPromised DEF Nothing, facts
<1>3. CASE \E role \in Roles : approveLocally(role) BY <1>1, <1>3, ApproveIsPromised DEF approveLocally
<1>4. CASE run \/ enqueue \/ workerSaves \/ workerDies
  BY <1>2, <1>4 DEF run, enqueue, workerSaves, workerDies
<1>5. CASE clearStaleLock \/ (\E deadline \in Deadlines : passes(deadline)) \/ UNCHANGED vars
  BY <1>2, <1>5 DEF clearStaleLock, passes, vars, Nothing
<1>6. CASE automaticTick BY <1>1, <1>2, <1>6, AutomaticIsPromised DEF automaticTick
<1>7. CASE byHandLocally
  BY <1>1, <1>2, <1>7, ReceiptIsPromised, AdvanceIsPromised, OperateIsPromised, RecoverIsPromised
     DEF byHandLocally
<1>8. CASE signsLocally \/ signsOnBridge
  <2>1. Approved /\ loan.phase = "OPEN"
    BY <1>8 DEF signsLocally, signsOnBridge, IInv, CommandFollows
  <2> QED BY <1>1, <1>8, <2>1, SignIsPromised DEF signsLocally, signsOnBridge
<1>9. CASE byHandOnBridge
  BY <1>1, <1>2, <1>9, AdvanceIsPromised, AutomaticIsPromised, OperateIsPromised,
     RecoverIsPromised, HandingIsPromised DEF byHandOnBridge, plans
<1>10. CASE bridgeGoesOn
  BY <1>1, <1>2, <1>10, AutomaticIsPromised, AdvanceIsPromised, ApproveIsPromised DEF bridgeGoesOn
<1>11. CASE workerSteps
  BY <1>1, <1>2, <1>11, AutomaticIsPromised DEF workerSteps, plans
<1>12. CASE \E stage \in Stages : sealByHand(stage) BY <1>1, <1>12, SealingIsPromised
<1>13. CASE \E id \in DOMAIN chain : validates(id) BY <1>1, <1>13, ValidatesIsPromised
<1> QED
  BY <1>3, <1>4, <1>5, <1>6, <1>7, <1>8, <1>9, <1>10, <1>11, <1>12, <1>13 DEF Next

\* The round implements LoanPromise, as the service that it drives does: the
\* effects that it leaves each call of the service are those the service promises
\* (service.ts:53-167), whoever drives it and whatever fails.
THEOREM ImplementsPromise == Spec => KeepsPromise
<1>1. Init => Promise!Init
  <2> SUFFICES ASSUME Init PROVE Promise!Init
    OBVIOUS
  <2>1. {stage \in Stages : issued[stage] > 0} = {} BY DEF Init
  <2> QED BY <2>1 DEF Init, Promise!Init, Signed, Settled
<1>2. IInv /\ [Next]_vars => [Promise!Next]_(Promise!vars)
  BY StepIsPromised DEF PromiseStep
<1> QED BY <1>1, <1>2, Consistency, PTL DEF Spec, KeepsPromise, Promise!Spec
=============================================================================
