---------------------------- MODULE LoanPromise ----------------------------
(* What the service promises to the two people of one loan request, with no *)
(* file, process, lock or network in it: nothing is signed without both     *)
(* approvals and a sealed agreement, the ledger decides a signed            *)
(* transaction once, what the service reports is what the ledger decided,   *)
(* and each of the two metered receipts is bought for a reason.             *)
VARIABLES
    consent,    \* roles whose exact approval is on record
    signed,     \* the cosigned transaction is on record
    decided,    \* the ledger's verdict on it: none, tesSUCCESS or tec
    reported,   \* the verdict on record at the service
    charged,    \* receipt stages the authority has charged for
    evidence    \* receipt stages whose receipt is on record

vars == <<consent, signed, decided, reported, charged, evidence>>

Roles == {"broker", "borrower"}
Stages == {"agreement", "execution"}

Init ==
    /\ consent = {}
    /\ signed = FALSE
    /\ decided = "none"
    /\ reported = "none"
    /\ charged = {}
    /\ evidence = {}

Approve(role) ==
    /\ ~signed
    /\ consent' = consent \cup {role}
    /\ UNCHANGED <<signed, decided, reported, charged, evidence>>

\* A receipt is charged once, for approved terms or for reported funding; it
\* may be put on record with the charge, or later.
Charge(stage) ==
    /\ stage \notin charged
    /\ IF stage = "agreement" THEN consent = Roles /\ ~signed
                              ELSE reported = "tesSUCCESS"
    /\ charged' = charged \cup {stage}
    /\ evidence' \in {evidence, evidence \cup {stage}}
    /\ UNCHANGED <<consent, signed, decided, reported>>

Keep(stage) ==
    /\ stage \in charged
    /\ evidence' = evidence \cup {stage}
    /\ UNCHANGED <<consent, signed, decided, reported, charged>>

Sign ==
    /\ consent = Roles
    /\ "agreement" \in evidence
    /\ signed' = TRUE
    /\ UNCHANGED <<consent, decided, reported, charged, evidence>>

\* Only a transaction whose signature is on record can reach the ledger.
Decide(verdict) ==
    /\ signed
    /\ decided = "none"
    /\ decided' = verdict
    /\ UNCHANGED <<consent, signed, reported, charged, evidence>>

Report ==
    /\ decided # "none"
    /\ reported = "none"
    /\ reported' = decided
    /\ UNCHANGED <<consent, signed, decided, charged, evidence>>

Next ==
    \/ \E role \in Roles : Approve(role)
    \/ \E stage \in Stages : Charge(stage) \/ Keep(stage)
    \/ Sign
    \/ \E verdict \in {"tesSUCCESS", "tec"} : Decide(verdict)
    \/ Report

Spec == Init /\ [][Next]_vars
=============================================================================
