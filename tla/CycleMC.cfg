SPECIFICATION Spec
CONSTANTS
    Deposit = 4
    Principal = 2
    Interest = 1
    MaxFaults = 2
INVARIANTS
    TypeOK
    InOrder
    EvidenceIsTrue
    YieldIsEarned
    OfferedUntilRedeemed
PROPERTIES
    OneBlob
    RecordKeepsHistory
