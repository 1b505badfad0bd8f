\* Two processes, two crashes or failed writes; safety, refinement, liveness
\* and what people are told and offered. No symmetry, because of liveness.
SPECIFICATION FairSpec
CONSTANTS
    Procs = {server, cli}
    NoProc = NoProc
    Window = 2
    MaxLedger = 4
    MaxFaults = 2
INVARIANTS
    TypeOK
    ChargedAtMostOnce
    ChargeIsOnRecord
    SentIsAuthorized
    PhaseIsTruthful
    OfferedIsAccepted
    ToldTruthfully
PROPERTIES
    NothingForgotten
    NeverRewinds
    KeepsPromise
    VerdictIsReported
    LockIsFreed
CHECK_DEADLOCK FALSE
