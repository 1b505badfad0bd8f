\* README.md:155-157 claims an unresolved receipt can be recovered by its ID.
SPECIFICATION Spec
CONSTANTS
    Procs = {server}
    NoProc = NoProc
    Window = 1
    MaxLedger = 2
    MaxFaults = 1
INVARIANTS
    UnresolvedIsRecoverable
CHECK_DEADLOCK FALSE
