\* Two proposals and three stops of the bridge; two publishing bridges; two
\* reservations across an hour. Counters stop at their bounds.
SPECIFICATION Spec
CONSTANTS
    Matches = {m1, m2}
    MaxStops = 3
    Runs = {run1, run2}
    MaxProgress = 2
    MaxRuns = 2
    MaxAttempts = 3
    MaxInFlight = 2
    MaxWrites = 3
    MaxNow = 2
    Callers = {c1, c2}
    Sessions = {s1, s2}
    LastHour = 1
    MaxCounting = 2
    Limit <- Limits
    BudgetAttempts = 2
SYMMETRY Symmetry
INVARIANTS
    OneAccountPerRole
    GrantedWithinLimits
PROPERTIES
    PublishedStands
CHECK_DEADLOCK FALSE
