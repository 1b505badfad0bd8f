SPECIFICATION FairSpec
CONSTANTS
    Deposit = 4
    Principal = 2
    Interest = 1
    MaxFaults = 0
PROPERTIES
    VerdictIsJournaled
