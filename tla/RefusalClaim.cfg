SPECIFICATION Spec
CONSTANTS
    Deposit = 4
    Principal = 2
    Interest = 1
    MaxFaults = 1
PROPERTIES
    RefusalPrecedesRepayment
