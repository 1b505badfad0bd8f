SPECIFICATION Spec
CONSTANTS
    Requests = {r1, r2}
    Details = {d1, d2}
    Clients = {c1, c2}
    MaxRequests = 1
    MaxAttempts = 2
    MaxInFlight = 2
SYMMETRY Symmetry
INVARIANTS
    AckIsDurable
PROPERTIES
    KeepsPromise
