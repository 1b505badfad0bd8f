\* Two requests for three offers of two wallets; two matches, five writes.
SPECIFICATION MCSpec
CONSTANTS
    o1 = o1
    o2 = o2
    o3 = o3
    w1 = w1
    w2 = w2
    MaxWrites = 5
    Requests = {r1, r2}
    Details = {d1}
    MaxRequests = 2
    Offers = {o1, o2, o3}
    Wallet <- ThreeOffers
    Receipts = {}
    MaxOffers = 2
    MaxMatches = 2
    Clients = {c1}
    MaxAttempts = 1
    MaxInFlight = 2
SYMMETRY TwinSymmetry
INVARIANTS
    NoDoubleAllocation
