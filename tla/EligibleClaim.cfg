SPECIFICATION Spec
CONSTANTS
    o1 = o1
    w1 = w1
    Requests = {r1}
    Details = {d1}
    MaxRequests = 2
    Offers = {o1}
    Wallet <- OneOffer
    Receipts = {dg1}
    MaxOffers = 1
    MaxMatches = 1
    Clients = {c1, c2}
    MaxAttempts = 2
    MaxInFlight = 2
PROPERTIES
    AcceptedIsEligible
