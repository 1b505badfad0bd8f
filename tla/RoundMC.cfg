\* Both deployments; two crashes or failed writes. Two builds of the ledger
\* server and four breaks of its connection.
SPECIFICATION FairSpec
CONSTANTS
    MaxFaults = 2
    MaxBuild = 2
    MaxBreaks = 4
INVARIANTS
    NeverReissued
    JobIsTruthful
PROPERTIES
    SignatureIsAuthorized
    OutcomeStands
    KeepsPromise
    RoundSettles
    StartsIdentified
    ConnectionRecovers
