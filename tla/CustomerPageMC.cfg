\* Three overlapping polls across a restart; two requests, three reads of the
\* inbox, two posts and a reload; two agreements and two starts of the server;
\* two loans, two accounts, three ledgers and four requests for readings.
\* Counters stop at their bounds.
SPECIFICATION Spec
CONSTANTS
    MaxVersion = 3
    MaxRestarts = 1
    MaxTickets = 3
    Ids = {q1, q2}
    MaxRevision = 3
    MaxReads = 3
    MaxPosts = 2
    MaxReloads = 1
    Terms = {a1, a2}
    MaxStarts = 2
    Loans = {l1, l2}
    Accounts = {b1, b2}
    MaxIndex = 3
    MaxAsked = 4
SYMMETRY Symmetry
INVARIANTS
    UncertainIsRemembered
    DecisionIsOfWhatIsShown
PROPERTIES
    NeverShowsOlder
    AnswersBelong
CHECK_DEADLOCK FALSE
