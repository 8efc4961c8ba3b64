SPECIFICATION FairSpec
CONSTANTS
    Callers = {c1, c2}
    MaxConcurrency = 1
    MaxCancels = 1
INVARIANTS
    TypeOK
    PermitsConserved
    CountersExact
PROPERTY EveryCallReturns
