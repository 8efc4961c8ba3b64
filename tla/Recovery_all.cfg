SPECIFICATION FairSpec
CONSTANTS
    Horizon = 3
    ErrorCap = 1
    NoMetrics = NoMetrics
    Loops = {l1}
    Clients = {c1}
    StallThreshold = 1
    ErrorWindows = {0, 2}
    MaxErrors = 0
    MaxHistory = 2
    NoState = NoState
    CountCap = 1
    MaxFaults = 1
INVARIANTS
    HistoryChains
PROPERTIES
    StallIsNoticed
    HealthIsNoticed
