SPECIFICATION FairSpec
CONSTANTS
    MaxRetries = 2
    BaseBackoff = 1
    Types <- MCTypes
    MaxEvents = 3
    MaxFaults = 1
    NoJob = NoJob
INVARIANTS
    NothingLostSilently
    SnapshotIsFresh
    OneFilePerEvent
    RetriesAreCounted
PROPERTIES
    DeadLettersKept
    ImplementsLifecycle
    EveryEventSettles
