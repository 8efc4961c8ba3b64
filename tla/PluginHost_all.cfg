SPECIFICATION FairSpec
CONSTANTS
    audit = audit
    reEmitter = reEmitter
    Plugins = {audit, reEmitter}
    EventTypes = {"processed", "received", "re_emitted"}
    Subscribes <- MCSubscribes
    EntityTypes <- MCEntityTypes
    EntityType <- MCEntityType
    Emits <- MCEmits
    Stateful = {audit}
    Nothing = Nothing
    Torn = Torn
    Routers = {run}
    Requests = {q1}
    MaxEvents = 2
    MaxFaults = 2
    FailureCap = 2
INVARIANTS
    GivenOnce
PROPERTIES
    StartsEnd
    ErrorsHeal
CHECK_DEADLOCK FALSE
