SPECIFICATION FairSpec
CONSTANTS
    Torn = Torn
    Deleters = {d1}
    MaxTriggers = 1
    MaxFaults = 1
    Clients = {c1}
    Capacity = 2
    Channels = {"broadcast"}
    ChannelsOf <- MCChannelsOf
    MaxControls = 2
INVARIANTS
    InOrderOnce
    AnnouncedIsOnDisk
    NothingSkipped
CHECK_DEADLOCK FALSE
PROPERTIES
    AnnouncedIsSpoken
    EventsReachClients
