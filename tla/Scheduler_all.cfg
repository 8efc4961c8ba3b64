SPECIFICATION FairSpec
CONSTANTS
    Jobs = {poll}
    Slots <- MCSlots
    Horizon = 2
    Hour = 2
    Loops = {l1, l2}
    Never = Never
    NoFile = NoFile
    Torn = Torn
    MaxTime = 3
    MaxFaults = 1
    MaxManual = 1
INVARIANTS
    SlotsFireOnce
    CountsAreExact
PROPERTY DueFires
