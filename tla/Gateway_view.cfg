SPECIFICATION Spec
CONSTANTS
    None = None
    Blank = "empty"
    Size <- MCSize
    MinContent = 1
    Names = {n1}
    Types = {"rss"}
    Urls <- MCUrls
    Clients = {c1, c2}
    Torn = Torn
    MaxChanges = 0
    MaxFaults = 0
    Unknown = "unknown"
    Letters <- MCLetters
    Organizations = {"Acme"}
    Locations = {"Austin"}
    Strategy <- MCStrategy
    EmbeddingSlot = 2
    LlmSlot = TRUE
    Bounds <- MCBounds
    Overflow = 1000
    Documents <- MCDocuments
    MaxCycles = 1
    Targets = {"Acme", "Austin", "Ghost"}
INVARIANTS
    LiveMetricsShown
CHECK_DEADLOCK FALSE
