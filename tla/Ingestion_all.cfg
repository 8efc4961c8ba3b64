SPECIFICATION FairSpec
CONSTANTS
    None = None
    Blank = "empty"
    Unknown = "unknown"
    Size <- MCSize
    MinContent = 2
    Names = {n1}
    Types = {"rss"}
    Urls <- MCUrls
    Serves <- MCServes
    Clients = {c1}
    Torn = Torn
    MaxChanges = 1
    MaxFaults = 2
    Items <- MCItems
    Window = 2
    RepoUrls = {}
    HackerNewsUrl <- MCHackerNews
    SecEdgarUrl <- MCSecEdgar
    WorkerSources <- MCWorkerSources
    Worker = worker
    Triggers = {t1}
    Now = 9
INVARIANTS
    AnnouncedIsArchived
    OneCopyPerPoller
PROPERTIES
    NewsIsArchived
CHECK_DEADLOCK FALSE
