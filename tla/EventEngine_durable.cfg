SPECIFICATION Spec
CONSTANTS
    deal = deal
    deal2 = deal2
    sale = sale
    apple = apple
    austin = austin
    google = google
    london = london
    Claims = {deal, deal2, sale}
    Entities <- MCEntities
    NoEntity = NoEntity
    Subject <- MCSubject
    Object <- MCObject
    Place <- MCPlace
    Places <- MCPlaces
    NoPlace = NoPlace
    Words <- MCWords
    Within <- MCWithin
    StabilityHours = 1
    Engine = engine
    Clients = {}
    NoFile = NoFile
    Torn = Torn
    Nobody = Nobody
    NoClaim = NoClaim
    MaxIngests = 3
    MaxHours = 1
    MaxFaults = 2
INVARIANTS
    AckedIsKept
    FlushedAfterWrite
    AtomicReplace
