SPECIFICATION Spec
CONSTANTS
    deal = deal
    deal2 = deal2
    sale = sale
    apple = apple
    austin = austin
    google = google
    london = london
    Claims = {deal, sale}
    Entities <- MCEntities
    NoEntity = NoEntity
    Subject <- MCSubject
    Object <- MCObject
    Place <- MCPlace
    Places <- MCPlaces
    NoPlace = NoPlace
    Words <- MCWords
    Within <- MCWithin
    StabilityHours = 1
    Engine = engine
    Clients = {r1}
    NoFile = NoFile
    Torn = Torn
    Nobody = Nobody
    NoClaim = NoClaim
    MaxIngests = 2
    MaxHours = 1
    MaxFaults = 0
PROPERTY EventsKept
