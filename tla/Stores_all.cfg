SPECIFICATION StoresSpec
CONSTANTS
    None = None
    Unknown = "unknown"
    EmptyText = EmptyText
    i1 = i1
    i2 = i2
    v1 = v1
    v2 = v2
    w1 = w1
    Writers = {a, b}
    Ids = {i1, i2}
    Batches <- MCBatches
    Dimension <- MCDimension
    MaxStores = 3
    Extractions <- MCExtractions
    MaxSeeds = 2
    MaxFailures = 2
INVARIANTS
    GraphsAgree
    RelatedAgree
    VectorsAgree
SYMMETRY MCSymmetry
CHECK_DEADLOCK FALSE
