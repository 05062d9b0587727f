SPECIFICATION SSpec
CONSTANTS
    p = p
    q = q
    a = a
    b = b
    Instances <- MCInstances
    Writers <- OneWriter
    Ids <- MCIds
    Values <- MCValues
    SnapshotEvery = 2
    MaxWrites = 3
INVARIANT ReadersAreConsistent
