SPECIFICATION Spec
CONSTANTS
    a = a
    b = b
    x = x
    y = y
    Ids <- MCIds
    Contents <- OneContent
    Splitting <- NoContent
    Statuses <- MCStatuses
    Faults <- CutCompact
    SnapshotEvery = 2
    MaxWrites = 3
INVARIANT ChainValid
