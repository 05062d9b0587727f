SPECIFICATION Spec
CONSTANTS
    a = a
    b = b
    x = x
    y = y
    Ids <- MCIds
    Contents <- TwoContents
    Splitting <- SecondContent
    Statuses <- MCStatuses
    Faults <- NoFaults
    SnapshotEvery = 2
    MaxWrites = 3
INVARIANT AppendedIsReplayed
