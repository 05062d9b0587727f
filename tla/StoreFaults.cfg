SPECIFICATION Spec
CONSTANTS
    a = a
    b = b
    x = x
    y = y
    Ids <- MCIds
    Contents <- TwoContents
    Splitting <- SecondContent
    Statuses <- MCStatuses
    Faults <- AllFaults
    SnapshotEvery = 2
    MaxWrites = 3
INVARIANTS
    TypeOK
    SeqIncreasing
    MemoryMatchesDisk
    ChainHolds
    LogAloneSuffices
    ChangesAreReported
    CounterMatchesLog
PROPERTIES
    LogShrinksOnlyCovered
    ImplementsMap
SYMMETRY IdSymmetry
