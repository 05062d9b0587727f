SPECIFICATION ESpec
CONSTANTS
    r1 = r1
    r2 = r2
    Ids <- MCIds
    Kinds <- MCKinds
    EdgeTypes <- MCEdgeTypes
    DependentTypes <- MCDependentTypes
    Confidences <- MCConfidences
    NotNumbers <- MCNotNumbers
    Decay <- MCDecay
    ReadBack <- MCReadBack
    NewRecords <- MCNewRecords
    Faults <- AllFaults
    MaxOps = 4
INVARIANTS
    ETypeOK
    NumbersIncrease
    FailedAppendsKeepChain
    IndexMissesNothing
    LiveIsReplayed
    OpeningRecovers
SYMMETRY IdSymmetry
