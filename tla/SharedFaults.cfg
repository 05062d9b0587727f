SPECIFICATION SSpec
CONSTANTS
    p = p
    q = q
    a = a
    b = b
    Instances <- MCInstances
    Writers <- MCWriters
    Ids <- MCIds
    Values <- MCValues
    SnapshotEvery = 2
    MaxWrites = 3
INVARIANTS
    STypeOK
    WritesSurvive
    CurrentUntilOvertaken
PROPERTIES
    OpenSeesNow
SYMMETRY Symmetry
