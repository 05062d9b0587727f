SPECIFICATION XSpec
CONSTANTS
    t = t
    u = u
    Names <- MCNames
    Measurements <- MCMeasurements
    MaxClock = 2
    MaxRecordings = 3
INVARIANTS
    RecordingsAreKept
    ReportAddsUp
SYMMETRY NameSymmetry
