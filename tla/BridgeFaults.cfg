SPECIFICATION BSpec
CONSTANTS
    a = a
    b = b
    Ids <- MCIds
    Titles <- MCTitles
    Rests <- MCRests
    GovStatuses <- MCGovStatuses
    Deprecating <- MCDeprecating
    Listings <- MCListings
    WritesRaise = TRUE
    MaxEdits = 1
    MaxMigrations = 2
    MaxWrites = 1
INVARIANTS
    BTypeOK
    ListedIsStored
    RerunWritesNothing
    ListedAreAnswered
