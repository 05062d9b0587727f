SPECIFICATION RSpec
CONSTANTS
    n1 = n1
    n2 = n2
    n3 = n3
    Nodes <- MCNodes
    Types <- MCTypes
    CascadeTypes <- MCCascadeTypes
    EdgeIds <- HyphenIds
    EdgeIdOf <- HyphenIdOf
    AppendFaults = TRUE
    MaxEdges = 2
    MaxCalls = 2
    MaxWrites = 1
INVARIANTS
    RTypeOK
    CascadeIsExact
    DowngradesAreAudited
    EdgesSurvive
    NothingRestsOnTarget
    WalkAgreesWithGraph
    BlockersAreNamed
PROPERTIES
    WalkShrinks
SYMMETRY NodeSymmetry
