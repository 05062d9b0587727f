SPECIFICATION RSpec
CONSTANTS
    n1 = n1
    n2 = n2
    n3 = n3
    Nodes <- MCNodes
    Types <- OneType
    CascadeTypes <- MCCascadeTypes
    EdgeIds <- HyphenIds
    EdgeIdOf <- HyphenIdOf
    AppendFaults = FALSE
    MaxEdges = 2
    MaxCalls = 2
    MaxWrites = 1
INVARIANT CascadeReachesAll
