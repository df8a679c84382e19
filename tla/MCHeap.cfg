\* Two regions that touch and one that is too small for a list node.
SPECIFICATION Spec
CONSTANTS
    Regions <- MCRegions
    Requests = {1, 4, 5}
    Header = 1
    Node = 4
INVARIANTS
    TypeOK
    MemoryAccounted
    NeighboursMerged
