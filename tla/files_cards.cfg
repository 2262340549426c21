SPECIFICATION Spec
CONSTANTS
    NULL = NULL
    Files = {"a", "b"}
    Chain <- MCChain
    Size <- MCSize
    LastCluster = 4
    fat_count = 2
    SectorBytes = 2
    ClusterBytes = 4
    Word = 8
    Requests = {3}
    Skips = {}
    Positions = {5}
    Sizes = {7}
INVARIANTS
    OthersIntact
    ConsistentWithoutFaults
