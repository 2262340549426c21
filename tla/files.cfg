SPECIFICATION Spec
CONSTANTS
    NULL = NULL
    Files = {"a", "b"}
    Chain <- MCChain
    Size <- MCSize
    LastCluster = 4
    fat_count = 1
    SectorBytes = 2
    ClusterBytes = 4
    Word = 8
    Requests = {1, 3, 7}
    Skips = {7}
    Positions = {0, 5}
    Sizes = {7}
INVARIANTS
    TypeOK
    CursorOnChain
    ReadsItsFile
PROPERTIES
    CallsReturn
    ImplementsService
