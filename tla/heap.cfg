SPECIFICATION FairSpec
CONSTANTS
    HeapBytes = 84
    HEADER_SIZE = 12
    WordMod = 256
    Requests = {0, 1, 9, 24}
INVARIANTS
    TypeOK
    Tiled
    LiveBacked
    FullyRestored
    WordAligned
    StatisticsHonest
PROPERTIES
    CallsReturn
    Implements
