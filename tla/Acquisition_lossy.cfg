SPECIFICATION FairSpec
CONSTANTS
    N = 2
    MaxBlocks = 3
    LineCapacity = 3
    MaxLost = 3
    Restarts <- MidBlock
INVARIANTS
    TypeOK
    RecordsAligned
    TimestampFirst
    OffsetIsLosses
    SamplesConserved
PROPERTIES
    BlocksPacked
    KeyStops
    LostStartIsFinal
