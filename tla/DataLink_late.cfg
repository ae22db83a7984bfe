SPECIFICATION FairSpec
CONSTANTS
    MaxPackets = 5
    Timely = FALSE
INVARIANTS
    AckSkew
    StoredOnceInOrder
PROPERTIES
    EveryWriteEnds
