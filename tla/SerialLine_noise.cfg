SPECIFICATION Spec
CONSTANTS
    BlockSize = 2
    MaxLines = 5
    FieldWidth = 2
    LineSize = 14
    TokenSize = 4
    Timeout = 2
    Readings <- Edges
    MaxDamage = 3
INVARIANTS
    TypeOK
    DamageIsLocal
    LinesCounted
    FalseMarkersAreRare
    OverrunNeedsLoss
    ConversionKeepsOrder
