SPECIFICATION Spec
CONSTANTS
    TimeoutNaps = 3
    SleepTicks = 3
    MaxSlips = 2
    MaxCharacters = 5
INVARIANTS
    TypeOK
    SleepCoversTimeout
    LeftLockBlocksNobody
    ErrorExitsRelease
