SPECIFICATION Spec
CONSTANTS
    FirstStarts <- MCFirst
    Lengths <- MCLengths
    OffTimes <- MCOff
    MaxBlocks = 5
    MaxRuns = 2
INVARIANTS
    ContinuousSave
