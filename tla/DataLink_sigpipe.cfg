SPECIFICATION Spec
CONSTANTS
    MaxPackets = 3
    Timely = TRUE
INVARIANTS
    SendReturns
