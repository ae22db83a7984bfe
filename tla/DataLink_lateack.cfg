SPECIFICATION Spec
CONSTANTS
    MaxPackets = 3
    Timely = FALSE
INVARIANTS
    AckMeansStored
