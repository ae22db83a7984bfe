SPECIFICATION FairSpec
CONSTANTS
    MaxPackets = 8
    Timely = TRUE
PROPERTIES
    ImplementsLog
