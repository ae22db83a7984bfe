SPECIFICATION FairSpec
CONSTANTS
    SampRate = 200
    NumSamples = 4
    FirstReadings <- MCFirst
    Advances <- MCAdvances
    LastReading = 1090000
CONSTRAINT LoopBound
INVARIANTS
    TypeOK
    RecordsTile
    ArraysFit
    StartNearMarker
    OnlyStepBackEmpties
PROPERTIES
    CorrectionEnds
    StepBackIsForever
