SPECIFICATION Spec
CONSTANTS
    SampRate = 200
    NumSamples = 3
    Corrections <- MCCorrections
    NumChannels = 2
    FirstStart = 995000
    MaxSequence = 3
    MaxBlocks = 3
INVARIANTS
    ChannelsInStep
PROPERTIES
    TimesCoverRecord
    HolesAreDrops
    SequenceCounts
