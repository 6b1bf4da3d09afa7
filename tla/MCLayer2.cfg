CONSTANTS
    NumProgs = 2
    TargetNop = 2
    FixedLen = 3
    LcBits = 12
    Capacity = 30
    AdtsLen = 7
    Forecast = 33
    PacketLens <- TwoPrograms
    AvgLen <- TwoAverages
    Reservoir = 8
    LagLimit = 2
    MaxBuffer = 4
    MaxDue = 6
    Sizes <- MCSizes
    Bytes <- MCBytes
    MaxLen = 3
    Sections <- MCSections
    Names <- MCNames
    SigTypes <- MCSigTypes
    MaxSigPrograms = 3
SPECIFICATION Layer2Spec
INVARIANTS
    NoOverrun
    KeepsUp
    PduFilled
    FramedWhole
    HeaderRead
    SigRead
PROPERTIES
    ImplementsPipe
