CONSTANTS
    Commands <- MCCommands
    BytesPerFrame = 2
    IntMax = 8
    PacketLen = 3
    SplitLines = FALSE
    MaxCommands = 2
    MaxCredit = 4
    Channels = 2
    FrameLength = 2
    MeanBytes = 3
    FrameBytes <- MCFrameBytes
    InputSize = 5
    OutputSize = 5
    Window = 10
SPECIFICATION ProgramsSpec
INVARIANTS
    MetaAsSent
    BytesInOrder
PROPERTIES
    NewMetaOnAir
    EveryCallWorks
