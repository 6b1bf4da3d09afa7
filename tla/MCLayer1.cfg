\* AM: one frame in a call, what an output buffer of twice the output multiple gives.
CONSTANTS
    Modes <- MCModes
    Frames = 5
    MaxFrames = 3
    AmFrames = 11
    AmMaxFrames = 1
SPECIFICATION Layer1Spec
INVARIANTS
    ChannelsInStep
    ThreeFramesSpread
    EveryBitPlaced
PROPERTIES
    ImplementsStream
    AmImplementsStream
