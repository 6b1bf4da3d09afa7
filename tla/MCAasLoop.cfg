CONSTANTS
    Ports <- MCPorts
    SigPort = 32
    ProgTypes = {1}
    PduLens = {2}
    DataBytes = 2
    BbmLen = 1
    BlockLen = 2
    MaxQueue = 2
    FileParts = {1, 2}
    MaxReady = 2
    MaxInbox = 2
SPECIFICATION LoopFairSpec
INVARIANTS
    NeverSilent
    OneInFlight
PROPERTIES
    Carousel
    NewFileSent
