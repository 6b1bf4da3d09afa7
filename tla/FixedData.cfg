CONSTANTS
    Ports = {2, 5, 32}
    SigPort = 32
    ProgTypes = {0, 1}
    PduLens = {2, 3}
    DataBytes = 2
    BbmLen = 1
    BlockLen = 2
    MaxQueue = 2
SPECIFICATION FairSpec
INVARIANTS
    PduContiguous
    BoundedBypass
PROPERTIES
    ImplementsFairMux
