\* The buffers of the other layer 2 and of the HDC encoder at their smallest.
CONSTANTS
    Stations <- MCStations
    Capacity = 15
    P3Capacity = 2
    AudioNeed = 2
    AudioCapacity = 3
    MaxFrames = 2
SPECIFICATION FairSpec
INVARIANTS
    TwoFramesAhead
    SomeoneCanWork
    AasAnswered
    OnePace
PROPERTIES
    FramesForEver
