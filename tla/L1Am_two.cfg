\* Two frames in a call: a larger output buffer.
CONSTANTS
    Frames = 11
    MaxFrames = 2
SPECIFICATION Spec
INVARIANTS
    EveryPduSent
