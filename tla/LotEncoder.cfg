\* Clients stop when all commands are sent.
CONSTANTS
    Clients = {c1, c2}
    Kinds = {"file", "missing", "invalid", "stream", "refused", "barred"}
    MaxCommands = 3
SPECIFICATION Spec
SYMMETRY ClientSymmetry
CHECK_DEADLOCK FALSE
INVARIANTS
    InOrder
    NothingWaits
    LossBounded
