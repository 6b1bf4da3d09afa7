\* The script ends.
CHECK_DEADLOCK FALSE
CONSTANTS
    Digits <- MCDigits
    MaxLocations = 31
SPECIFICATION Spec
INVARIANTS
    ControlAccepted
