SPECIFICATION Spec
CONSTANTS
    Lines = {0, 1, 12}
    Drivers <- MCDrivers
    OwnEoi = {12}
    MaxFrames = 2
INVARIANTS AllMaskedAtFirst
CHECK_DEADLOCK FALSE
