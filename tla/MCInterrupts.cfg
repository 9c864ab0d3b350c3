SPECIFICATION FairSpec
CONSTANTS
    Lines = {0, 1, 12, 14}
    Drivers <- MCDrivers
    OwnEoi = {12}
    MaxFrames = 2
INVARIANTS ReadyWhenEnabled NoNesting InServiceIsHandled
PROPERTIES RequestsNeverHalt EoiRetiresOwn Served
CHECK_DEADLOCK FALSE
