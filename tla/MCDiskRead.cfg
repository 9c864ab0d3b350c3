SPECIFICATION Spec
CONSTANTS
    Byte = 4
    Nibble = 2
    SectorsPerTrack = 3
    Positions = {1}
    Kinds = {"ATA"}
    DiskSize = 100
    Counts = {2}
    Lbas = {1}
    Slots = {0}
    Builds = {"reloaded"}
    Faults = FALSE
    MaxCalls = 1
PROPERTIES ReadLeavesDisk
CHECK_DEADLOCK FALSE
