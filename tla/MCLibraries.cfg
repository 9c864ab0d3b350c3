SPECIFICATION MCSpec
CONSTANTS
    Height = 2
    Names = 2
    Tones = 1
    MaxObjects = 3
    DataSize = 2
    Direct = 2
    Indirect = 2
    PerIndirect = 2
    Sizes = {0, 3, 4, 5, 8, 9, 12, 13}
    MaxFiles = 2
    MaxSwitches = 5
INVARIANTS HeapSound NothingLost FoundAgain AsDefined
PROPERTIES NoFitMissed
CHECK_DEADLOCK FALSE
