SPECIFICATION FairSpec
CONSTANTS
    Zones <- MCZones
    LowMemory = 2
    KernelBase = 4
    KernelEnd = 6
    CacheSize = 1
    MapSize = 1
    Nmemb = 4
    BlockSize = 1
    MaxCaches = 1
    Sizes = {2}
    Bases = {22}
    MaxDepth = 14
INVARIANTS Tiled NoSharing BlocksConserved NothingLeaks FailsOnlyWhenFull
PROPERTIES CallsReturn ImplementsReservations
CHECK_DEADLOCK FALSE
