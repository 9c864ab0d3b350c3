SPECIFICATION FairSpec
CONSTANTS
    a = a
    one = one
    left = left
    DiskByte = 4
    Nibble = 2
    SectorsPerTrack = 3
    DiskSize = 100
    Faults = FALSE
    MaxCalls = 2
    MouseWidth = 7
    MouseHeight = 3
    MaxMoves = 2
    MaxKeys = 1
    Slow = TRUE
    VGA_TEXT_WIDTH = 5
    VGA_TEXT_HEIGHT = 1
    MAXIMUM_PAGES = 2
    CursorLimit = 11
    MaxPrints = 3
    MaxInterrupts = 1
    KeyBuffer = 1
    MaxTyped = 4
    NONE = none
    Base = 3
    Freq = 2
    Positions <- MCPositions
    Kinds <- MCKinds
    Counts <- MCCounts
    Lbas <- MCLbas
    Slots <- MCSlots
    Builds <- MCBuilds
    Moves <- MCMoves
    Pointers <- MCPointers
    Echoed <- MCEchoed
    Strings <- MCStrings
    Letters <- MCLetters
    Symbols <- MCSymbols
    Mute <- MCMute
    Seconds <- MCSeconds
    Hooked = {TRUE, FALSE}
INVARIANTS TypeOK DrivesFound OnlyAsked Transferred InStep CursorFollows PagesKept Typewriter
PROPERTIES SleepsLongEnough CallsEnd
CHECK_DEADLOCK FALSE
