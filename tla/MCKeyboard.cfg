SPECIFICATION FairSpec
CONSTANTS
    a = a
    one = one
    left = left
    none = none
    NONE = none
    Letters = {}
    Symbols = {one}
    Mute = {}
    Special = {"caps"}
    Readers = {"keyboard_getChar", "keyboard_getScancode"}
    Builds = {"reload", "hoisted"}
    KeyBuffer = 2
    MaxTyped = 4
INVARIANTS NeverPolls Matched InOrderOnce
PROPERTIES EveryKeyHandled ReaderReturns
CHECK_DEADLOCK FALSE
