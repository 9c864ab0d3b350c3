SPECIFICATION FairSpec
CONSTANTS
    a = a
    one = one
    left = left
    none = none
    NONE = none
    Letters = {}
    Symbols = {one}
    Mute = {}
    Special = {"caps"}
    Readers = {"keyboard_getChar", "keyboard_getScancode"}
    Builds = {"reload", "hoisted"}
    KeyBuffer = 2
    MaxTyped = 1
PROPERTIES LoopsUntilPressed
CHECK_DEADLOCK FALSE
