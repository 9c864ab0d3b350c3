SPECIFICATION Spec
CONSTANTS
    a = a
    one = one
    left = left
    none = none
    NONE = none
    Letters = {}
    Symbols = {one}
    Mute = {}
    Special = {"caps"}
    Readers = {"keyboard_getChar", "keyboard_getScancode"}
    Builds = {"reload", "hoisted"}
    KeyBuffer = 2
    MaxTyped = 2
INVARIANTS ScancodeIsPress
CHECK_DEADLOCK FALSE
