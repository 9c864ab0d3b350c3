SPECIFICATION Spec
CONSTANTS
    Slots = 2
    Base = 3
    f1 = f1
    f2 = f2
    u1 = u1
    NULL = NULL
    Functions = {f1}
    Users = {u1}
    Timeouts = {2}
    Freq = 100
    Seconds = {}
    Builds = {"reload"}
PROPERTIES CalledAfterMilliseconds
