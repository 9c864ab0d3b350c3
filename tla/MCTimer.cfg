SPECIFICATION Spec
CONSTANTS
    Slots = 2
    Base = 3
    f1 = f1
    f2 = f2
    u1 = u1
    NULL = NULL
    Functions <- MCFunctions
    Users <- MCUsers
    Timeouts <- MCTimeouts
    Freq = 1
    Seconds = {0, 1}
    Builds = {"reload"}
INVARIANTS TypeOK NeverCallsNull LatestRegistered NeverLate
PROPERTIES EvenlySpaced
