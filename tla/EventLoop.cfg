CONSTANTS
    s1 = s1
    s2 = s2
    p1 = p1
    p2 = p2
    quit = quit
    relay = relay
    echo = echo
    Starters = {s1, s2}
    Stoppers = {p1, p2}
    Callback = {quit, relay}
    Kind <- MCKind
    Echo = echo
    MayFail = TRUE
SPECIFICATION LoopFairSpec
INVARIANTS
    LoopSound
    AcceptedRan
PROPERTIES
    StopIsFinal
    CallsReturn
CHECK_DEADLOCK FALSE
