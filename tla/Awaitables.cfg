CONSTANTS
    CpuTimer = ct
    AsyncTimer = at
    Timer = {ct, at}
SPECIFICATION FairSpec
INVARIANTS
    AwaitsSound
PROPERTIES
    DecidedOnce
    AwaitsReturn
CHECK_DEADLOCK FALSE
