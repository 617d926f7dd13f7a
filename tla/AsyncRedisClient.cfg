CONSTANTS
    Command = {c1, c2, c3}
    Limits = {1, 2}
SPECIFICATION FairSpec
INVARIANTS
    PermitsSound
    PointersSound
PROPERTIES
    CommandsReturn
CHECK_DEADLOCK FALSE
