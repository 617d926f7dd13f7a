CONSTANTS
    N = 3
    Plans <- SmallPlans
    MaxInflight = 2
SPECIFICATION FairSpec
INVARIANTS
    JobsSound
    EndsComplete
PROPERTIES
    CallEnds
CHECK_DEADLOCK FALSE
