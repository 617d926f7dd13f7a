CONSTANTS
    N = 3
    Plans <- SmallPlans
    LoopMayStop = FALSE
SPECIFICATION Spec
INVARIANT
    FrameAliveAtNotify
CHECK_DEADLOCK FALSE
