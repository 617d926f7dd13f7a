CONSTANTS
    N = 3
    Plans <- SmallPlans
    LoopMayStop = TRUE
SPECIFICATION FairSpec
INVARIANTS
    InputsPresent
    CountsExact
    StateOutlivesNodes
PROPERTIES
    ImplementsDagExecution
    CallerReturns
CHECK_DEADLOCK FALSE
