CONSTANTS
    None = None
    Width = 4
    Id <- MCId
    Task <- MCTask
    Plans <- MCPlans
SPECIFICATION WritesSpec
INVARIANTS
    AcceptanceExact
    LookupsSucceed
    WritesSound
CHECK_DEADLOCK FALSE
