CONSTANTS
    None = None
    Failure = Failure
    Unset = None
    SavedIds = {s1, s2}
    Kept = {s1}
    Default = default
    Viewed = viewed
    Unnamed = unnamed
    Revs = {0, 1}
    Pristine = 0
    Good = {0}
    Panels = {"editor", "canvas"}
    Requests = {r1, r2}
    MaxUser = 5
SPECIFICATION FairSpec
INVARIANTS
    CompileOwn
    QuietInStep
    LayoutOfMode
PROPERTIES
    DeletedByConsent
    TextByTyping
    CompileEnds
CHECK_DEADLOCK FALSE
