CONSTANTS
    None = None
    Torn = Torn
    Refused = Refused
    p1 = p1
    p2 = p2
    Procs = {p1, p2}
    Toml <- MCToml
    Sessions <- MCSessions
    Drafts <- MCDrafts
    Payloads <- MCPayloads
SYMMETRY Symmetry
SPECIFICATION Spec
INVARIANTS
    DoneMeansCurrent
    SameDigestSameMeaning
CHECK_DEADLOCK FALSE
