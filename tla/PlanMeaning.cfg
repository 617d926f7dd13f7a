CONSTANTS
    None = None
    Torn = Torn
    Null = Null
    Files <- MCFiles
    BaseName <- MCBaseName
    Text <- MCText
    Sessions <- MCSessions
    Drafts <- MCDrafts
    Batches <- MCBatches
    ValidName <- MCValidName
    CapSchema <- MCCapSchema
    IsNatural <- NaturalTree
    Compiled <- CompiledTree
    Built <- BuiltTree
    NoForm <- Refused
    KeyIds <- MCKeyIds
    ParamIds <- MCParamIds
    Rows <- MCRows
    Sorted <- MCSorted
SPECIFICATION BuildSpec
INVARIANTS
    WiredAsWritten
    MeaningKept
    IndexTrue
PROPERTIES
    ImplementsDslc
CHECK_DEADLOCK FALSE
