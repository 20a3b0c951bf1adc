CONSTANTS
    Path <- MCPath
    NoPath = ""
    Clean <- MCClean
    FileId = {"f1", "f2", "f3"}
    Inputs <- MCInputs
    SeedLists <- MCSeedLists
    Excluded = {{}, {"f1"}, {"f2"}, {"f1", "f3"}}
    Pending = Pending
SPECIFICATION Service
INVARIANTS
    TypeOK
    MapsExact
    NoNilMapWrite
    SameGraph
    AnswersFromImports
PROPERTIES
    OnlyGrows
