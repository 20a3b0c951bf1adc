CONSTANTS
    Path <- MCPath
    NoPath = ""
    Clean <- MCClean
    SeedLists <- MCSeedLists
    Pending = Pending
SPECIFICATION Spec
INVARIANTS
    SearchExact
PROPERTIES
    ImplementsQuery
