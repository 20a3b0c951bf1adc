CONSTANTS
    Rule <- MCRule
    SourcePath <- MCSourcePath
    Target <- MCTarget
    Rank <- MCRank
    Results <- MCResults
    Handwritten <- MCHandwritten
    Pending = Pending
    Refused = Refused
SPECIFICATION Spec
INVARIANTS
    RoundTrip
    GeneratedAccepted
    Canonical
    StaleMeansFixed
PROPERTIES
    ImplementsPartition
