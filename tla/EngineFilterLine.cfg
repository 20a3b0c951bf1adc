CONSTANTS
    Questions <- Walks
    Rank <- MCRank
SPECIFICATION Spec
INVARIANTS
    FilterKeepsLine
