CONSTANTS
    Questions <- MCQuestions
    Rank <- MCRank
SPECIFICATION Spec
INVARIANTS
    NoError
    LowestLine
    Split
    FilterNarrows
    ScopesAgree
    UnstableAcyclic
    OneOrder
    IdentityDetermines
    NothingSlips
PROPERTIES
    Termination
