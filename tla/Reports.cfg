CONSTANT
    InputReports <- MCInputReports
SPECIFICATION Spec
INVARIANTS
    EveryViolationTold
    SummaryAgrees
