CONSTANTS
    Documents <- MCDocuments
    Baselines <- MCBaselines
    Sorted <- MCSorted
    Fold <- MCFold
    Encoded <- MCEncoded
    MaxNesting = 6
SPECIFICATION LoadSpec
INVARIANTS
    OneMeaning
    LoadAfterWrite
