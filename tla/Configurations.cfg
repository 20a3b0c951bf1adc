CONSTANTS
    Documents <- MCDocuments
    Programs <- MCPrograms
    Groups <- MCGroups
    Reference <- MCReference
    Integer <- MCInteger
SPECIFICATION Spec
INVARIANTS
    AcceptsValid
    SchemaAgrees
    SameMeaning
    SameRules
