CONSTANT Trees <- MCTrees
SPECIFICATION Spec
PROPERTIES
    ReadsTheTree
