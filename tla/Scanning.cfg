CONSTANTS
    Name <- MCName
    Character <- MCCharacter
    Inputs <- MCInputs
    Imports <- MCImports
    Skipped = {"_"}
    Malformed <- MCMalformed
    Dotted = {"."}
SPECIFICATION Spec
INVARIANTS
    EveryFileOnce
    OneNameSpace
    OneModulePath
