CONSTANTS
    Patterns <- MCPatterns
    Captures = {0, 1, 2, 3}
    MaxInt = 11
    Atom = "atom"
SPECIFICATION TemplateSpec
INVARIANTS
    ReadersAgree
PROPERTIES
    ExpansionServed
