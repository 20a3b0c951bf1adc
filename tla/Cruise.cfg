CONSTANTS
    Config = {"lax", "strict", "bad config"}
    BadConfig = {"bad config"}
    GoMod = {"module", "bad module"}
    BadGoMod = {"bad module"}
    File = {"f", "g"}
    Text = {"absent", "one", "many", "bad text"}
    Absent = "absent"
    BadText = {"bad text"}
    Id = {"x", "y"}
    Found <- MCFound
    Arguments <- MCArguments
    Baselines <- MCBaselines
    Missing = Missing
    Broken = Broken
    NoOrigin = NoOrigin
    MaxRuns = 2
    MaxEdits = 2
SPECIFICATION Spec
INVARIANTS
    PassesIffClean
    Ratchet
    FailsQuietly
