SPECIFICATION FairSpec

CONSTANTS
    Files = {f1, f2, f3}
    Excluded = {f3}
    Delete = TRUE
    Workers = {w1, w2}
    Edits = 2
    Fails = 1
    Faults = {"lose", "stop"}
    None = None
    Part = Part
    Torn = Torn
    Now = Now

INVARIANTS
    SuccessIsSynced
PROPERTIES
    RoundsEnd
    Converges
