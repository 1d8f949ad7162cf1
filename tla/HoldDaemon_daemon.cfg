SPECIFICATION FairSpec

CONSTANTS
    Conns = {o1, o2, s1}
    Stops = {s1}
    Slots = 1
    Idle = 1
    MaxTime = 1
    Faults = {"drop", "garbage"}
    Nobody = Nobody

INVARIANTS
    Counted
    IdleSparesRunning
PROPERTIES
    ShutdownEnds
    IdleEnds
