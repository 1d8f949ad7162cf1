SPECIFICATION FairSpec

CONSTANTS
    c1 = c1
    c2 = c2
    c3 = c3
    d1 = d1
    d2 = d2
    d3 = d3
    f1 = f1
    f2 = f2
    strict = strict
    lax = lax
    NoProc = NoProc
    NoPath = NoPath
    StaleSock = StaleSock
    Clients = {c1, c2}
    Daemons = {d1, d2}
    Kind <- OpStop
    Policy <- SamePolicy
    Policies = {strict}
    Files = {f1, f2}
    Incumbent = d1
    OldVersion = {}
    Faults = {"kill_client", "edit", "deadline", "foreground", "hello_timeout"}

INVARIANTS
    ServedByMatchingConfig
    CleanExit
PROPERTIES
    HeldSpec
    AllFinish
    StopStops
