SPECIFICATION Spec

CONSTANTS
    c1 = c1
    c2 = c2
    c3 = c3
    d1 = d1
    d2 = d2
    d3 = d3
    f1 = f1
    f2 = f2
    strict = strict
    lax = lax
    NoProc = NoProc
    NoPath = NoPath
    StaleSock = StaleSock
    Clients = {c1, c2, c3}
    Daemons = {d1, d2, d3}
    Kind <- HoldOpStop
    Policy <- SamePolicy
    Policies = {strict}
    Files = {f1}
    Incumbent = d1
    OldVersion = {d1}
    Faults = {"kill_daemon", "expire", "exec_idle"}

SYMMETRY DaemonSymmetry

INVARIANTS
    Reachable
    StartupCoalesces
PROPERTIES
    RemovesOnlyStale
