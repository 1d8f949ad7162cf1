SPECIFICATION FairSpec

CONSTANTS
    p1 = p1
    p2 = p2
    t1080 = t1080
    t2 = t2
    Proxies = {p1, p2}
    Ports = {t1080, t2}
    Foreign = {t1080}
    Want <- FixedAndAny
    AnyPort = AnyPort
    Losses = 1
    Faults = {"kill", "sftp"}
    None = None

CHECK_DEADLOCK FALSE

INVARIANTS
    EnvHonest
    ForwardsEnd
PROPERTIES
    ServingIsFound
    StopEnds
    Recovers
