SPECIFICATION FairSpec

CONSTANTS
    j = j
    t = t
    p1 = p1
    p2 = p2
    bastion = bastion
    host = host
    k1 = k1
    k2 = k2
    None = None
    Calls = {j, t, p1, p2}
    Hosts = {bastion, host}
    Jump <- TheJump
    Target <- TheTarget
    Policy <- ThePolicy
    Probes = {p1, p2}
    Parallel = 1
    Rekeys = 1
    PubKeys = {k1, k2}
    Had <- TheHad
    Brought <- TheBrought
    Forced = {}
    After <- TheAfter
    Plain = {host}
    WriteFaults = {"broken", "die"}

INVARIANTS
    TypeOK
    NothingLeft
    PassedIsTrusted
    KeysKept
PROPERTIES
    CallsEnd
