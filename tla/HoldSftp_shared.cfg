SPECIFICATION FairSftpSpec

CONSTANTS
    Ops = {o1, o2, o3}
    Sftps = {s1, s2, s3}
    SftpFaults = {"lose", "open", "cut"}
    None = None

CHECK_DEADLOCK FALSE

INVARIANTS
    NoneLeaked
    Reopened
PROPERTIES
    OnlyOwnClientHurts
    OpsEnd
