SPECIFICATION FairSpec

CONSTANTS
    Commands = {"done", "eof", "signal"}
    Input = 2
    Output = 1
    Sock = 2
    Window = 1
    Signals = 1
    Faults = {"kill", "silent", "loss"}
    None = None

CHECK_DEADLOCK FALSE

INVARIANTS
    TypeOK
    OutputComplete
    CodeHonest
PROPERTIES
    ExecEnds
    DaemonReleased
    SignalArrives
