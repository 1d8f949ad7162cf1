SPECIFICATION Spec

CONSTANTS
    Commands = {"done"}
    Input = 0
    Output = 1
    Sock = 2
    Window = 1
    Signals = 0
    Faults = {"early_loss"}
    None = None

CHECK_DEADLOCK FALSE

INVARIANTS
    CodeHonest
