SPECIFICATION Spec

CONSTANTS
    Writers = {h1}
    Held = {h1}
    Readers = {r1}
    Paths = {p1}
    Plain = {}
    Rough = {p1}
    Len = 2
    Faults = {"cut"}
    None = None

CHECK_DEADLOCK FALSE

INVARIANTS
    CutsLeaveWhole
