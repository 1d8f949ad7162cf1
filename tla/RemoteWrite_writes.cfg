SPECIFICATION Spec

CONSTANTS
    Writers = {d1, h1}
    Held = {h1}
    Readers = {r1}
    Paths = {p1, p2, p3}
    Plain = {p2}
    Rough = {p3}
    Len = 2
    Faults = {"broken", "die", "cut"}
    None = None

CHECK_DEADLOCK FALSE

INVARIANTS
    ReadsWhole
    NoLitter
PROPERTIES
    AtomicSpec
