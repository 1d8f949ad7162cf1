SPECIFICATION FairSpec

CONSTANTS
    Request = 2
    Response = 2

CHECK_DEADLOCK FALSE

INVARIANTS
    ResponseWhole
PROPERTIES
    HandlerEnds
