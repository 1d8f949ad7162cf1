--------------------------- MODULE MCHoldStartup ---------------------------
(* Small instances of HoldStartup for TLC.                                 *)
EXTENDS HoldStartup, TLC

CONSTANTS c1, c2, c3, d1, d2, d3, f1, f2, strict, lax

DaemonSymmetry == Permutations(Daemons \ {Incumbent})

HoldOpStop == c1 :> "hold" @@ c2 :> "op" @@ c3 :> "stop"
OpStop == c1 :> "op" @@ c2 :> "stop"

SamePolicy == [c \in Clients |-> strict]

============================================================================
