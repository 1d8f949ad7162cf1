------------------------------ MODULE MCProxy ------------------------------
(* Small instances of Proxy for TLC: one proxy on a fixed port, one on any. *)
EXTENDS Proxy, TLC

CONSTANTS p1, p2, t1080, t2

FixedAndAny == p1 :> t1080 @@ p2 :> AnyPort

=============================================================================
