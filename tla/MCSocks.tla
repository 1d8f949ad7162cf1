------------------------------ MODULE MCSocks ------------------------------
(* Small instances of Socks for TLC.                                        *)
EXTENDS Socks

=============================================================================
