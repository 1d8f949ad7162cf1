---------------------------- MODULE MCHoldDaemon ----------------------------
(* Small instances of HoldDaemon for TLC.                                  *)
EXTENDS HoldDaemon

============================================================================
