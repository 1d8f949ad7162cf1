----------------------------- MODULE MCHoldSftp -----------------------------
(* Small instances of HoldSftp for TLC.                                     *)
EXTENDS HoldSftp

============================================================================
