----------------------------- MODULE MCHoldExec -----------------------------
(* Small instances of HoldExec for TLC.                                    *)
EXTENDS HoldExec

=============================================================================
