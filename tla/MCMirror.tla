------------------------------ MODULE MCMirror ------------------------------
(* Small instances of Mirror for TLC.                                       *)
EXTENDS Mirror

=============================================================================
