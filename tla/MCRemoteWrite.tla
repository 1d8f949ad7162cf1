--------------------------- MODULE MCRemoteWrite ---------------------------
(* Small instances of RemoteWrite for TLC.                                  *)
EXTENDS RemoteWrite

============================================================================
