------------------------ MODULE MCServerConnection ------------------------
(* Small instances of a connection of the server for TLC                   *)
EXTENDS ServerConnection, TLC
=============================================================================
