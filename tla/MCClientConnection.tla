------------------------ MODULE MCClientConnection ------------------------
(* Small instances of the client's connection stack for TLC                *)
EXTENDS ClientConnection, TLC
=============================================================================
