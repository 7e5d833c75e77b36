---------------------------- MODULE MCRemoteAccess ----------------------------
(* Small instances of the relay client with the relay for TLC              *)
EXTENDS RemoteAccess, TLC
=============================================================================
