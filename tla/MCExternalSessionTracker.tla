--------------------- MODULE MCExternalSessionTracker ---------------------
(* Small instances of the tracker of external sessions for TLC           *)
EXTENDS ExternalSessionTracker, TLC

MCMaxWrites == [s \in Claude \cup Codex |-> IF s \in Claude THEN 2 ELSE 1]
=============================================================================
