------------------------------- MODULE MCRelay -------------------------------
(* Small instances of the relay for TLC                                    *)
EXTENDS Relay, TLC
=============================================================================
