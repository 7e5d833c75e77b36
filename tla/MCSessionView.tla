---------------------------- MODULE MCSessionView ----------------------------
(* Small instances of a session's file and of the page that shows it       *)
EXTENDS SessionView, TLC
=============================================================================
