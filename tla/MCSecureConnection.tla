------------------------ MODULE MCSecureConnection ------------------------
(* Small instances of the handshake of a remote client for TLC             *)
EXTENDS SecureConnection, TLC

\* A connect that was begun beside another stays so, and no property says anything
\* of it: what comes after such a state is not explored.
Uncrossed == ~crossed
=============================================================================
