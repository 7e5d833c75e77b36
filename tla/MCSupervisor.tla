---------------------------- MODULE MCSupervisor ----------------------------
(* Small instances of Supervisor for TLC.                                  *)
EXTENDS Supervisor, TLC

CONSTANTS c1, c2, c3, s1, s2

TwoCalls      == {c1, c2}
ThreeCalls    == {c1, c2, c3}

TwoSessions   == {s1, s2}

\* Calls are interchangeable, and so are sessions: for safety runs only.
QueueSymmetry   == Permutations(ThreeCalls) \cup Permutations(TwoSessions)

\* Bounds of the run about the queue: at most two processes exit and one is
\* killed; none is held, goes on after it left the pool under another id, or
\* resumes a session and takes another id.
FewEnds ==
    /\ Cardinality(exited) <= 2 /\ Cardinality(pool.killed) <= 1
    /\ held = {} /\ late = {}
    /\ \A c \in Calls : target[c] # None => sessionId[c] \in {None, target[c]}

\* Bounds of the run about the sessions: one process at most is killed, one
\* exits and one is held, and of holds, exits, contested and late ids there
\* are at most two together.
FewTurns ==
    /\ Cardinality(held) <= 1 /\ Cardinality(exited) <= 1
    /\ Cardinality(late) <= 1 /\ Cardinality(pool.killed) <= 1
    /\ Cardinality(held) + Cardinality(exited)
          + Cardinality(late) + Cardinality(contested) <= 2
=============================================================================
