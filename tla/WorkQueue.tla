----------------------------- MODULE WorkQueue -----------------------------
(***************************************************************************)
(* What the queue for workers promises its clients, whatever the pool does *)
(* around it (packages/server/src/supervisor/WorkerQueue.ts; docs/tasks/   *)
(* archive/saferestart.md): requests that have to wait stand in one line,  *)
(* join it at its end, leave it from its front or by being cancelled, and  *)
(* never come back.  Supervisor implements this specification.             *)
(***************************************************************************)
EXTENDS Naturals, Sequences, Queues

CONSTANT Calls

VARIABLES
    line,       \* the calls that wait
    phase       \* of each call

Init == line = <<>> /\ phase = [c \in Calls |-> "new"]

Front(k) == {line[i] : i \in 1..k}
Rest(k)  == SubSeq(line, k + 1, Len(line))

\* The first k requests leave the line to be started, and nobody joins it.
Proceed(k) ==
    /\ line' = Rest(k)
    /\ phase' = [d \in Calls |-> IF d \in Front(k) THEN "answered" ELSE phase[d]]

\* The handler of call c makes room for k requests and then joins the line, or
\* is answered without.
Join(c, k, to) ==
    /\ phase[c] = "new"
    /\ line' = IF to = "waiting" THEN Append(Rest(k), c) ELSE Rest(k)
    /\ phase' = [d \in Calls |-> IF d = c THEN to
                                 ELSE IF d \in Front(k) THEN "answered" ELSE phase[d]]

Cancel(c) ==
    /\ phase[c] = "waiting"
    /\ line' = Filter(line, c)
    /\ phase' = [phase EXCEPT ![c] = "cancelled"]

Next ==
    \/ \E k \in 0..Len(line) :
          \/ Proceed(k)
          \/ \E c \in Calls, to \in {"waiting", "answered"} : Join(c, k, to)
    \/ \E c \in Calls : Cancel(c)

Spec == Init /\ [][Next]_<<line, phase>>
=============================================================================
