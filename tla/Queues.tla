------------------------------- MODULE Queues -------------------------------
(* What the server does to the arrays it uses as queues.                   *)
EXTENDS Integers, Sequences

ElementsOf(s) == {s[i] : i \in 1..Len(s)}

Distinct(s) == \A i, j \in 1..Len(s) : s[i] = s[j] => i = j

\* The sequence s without its i-th element.
Without(s, i) == [j \in 1..(Len(s) - 1) |-> IF j < i THEN s[j] ELSE s[j + 1]]

\* queue.filter(id => id !== x), and findIndex with splice, for a queue that
\* holds x at most once
Filter(s, x) ==
    IF \E i \in 1..Len(s) : s[i] = x
    THEN Without(s, CHOOSE i \in 1..Len(s) : s[i] = x)
    ELSE s
=============================================================================
