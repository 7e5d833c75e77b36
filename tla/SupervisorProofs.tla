-------------------------- MODULE SupervisorProofs --------------------------
(***************************************************************************)
(* Theorems about Supervisor, for every set of calls and sessions and      *)
(* every limit.  What one run of the event loop does to the pool is of two *)
(* kinds: requests leave the queue (Drained), or the handler of one call   *)
(* decides what to do with that call (Handled).  Each operator on pools is *)
(* shown to be of one kind, and each kind to preserve the invariants.      *)
(***************************************************************************)
EXTENDS Supervisor, FiniteSetTheorems, TLAPS

-----------------------------------------------------------------------------
(* Queues of requests                                                      *)

\* Removing the element at a position keeps a sequence a sequence.
LEMMA WithoutType ==
  ASSUME NEW S, NEW s \in Seq(S), NEW i \in 1..Len(s)
  PROVE  /\ Without(s, i) \in Seq(S)
         /\ Len(Without(s, i)) = Len(s) - 1
         /\ \A j \in 1..(Len(s) - 1) :
               Without(s, i)[j] = IF j < i THEN s[j] ELSE s[j + 1]
<1>1. Len(s) - 1 \in Nat
  OBVIOUS
<1>2. \A j \in 1..(Len(s) - 1) : (IF j < i THEN s[j] ELSE s[j + 1]) \in S
  OBVIOUS
<1>3. Without(s, i) \in [1..(Len(s) - 1) -> S]
  BY <1>2 DEF Without
<1>4. Without(s, i) \in Seq(S)
  BY <1>1, <1>3
<1>5. Len(Without(s, i)) = Len(s) - 1
  BY <1>1, <1>3, <1>4
<1> QED
  BY <1>4, <1>5 DEF Without

\* The queue filter returns a sequence over the same set.
LEMMA FilterType ==
  ASSUME NEW S, NEW s \in Seq(S), NEW x
  PROVE  Filter(s, x) \in Seq(S)
BY WithoutType DEF Filter

\* On a queue without repetitions the filter removes exactly the given id and
\* introduces no repetition.
LEMMA FilterElements ==
  ASSUME NEW S, NEW s \in Seq(S), NEW x, Distinct(s)
  PROVE  /\ ElementsOf(Filter(s, x)) = ElementsOf(s) \ {x}
         /\ Distinct(Filter(s, x))
<1>1. CASE ~ \E i \in 1..Len(s) : s[i] = x
  BY <1>1 DEF Filter, ElementsOf
<1>2. CASE \E i \in 1..Len(s) : s[i] = x
  <2> DEFINE i == CHOOSE i \in 1..Len(s) : s[i] = x
             t == Without(s, i)
  <2>1. i \in 1..Len(s) /\ s[i] = x
    BY <1>2
  <2>2. Filter(s, x) = t
    BY <1>2 DEF Filter
  <2> HIDE DEF i
  <2>3. /\ t \in Seq(S) /\ Len(t) = Len(s) - 1
        /\ \A j \in 1..(Len(s) - 1) : t[j] = IF j < i THEN s[j] ELSE s[j + 1]
    BY <2>1, WithoutType
  <2> HIDE DEF t
  <2>at. \A j \in 1..Len(t) : \E a \in 1..Len(s) :
             t[j] = s[a] /\ a # i /\ a = IF j < i THEN j ELSE j + 1
    <3> TAKE j \in 1..Len(t)
    <3>1. CASE j < i
      <4>1. j \in 1..Len(s) /\ t[j] = s[j]
        BY <3>1, <2>1, <2>3
      <4> QED
        BY <4>1, <3>1, <2>1
    <3>2. CASE ~(j < i)
      <4>1. j + 1 \in 1..Len(s) /\ t[j] = s[j + 1]
        BY <3>2, <2>1, <2>3
      <4> QED
        BY <4>1, <3>2, <2>1
    <3> QED
      BY <3>1, <3>2
  <2>4. Distinct(t)
    <3> SUFFICES ASSUME NEW j \in 1..Len(t), NEW k \in 1..Len(t), t[j] = t[k]
                 PROVE  j = k
      BY DEF Distinct
    <3>1. PICK a \in 1..Len(s) : t[j] = s[a] /\ a = IF j < i THEN j ELSE j + 1
      BY <2>at
    <3>2. PICK b \in 1..Len(s) : t[k] = s[b] /\ b = IF k < i THEN k ELSE k + 1
      BY <2>at
    <3>3. a = b
      BY <3>1, <3>2 DEF Distinct
    <3> QED
      BY <3>1, <3>2, <3>3, <2>1, <2>3
  <2>5. ASSUME NEW j \in 1..Len(t) PROVE t[j] \in ElementsOf(s) \ {x}
    <3>1. PICK a \in 1..Len(s) : t[j] = s[a] /\ a # i
      BY <2>at
    <3> QED
      BY <3>1, <2>1 DEF Distinct, ElementsOf
  <2>6. ASSUME NEW a \in 1..Len(s), s[a] # x PROVE \E j \in 1..Len(t) : t[j] = s[a]
    <3>1. CASE a < i
      BY <3>1, <2>1, <2>3
    <3>2. CASE a > i
      <4>1. a - 1 \in 1..Len(t) /\ t[a - 1] = s[a]
        BY <3>2, <2>1, <2>3
      <4> QED
        BY <4>1
    <3> QED
      BY <3>1, <3>2, <2>1, <2>6
  <2>7. ElementsOf(t) = ElementsOf(s) \ {x}
    BY <2>5, <2>6 DEF ElementsOf
  <2> QED
    BY <2>2, <2>4, <2>7
<1> QED
  BY <1>1, <1>2

\* Registering a new request at the end of the queue.
LEMMA AppendDistinct ==
  ASSUME NEW S, NEW s \in Seq(S), NEW x \in S, Distinct(s), x \notin ElementsOf(s)
  PROVE  /\ ElementsOf(Append(s, x)) = ElementsOf(s) \cup {x}
         /\ Distinct(Append(s, x))
<1>1. /\ Len(Append(s, x)) = Len(s) + 1
      /\ Append(s, x)[Len(s) + 1] = x
      /\ \A i \in 1..Len(s) : Append(s, x)[i] = s[i]
  OBVIOUS
<1>2. Len(s) \in Nat
  OBVIOUS
<1> DEFINE t == Append(s, x)
<1> HIDE DEF t
<1>3. ASSUME NEW i \in 1..Len(t), NEW j \in 1..Len(t), t[i] = t[j] PROVE i = j
  <2>1. CASE i \in 1..Len(s) /\ j \in 1..Len(s)
    BY <2>1, <1>1, <1>3 DEF Distinct, t
  <2>2. CASE i = Len(s) + 1 /\ j \in 1..Len(s)
    BY <2>2, <1>1, <1>3 DEF ElementsOf, t
  <2>3. CASE i \in 1..Len(s) /\ j = Len(s) + 1
    BY <2>3, <1>1, <1>3 DEF ElementsOf, t
  <2> QED
    BY <2>1, <2>2, <2>3, <1>1, <1>2 DEF t
<1>4. ElementsOf(t) = ElementsOf(s) \cup {x}
  <2>1. ASSUME NEW i \in 1..Len(t) PROVE t[i] \in ElementsOf(s) \cup {x}
    BY <1>1, <1>2 DEF ElementsOf, t
  <2>2. ASSUME NEW i \in 1..Len(s) PROVE \E j \in 1..Len(t) : t[j] = s[i]
    <3>1. i \in 1..Len(t) /\ t[i] = s[i]
      BY <1>1, <1>2 DEF t
    <3> QED
      BY <3>1
  <2>3. \E j \in 1..Len(t) : t[j] = x
    <3>1. Len(s) + 1 \in 1..Len(t) /\ t[Len(s) + 1] = x
      BY <1>1, <1>2 DEF t
    <3> QED
      BY <3>1
  <2>4. ElementsOf(t) \subseteq ElementsOf(s) \cup {x}
    BY <2>1 DEF ElementsOf
  <2>5. ElementsOf(s) \subseteq ElementsOf(t) /\ x \in ElementsOf(t)
    BY <2>2, <2>3 DEF ElementsOf
  <2> QED
    BY <2>4, <2>5
<1> QED
  BY <1>3, <1>4 DEF Distinct, t

\* Taking the head of a queue without repetitions removes exactly that element.
LEMMA TailElements ==
  ASSUME NEW S, NEW s \in Seq(S), Distinct(s), s # <<>>
  PROVE  /\ Tail(s) \in Seq(S) /\ Head(s) \in S
         /\ ElementsOf(Tail(s)) = ElementsOf(s) \ {Head(s)}
         /\ Distinct(Tail(s))
<1>1. /\ Len(s) \in Nat /\ Len(s) > 0 /\ Head(s) = s[1] /\ Head(s) \in S
      /\ Tail(s) \in Seq(S) /\ Len(Tail(s)) = Len(s) - 1
      /\ \A i \in 1..(Len(s) - 1) : Tail(s)[i] = s[i + 1]
  OBVIOUS
<1>2. Distinct(Tail(s))
  BY <1>1 DEF Distinct
<1>3. ASSUME NEW i \in 1..Len(Tail(s)) PROVE Tail(s)[i] \in ElementsOf(s) \ {Head(s)}
  BY <1>1 DEF Distinct, ElementsOf
<1>4. ASSUME NEW i \in 1..Len(s), s[i] # Head(s) PROVE s[i] \in ElementsOf(Tail(s))
  <2>1. i - 1 \in 1..Len(Tail(s)) /\ Tail(s)[i - 1] = s[i]
    BY <1>1, <1>4
  <2> QED
    BY <2>1 DEF ElementsOf
<1>5. ElementsOf(Tail(s)) = ElementsOf(s) \ {Head(s)}
  BY <1>3, <1>4 DEF ElementsOf
<1> QED
  BY <1>1, <1>2, <1>5

\* The first k elements of a queue, and what stands behind them
First(s, k) == {s[i] : i \in 1..k}
Behind(s, k) == SubSeq(s, k + 1, Len(s))

LEMMA BehindType ==
  ASSUME NEW S, NEW s \in Seq(S), NEW k \in 0..Len(s)
  PROVE  /\ Behind(s, k) \in Seq(S) /\ Len(Behind(s, k)) = Len(s) - k
         /\ \A i \in 1..(Len(s) - k) : Behind(s, k)[i] = s[k + i]
BY DEF Behind

LEMMA SameSequence ==
  ASSUME NEW S, NEW s \in Seq(S), NEW t \in Seq(S), Len(s) = Len(t),
         \A i \in 1..Len(s) : s[i] = t[i]
  PROVE  s = t
OBVIOUS

\* Nobody or one leaves the queue.
LEMMA BehindFew ==
  ASSUME NEW S, NEW s \in Seq(S)
  PROVE  /\ Behind(s, 0) = s /\ First(s, 0) = {}
         /\ s # <<>> => Behind(s, 1) = Tail(s) /\ First(s, 1) = {Head(s)}
<1>1. Len(s) \in Nat
  OBVIOUS
<1>2. Behind(s, 0) = s
  <2>1. /\ Behind(s, 0) \in Seq(S) /\ Len(Behind(s, 0)) = Len(s)
        /\ \A i \in 1..Len(s) : Behind(s, 0)[i] = s[i]
    BY <1>1, BehindType
  <2> QED
    BY <2>1, SameSequence
<1>3. ASSUME s # <<>> PROVE Behind(s, 1) = Tail(s)
  <2>1. /\ Len(s) > 0 /\ Tail(s) \in Seq(S) /\ Len(Tail(s)) = Len(s) - 1
        /\ \A i \in 1..(Len(s) - 1) : Tail(s)[i] = s[i + 1]
    BY <1>3
  <2>2. /\ Behind(s, 1) \in Seq(S) /\ Len(Behind(s, 1)) = Len(s) - 1
        /\ \A i \in 1..(Len(s) - 1) : Behind(s, 1)[i] = s[i + 1]
    <3>1. 1 \in 0..Len(s) /\ (\A i \in Nat : 1 + i = i + 1)
      BY <1>1, <2>1
    <3>2. /\ Behind(s, 1) \in Seq(S) /\ Len(Behind(s, 1)) = Len(s) - 1
          /\ \A i \in 1..(Len(s) - 1) : Behind(s, 1)[i] = s[1 + i]
      BY <3>1, BehindType
    <3> QED
      BY <3>1, <3>2
  <2> QED
    BY <2>1, <2>2, SameSequence
<1>4. s # <<>> => First(s, 1) = {Head(s)}
  BY DEF First
<1> QED
  BY <1>2, <1>3, <1>4 DEF First

\* First j leave, then k: j + k in all, in the same order.
LEMMA BehindTwice ==
  ASSUME NEW S, NEW s \in Seq(S), NEW j \in 0..Len(s), NEW k \in 0..Len(Behind(s, j))
  PROVE  /\ j + k \in 0..Len(s)
         /\ Behind(Behind(s, j), k) = Behind(s, j + k)
         /\ First(s, j + k) = First(s, j) \cup First(Behind(s, j), k)
<1> DEFINE t == Behind(s, j)
<1>1. /\ t \in Seq(S) /\ Len(t) = Len(s) - j /\ Len(s) \in Nat
      /\ \A i \in 1..(Len(s) - j) : t[i] = s[j + i]
  BY BehindType
<1>2. k \in 0..Len(t)
  OBVIOUS
<1> HIDE DEF t
<1>3. j + k \in 0..Len(s)
  BY <1>1, <1>2
<1>4. Behind(t, k) = Behind(s, j + k)
  <2>1. /\ Behind(t, k) \in Seq(S) /\ Len(Behind(t, k)) = Len(t) - k
        /\ \A i \in 1..(Len(t) - k) : Behind(t, k)[i] = t[k + i]
    BY <1>1, <1>2, BehindType
  <2>2. /\ Behind(s, j + k) \in Seq(S) /\ Len(Behind(s, j + k)) = Len(s) - (j + k)
        /\ \A i \in 1..(Len(s) - (j + k)) : Behind(s, j + k)[i] = s[(j + k) + i]
    BY <1>3, BehindType
  <2>3. Len(t) - k = Len(s) - (j + k)
    BY <1>1, <1>2
  <2>4. ASSUME NEW i \in 1..(Len(t) - k) PROVE t[k + i] = s[(j + k) + i]
    <3>1. k + i \in 1..(Len(s) - j) /\ j + (k + i) = (j + k) + i
      BY <1>1, <1>2
    <3> QED
      BY <1>1, <3>1
  <2>5. \A i \in 1..Len(Behind(t, k)) : Behind(t, k)[i] = Behind(s, j + k)[i]
    BY <2>1, <2>2, <2>3, <2>4
  <2> QED
    BY <2>1, <2>2, <2>3, <2>5, SameSequence
<1>5. First(s, j + k) = First(s, j) \cup First(t, k)
  <2>1. ASSUME NEW i \in 1..(j + k) PROVE s[i] \in First(s, j) \cup First(t, k)
    <3>1. CASE i <= j
      BY <3>1 DEF First
    <3>2. CASE i > j
      <4>1. i - j \in 1..k /\ i - j \in 1..(Len(s) - j) /\ j + (i - j) = i
        BY <3>2, <1>1, <1>2
      <4>2. t[i - j] = s[i]
        BY <4>1, <1>1
      <4> QED
        BY <4>1, <4>2 DEF First
    <3> QED
      BY <3>1, <3>2
  <2>2. ASSUME NEW i \in 1..j PROVE s[i] \in First(s, j + k)
    <3>1. i \in 1..(j + k)
      BY <1>1, <1>2
    <3> QED
      BY <3>1 DEF First
  <2>3. ASSUME NEW i \in 1..k PROVE t[i] \in First(s, j + k)
    <3>1. j + i \in 1..(j + k) /\ i \in 1..(Len(s) - j)
      BY <1>1, <1>2
    <3>2. t[i] = s[j + i]
      BY <3>1, <1>1
    <3> QED
      BY <3>1, <3>2 DEF First
  <2>4. First(s, j + k) \subseteq First(s, j) \cup First(t, k)
    BY <2>1 DEF First
  <2>5. First(s, j) \subseteq First(s, j + k) /\ First(t, k) \subseteq First(s, j + k)
    BY <2>2, <2>3 DEF First
  <2> QED
    BY <2>4, <2>5
<1> QED
  BY <1>3, <1>4, <1>5 DEF t

\* Whoever stands among the first is in the queue.
LEMMA FirstInQueue ==
  ASSUME NEW S, NEW s \in Seq(S), NEW k \in 0..Len(s)
  PROVE  First(s, k) \subseteq ElementsOf(s)
BY DEF First, ElementsOf

-----------------------------------------------------------------------------
(* The inductive invariant, on pools                                       *)

QueueExactIn(p) ==
    /\ Distinct(p.queue)
    /\ \A c \in Calls : p.stage[c] = "queued" <=> c \in ElementsOf(p.queue)

ServedIn(p) == p.queue # <<>> => AtCapacity(p) \/ p.dequeued # {}

AwaitsKnownIn(p) == \A c \in Calls : p.stage[c] \in AwaitingStages => p.awaits[c] \in Calls

PoolInv(p) == p \in Pools /\ QueueExactIn(p) /\ ServedIn(p) /\ AwaitsKnownIn(p)

\* The first k requests of p leave its queue to be started; nobody joins.
Advanced(p, q, k) ==
    /\ k \in 0..Len(p.queue)
    /\ q.queue = Behind(p.queue, k)
    /\ \A d \in Calls :
          PhaseOf(q.stage[d]) = IF d \in First(p.queue, k) THEN "answered"
                                                          ELSE PhaseOf(p.stage[d])

\* Call c, which has not been decided about, joins behind them or is answered.
Joined(p, q, c, k, to) ==
    /\ k \in 0..Len(p.queue) /\ PhaseOf(p.stage[c]) = "new"
    /\ q.queue = IF to = "waiting" THEN Append(Behind(p.queue, k), c)
                                   ELSE Behind(p.queue, k)
    /\ \A d \in Calls :
          PhaseOf(q.stage[d]) = IF d = c THEN to
                                ELSE IF d \in First(p.queue, k) THEN "answered"
                                ELSE PhaseOf(p.stage[d])

QueueMoves(p, q) == \E k \in Nat : Advanced(p, q, k)
CallMoves(p, q, c) ==
    \/ QueueMoves(p, q)
    \/ \E k \in Nat, to \in {"waiting", "answered"} : Joined(p, q, c, k, to)

\* The handler of call c is at work, and the call is not decided about.
Pending(p, c) == p.stage[c] \in {"unsent"} \cup AwaitingStages

\* As long as the queue and the limit allow, q starts the next request of p.
Drained(p, q) ==
    /\ q \in Pools
    /\ q.workers \subseteq p.workers
    /\ QueueExactIn(p) => QueueExactIn(q)
    /\ ElementsOf(q.queue) \subseteq ElementsOf(p.queue)
    /\ \A c \in Calls :
          q.stage[c] = p.stage[c] \/ (c \in ElementsOf(p.queue) /\ q.stage[c] = "starting")
    /\ q.awaits = p.awaits
    /\ QueueMoves(p, q)

\* q is p with a decision about call c, which does not wait in the queue: it
\* joins the queue of a pool at capacity, or the queue stays as it is.
Handled(p, q, c) ==
    /\ q \in Pools
    /\ q.workers = p.workers /\ q.dequeued = p.dequeued
    /\ \A d \in Calls : d # c => q.stage[d] = p.stage[d] /\ q.awaits[d] = p.awaits[d]
    /\ q.stage[c] \in AwaitingStages => q.awaits[c] \in Calls
    /\ q.stage[c] \in Stages \ {"unsent", "cancelled"}
    /\ q.stage[c] = "naming" => p.stage[c] = "starting"
    /\ q.sessionToProcess = p.sessionToProcess /\ q.owner = p.owner
    /\ \/ q.queue = p.queue /\ q.stage[c] # "queued"
       \/ q.queue = Append(p.queue, c) /\ q.stage[c] = "queued" /\ AtCapacity(p)

-----------------------------------------------------------------------------
(* Requests leave the queue                                                *)

\* The fields of a pool
LEMMA PoolFields ==
  ASSUME NEW p \in Pools
  PROVE  /\ p.workers \subseteq Calls /\ p.dequeued \subseteq Calls
         /\ p.sessionToProcess \in [Sessions -> Calls \cup {None}]
         /\ p.queue \in Seq(Calls)
         /\ p.stage \in [Calls -> Stages] /\ p.answer \in [Calls -> Answers]
         /\ p.awaits \in [Calls -> Calls \cup {None}]
BY DEF Pools

LEMMA PoolQueue ==
  ASSUME NEW p \in Pools
  PROVE  QueueMoves(p, p)
<1>1. p.queue \in Seq(Calls) /\ Len(p.queue) \in Nat
  BY PoolFields
<1>2. Behind(p.queue, 0) = p.queue /\ First(p.queue, 0) = {}
  BY <1>1, BehindFew
<1>3. Advanced(p, p, 0)
  BY <1>1, <1>2 DEF Advanced
<1> QED
  BY <1>3 DEF QueueMoves

\* A pool with the same queue whose calls are in the same phases
LEMMA SamePhases ==
  ASSUME NEW p, NEW r, NEW q, r.queue = p.queue, QueueMoves(r, q),
         \A d \in Calls : PhaseOf(r.stage[d]) = PhaseOf(p.stage[d])
  PROVE  QueueMoves(p, q)
<1>1. PICK k \in Nat : Advanced(r, q, k)
  BY DEF QueueMoves
<1>2. Advanced(p, q, k)
  BY <1>1 DEF Advanced
<1> QED
  BY <1>2 DEF QueueMoves

\* The queue moves, and moves on.
LEMMA QueueMovesOn ==
  ASSUME NEW p \in Pools, NEW r, NEW j \in Nat, Advanced(p, r, j)
  PROVE  \A k \in 0..Len(r.queue) :
            /\ j + k \in 0..Len(p.queue) /\ j + k \in Nat
            /\ Behind(r.queue, k) = Behind(p.queue, j + k)
            /\ First(p.queue, j + k) = First(p.queue, j) \cup First(r.queue, k)
<1>1. p.queue \in Seq(Calls) /\ j \in 0..Len(p.queue) /\ r.queue = Behind(p.queue, j)
  BY PoolFields DEF Advanced
<1> QED
  BY <1>1, BehindTwice

LEMMA QueueMovesTwice ==
  ASSUME NEW p \in Pools, NEW r, NEW q, QueueMoves(p, r), QueueMoves(r, q)
  PROVE  QueueMoves(p, q)
<1>1. PICK j \in Nat : Advanced(p, r, j)
  BY DEF QueueMoves
<1>2. PICK k \in Nat : Advanced(r, q, k)
  BY DEF QueueMoves
<1>3. k \in 0..Len(r.queue)
  BY <1>2 DEF Advanced
<1>4. /\ j + k \in 0..Len(p.queue) /\ j + k \in Nat
      /\ Behind(r.queue, k) = Behind(p.queue, j + k)
      /\ First(p.queue, j + k) = First(p.queue, j) \cup First(r.queue, k)
  <2>1. \A i \in 0..Len(r.queue) :
           /\ j + i \in 0..Len(p.queue) /\ j + i \in Nat
           /\ Behind(r.queue, i) = Behind(p.queue, j + i)
           /\ First(p.queue, j + i) = First(p.queue, j) \cup First(r.queue, i)
    BY <1>1, QueueMovesOn
  <2> QED
    BY <1>3, <2>1
<1>5. Advanced(p, q, j + k)
  BY <1>1, <1>2, <1>4 DEF Advanced
<1> QED
  BY <1>4, <1>5 DEF QueueMoves

LEMMA CallMovesOn ==
  ASSUME NEW p \in Pools, NEW r, NEW q, NEW c \in Calls, c \notin ElementsOf(p.queue),
         QueueMoves(p, r), CallMoves(r, q, c)
  PROVE  CallMoves(p, q, c)
<1>1. PICK j \in Nat : Advanced(p, r, j)
  BY DEF QueueMoves
<1>2. CASE QueueMoves(r, q)
  BY <1>2, QueueMovesTwice DEF CallMoves
<1>3. ASSUME NEW k \in Nat, NEW to \in {"waiting", "answered"}, Joined(r, q, c, k, to)
      PROVE  CallMoves(p, q, c)
  <2>1. k \in 0..Len(r.queue)
    BY <1>3 DEF Joined
  <2>2. c \notin First(p.queue, j)
    BY <1>1, PoolFields, FirstInQueue DEF Advanced
  <2>3. PhaseOf(p.stage[c]) = "new"
    BY <1>1, <1>3, <2>2 DEF Advanced, Joined
  <2>4. /\ j + k \in 0..Len(p.queue) /\ j + k \in Nat
        /\ Behind(r.queue, k) = Behind(p.queue, j + k)
        /\ First(p.queue, j + k) = First(p.queue, j) \cup First(r.queue, k)
    BY <1>1, <2>1, QueueMovesOn
  <2>5. Joined(p, q, c, j + k, to)
    BY <1>1, <1>3, <2>3, <2>4 DEF Advanced, Joined
  <2> QED
    BY <2>4, <2>5 DEF CallMoves
<1> QED
  BY <1>2, <1>3 DEF CallMoves

\* What a decision about a call means for the queue
LEMMA HandledMoves ==
  ASSUME NEW p \in Pools, NEW q, NEW c \in Calls, Handled(p, q, c),
         Pending(p, c) \/ (p.stage[c] = "starting" /\ q.stage[c] \in {"naming", "done"})
  PROVE  CallMoves(p, q, c)
<1>1. p.queue \in Seq(Calls) /\ Len(p.queue) \in Nat
      /\ Behind(p.queue, 0) = p.queue /\ First(p.queue, 0) = {}
  BY PoolFields, BehindFew
<1>2. \A d \in Calls : d # c => PhaseOf(q.stage[d]) = PhaseOf(p.stage[d])
  BY DEF Handled
<1>3. CASE PhaseOf(q.stage[c]) = PhaseOf(p.stage[c]) /\ q.queue = p.queue
  <2>1. Advanced(p, q, 0)
    BY <1>1, <1>2, <1>3 DEF Advanced
  <2> QED
    BY <2>1 DEF CallMoves, QueueMoves
<1>4. ASSUME NEW to \in {"waiting", "answered"}, PhaseOf(q.stage[c]) = to,
             PhaseOf(p.stage[c]) = "new",
             q.queue = IF to = "waiting" THEN Append(p.queue, c) ELSE p.queue
      PROVE  CallMoves(p, q, c)
  <2>1. Joined(p, q, c, 0, to)
    BY <1>1, <1>2, <1>4 DEF Joined
  <2> QED
    BY <2>1 DEF CallMoves
<1>5. CASE p.stage[c] = "starting" /\ q.stage[c] \in {"naming", "done"}
  <2>1. q.queue = p.queue
    BY <1>5 DEF Handled
  <2> QED
    BY <1>3, <1>5, <2>1 DEF PhaseOf
<1>6. CASE Pending(p, c)
  <2>1. PhaseOf(p.stage[c]) = "new"
    BY <1>6 DEF Pending, PhaseOf, AwaitingStages
  <2>2. CASE q.stage[c] = "queued" /\ q.queue = Append(p.queue, c)
    BY <2>1, <2>2, <1>4 DEF PhaseOf
  <2>3. CASE q.stage[c] \in {"starting", "naming", "done"} /\ q.queue = p.queue
    BY <2>1, <2>3, <1>4 DEF PhaseOf
  <2>4. CASE q.stage[c] \in AwaitingStages /\ q.queue = p.queue
    BY <2>1, <2>4, <1>3 DEF PhaseOf, AwaitingStages
  <2> QED
    BY <2>2, <2>3, <2>4 DEF Handled, Stages, AwaitingStages
<1> QED
  BY <1>5, <1>6

LEMMA DequeueDrains ==
  ASSUME NEW p \in Pools, p.queue # <<>>, QueueExactIn(p)
  PROVE  Drained(p, Dequeue(p)) /\ Dequeue(p).dequeued # {}
<1> DEFINE q == Dequeue(p)
<1>1. /\ Tail(p.queue) \in Seq(Calls) /\ Head(p.queue) \in Calls
      /\ Head(p.queue) \in ElementsOf(p.queue)
      /\ ElementsOf(Tail(p.queue)) = ElementsOf(p.queue) \ {Head(p.queue)}
      /\ Distinct(Tail(p.queue))
  <2>1. Head(p.queue) = p.queue[1] /\ 1 \in 1..Len(p.queue)
    BY PoolFields
  <2> QED
    BY <2>1, PoolFields, TailElements DEF QueueExactIn, ElementsOf
<1>2. /\ q \in Pools /\ q.queue = Tail(p.queue)
      /\ q.workers = p.workers /\ q.awaits = p.awaits
      /\ q.dequeued = p.dequeued \cup {Head(p.queue)}
      /\ q.stage = [p.stage EXCEPT ![Head(p.queue)] = "starting"]
  BY <1>1 DEF Dequeue, Pools, Stages
<1> HIDE DEF q
<1>3. \A c \in Calls : q.stage[c] = IF c = Head(p.queue) THEN "starting" ELSE p.stage[c]
  BY <1>1, <1>2, PoolFields
<1>4. QueueExactIn(q)
  BY <1>1, <1>2, <1>3 DEF QueueExactIn
<1>5. QueueMoves(p, q)
  <2>1. /\ p.queue \in Seq(Calls) /\ 1 \in 0..Len(p.queue)
        /\ Behind(p.queue, 1) = Tail(p.queue) /\ First(p.queue, 1) = {Head(p.queue)}
    <3>1. p.queue \in Seq(Calls)
      BY PoolFields
    <3>2. Behind(p.queue, 1) = Tail(p.queue) /\ First(p.queue, 1) = {Head(p.queue)}
      BY <3>1, BehindFew
    <3> QED
      BY <3>1, <3>2
  <2>2. Advanced(p, q, 1)
    BY <1>1, <1>2, <1>3, <2>1 DEF Advanced, PhaseOf
  <2> QED
    BY <2>2 DEF QueueMoves
<1> QED
  BY <1>1, <1>2, <1>3, <1>4, <1>5 DEF Drained, q

\* processQueue leaves no request waiting for nothing.
LEMMA ProcessQueueDrains ==
  ASSUME NEW p \in Pools, QueueExactIn(p)
  PROVE  Drained(p, ProcessQueue(p)) /\ ServedIn(ProcessQueue(p))
<1>1. CASE p.queue = <<>> \/ AtCapacity(p)
  BY <1>1, PoolQueue DEF ProcessQueue, Drained, ServedIn
<1>2. CASE p.queue # <<>> /\ ~AtCapacity(p)
  BY <1>2, DequeueDrains DEF ProcessQueue, ServedIn
<1> QED
  BY <1>1, <1>2

LEMMA UnregisterDrains ==
  ASSUME NEW p \in Pools, QueueExactIn(p), NEW w
  PROVE  /\ Drained(p, Unregister(p, w)) /\ ServedIn(Unregister(p, w))
         /\ w \notin Unregister(p, w).workers
<1> DEFINE r == [p EXCEPT !.workers = @ \ {w},
                          !.sessionToProcess =
                              [s \in Sessions |-> IF @[s] = w THEN None ELSE @[s]],
                          !.owner[sessionId[w]] = None]
<1>1. /\ r \in Pools /\ r.workers = p.workers \ {w}
      /\ r.queue = p.queue /\ r.stage = p.stage /\ r.awaits = p.awaits
  BY DEF Pools
<1>2. Unregister(p, w) = ProcessQueue(r)
  BY DEF Unregister
<1> HIDE DEF r
<1>3. QueueExactIn(r)
  BY <1>1 DEF QueueExactIn
<1>4. Drained(r, ProcessQueue(r)) /\ ServedIn(ProcessQueue(r))
  BY <1>1, <1>3, ProcessQueueDrains
<1>5. QueueMoves(p, ProcessQueue(r))
  BY <1>1, <1>4, SamePhases DEF Drained
<1> QED
  BY <1>1, <1>2, <1>4, <1>5 DEF Drained, QueueExactIn

LEMMA AbortReturnedDrains ==
  ASSUME NEW p \in Pools, QueueExactIn(p), NEW w
  PROVE  /\ Drained(p, AbortReturned(p, w)) /\ ServedIn(AbortReturned(p, w))
         /\ w \notin AbortReturned(p, w).workers
<1> DEFINE r == Unregister(p, w)
<1>1. Drained(p, r) /\ ServedIn(r) /\ w \notin r.workers /\ r \in Pools /\ QueueExactIn(r)
  BY UnregisterDrains DEF Drained
<1>2. CASE w \in listening /\ status[w] # "terminated"
  <2>1. AbortReturned(p, w) = Unregister(r, w)
    BY <1>2 DEF AbortReturned
  <2>2. /\ Drained(r, Unregister(r, w)) /\ ServedIn(Unregister(r, w))
        /\ w \notin Unregister(r, w).workers
    BY <1>1, UnregisterDrains
  <2> HIDE DEF r
  <2>3. QueueMoves(p, Unregister(r, w))
    BY <2>2, <1>1, QueueMovesTwice DEF Drained
  <2> QED
    BY <2>1, <2>2, <2>3, <1>1 DEF Drained
<1>3. CASE ~(w \in listening /\ status[w] # "terminated")
  BY <1>1, <1>3 DEF AbortReturned
<1> QED
  BY <1>2, <1>3

\* What leaves the queue disturbs no part of the invariant.
LEMMA DrainedKeeps ==
  ASSUME NEW p, NEW q, PoolInv(p), Drained(p, q), ServedIn(q)
  PROVE  PoolInv(q)
<1>1. AwaitsKnownIn(q)
  BY DEF PoolInv, Drained, AwaitsKnownIn, AwaitingStages
<1> QED
  BY <1>1 DEF PoolInv, Drained

-----------------------------------------------------------------------------
(* A call is decided about                                                 *)

LEMMA HandledKeeps ==
  ASSUME NEW p, NEW q, NEW c \in Calls, PoolInv(p), p.stage[c] # "queued", Handled(p, q, c)
  PROVE  PoolInv(q)
<1> USE DEF PoolInv
<1>1. p \in Pools /\ q \in Pools /\ p.queue \in Seq(Calls) /\ c \notin ElementsOf(p.queue)
  BY PoolFields DEF Handled, QueueExactIn
<1>2. AwaitsKnownIn(q)
  BY DEF Handled, AwaitsKnownIn
<1>3. QueueExactIn(q) /\ ServedIn(q)
  <2>1. CASE q.queue = p.queue /\ q.stage[c] # "queued"
    <3>1. QueueExactIn(q)
      BY <2>1, <1>1 DEF Handled, QueueExactIn
    <3>2. ServedIn(q)
      BY <2>1 DEF Handled, ServedIn, AtCapacity
    <3> QED
      BY <3>1, <3>2
  <2>2. CASE q.queue = Append(p.queue, c) /\ q.stage[c] = "queued" /\ AtCapacity(p)
    <3>1. ElementsOf(q.queue) = ElementsOf(p.queue) \cup {c} /\ Distinct(q.queue)
      BY <2>2, <1>1, AppendDistinct DEF QueueExactIn
    <3>2. QueueExactIn(q)
      BY <3>1, <2>2 DEF Handled, QueueExactIn
    <3>3. ServedIn(q)
      BY <2>2 DEF Handled, ServedIn, AtCapacity
    <3> QED
      BY <3>2, <3>3
  <2> QED
    BY <2>1, <2>2 DEF Handled
<1> QED
  BY <1>1, <1>2, <1>3

LEMMA AbortForHandles ==
  ASSUME NEW p \in Pools, NEW c \in Calls, NEW w \in Calls,
         NEW stage \in AwaitingStages
  PROVE  Handled(p, AbortFor(p, c, w, stage), c)
<1> DEFINE q == AbortFor(p, c, w, stage)
<1>1. /\ q \in Pools /\ q.workers = p.workers /\ q.dequeued = p.dequeued
      /\ q.queue = p.queue
      /\ q.sessionToProcess = p.sessionToProcess /\ q.owner = p.owner
      /\ q.stage = [p.stage EXCEPT ![c] = stage] /\ q.awaits = [p.awaits EXCEPT ![c] = w]
  BY DEF AbortFor, Pools, AwaitingStages, Stages
<1> HIDE DEF q
<1>2. Handled(p, q, c)
  BY <1>1, PoolFields DEF Handled, AwaitingStages
<1> QED
  BY <1>2 DEF q

LEMMA AnsweredHandles ==
  ASSUME NEW p \in Pools, NEW c \in Calls, NEW a \in Answers
  PROVE  Handled(p, Answered(p, c, a), c)
<1> DEFINE q == Answered(p, c, a)
<1>1. /\ q \in Pools /\ q.workers = p.workers /\ q.dequeued = p.dequeued
      /\ q.queue = p.queue
      /\ q.sessionToProcess = p.sessionToProcess /\ q.owner = p.owner
      /\ q.stage = [p.stage EXCEPT ![c] = "done"] /\ q.awaits = [p.awaits EXCEPT ![c] = None]
  BY DEF Answered, Pools, Stages
<1> HIDE DEF q
<1>2. Handled(p, q, c)
  BY <1>1, PoolFields DEF Handled, AwaitingStages
<1> QED
  BY <1>2 DEF q

LEMMA StartsHandles ==
  ASSUME NEW p \in Pools, NEW c \in Calls
  PROVE  Handled(p, Starts(p, c), c) /\ Starts(p, c).queue = p.queue
<1> DEFINE q == Starts(p, c)
<1>1. /\ q \in Pools /\ q.workers = p.workers /\ q.dequeued = p.dequeued
      /\ q.queue = p.queue
      /\ q.sessionToProcess = p.sessionToProcess /\ q.owner = p.owner
      /\ q.stage = [p.stage EXCEPT ![c] = "starting"]
      /\ q.awaits = [p.awaits EXCEPT ![c] = None]
  BY DEF Starts, Pools, Stages
<1> HIDE DEF q
<1>2. Handled(p, q, c)
  BY <1>1, PoolFields DEF Handled, AwaitingStages
<1> QED
  BY <1>1, <1>2 DEF q

LEMMA EnqueueHandles ==
  ASSUME NEW p \in Pools, NEW c \in Calls, AtCapacity(p)
  PROVE  Handled(p, Enqueue(p, c), c)
<1>1. CASE MaxQueueSize > 0 /\ Len(p.queue) >= MaxQueueSize
  BY <1>1, AnsweredHandles DEF Enqueue, Answers
<1>2. CASE ~(MaxQueueSize > 0 /\ Len(p.queue) >= MaxQueueSize)
  <2> DEFINE q == Enqueue(p, c)
  <2>1. p.queue \in Seq(Calls) /\ Append(p.queue, c) \in Seq(Calls)
    BY PoolFields
  <2>2. QueuedAnswer(c) \in Answers
    BY DEF QueuedAnswer, Answers
  <2>3. /\ q \in Pools /\ q.workers = p.workers /\ q.dequeued = p.dequeued
        /\ q.queue = Append(p.queue, c)
        /\ q.sessionToProcess = p.sessionToProcess /\ q.owner = p.owner
        /\ q.stage = [p.stage EXCEPT ![c] = "queued"]
        /\ q.awaits = [p.awaits EXCEPT ![c] = None]
    BY <1>2, <2>1, <2>2 DEF Enqueue, Pools, Stages
  <2> HIDE DEF q
  <2>4. Handled(p, q, c)
    BY <2>3, PoolFields DEF Handled, AwaitingStages
  <2> QED
    BY <2>4 DEF q
<1> QED
  BY <1>1, <1>2

LEMMA AdmitHandles ==
  ASSUME NEW p \in Pools, NEW c \in Calls, NEW q \in Admit(p, c)
  PROVE  Handled(p, q, c)
<1>1. CASE ~AtCapacity(p)
  BY <1>1, StartsHandles DEF Admit
<1>2. CASE AtCapacity(p) /\ q = Enqueue(p, c)
  BY <1>2, EnqueueHandles
<1>3. ASSUME NEW w \in Preemptable(p), q = AbortFor(p, c, w, "preempt")
      PROVE  Handled(p, q, c)
  BY <1>3, PoolFields, AbortForHandles DEF Preemptable, AwaitingStages
<1> QED
  BY <1>1, <1>2, <1>3 DEF Admit

\* A resumed session joins the queue only if no request for it waits there.
LEMMA AdmitResumeHandles ==
  ASSUME NEW p \in Pools, NEW c \in Calls, NEW s, NEW q \in AdmitResume(p, c, s)
  PROVE  /\ Handled(p, q, c)
         /\ q.queue = p.queue \/ \A d \in ElementsOf(p.queue) : target[d] # s
<1>1. CASE FindBySessionId(p, s) # {}
  <2>1. QueuedAnswer(c) \in Answers
    BY DEF QueuedAnswer, Answers
  <2>2. q = Answered(p, c, QueuedAnswer(c))
    BY <1>1 DEF AdmitResume
  <2>3. q.queue = p.queue
    BY <2>2 DEF Answered, Pools
  <2> QED
    BY <2>1, <2>2, <2>3, AnsweredHandles
<1>2. CASE FindBySessionId(p, s) = {}
  <2>1. q \in Admit(p, c)
    BY <1>2 DEF AdmitResume
  <2>2. \A d \in ElementsOf(p.queue) : target[d] # s
    BY <1>2 DEF FindBySessionId, ElementsOf
  <2> QED
    BY <2>1, <2>2, AdmitHandles
<1> QED
  BY <1>1, <1>2
-----------------------------------------------------------------------------
(* A run of the event loop that goes on with call c, for session s         *)

Proceeds(p, q, c, s) ==
    /\ PoolInv(q)
    /\ q.workers \subseteq p.workers
    /\ \A d \in Calls : d # c /\ p.stage[d] = "cancelled" => q.stage[d] = "cancelled"
    /\ ElementsOf(q.queue) \subseteq ElementsOf(p.queue) \cup {c}
    /\ c \in ElementsOf(q.queue) /\ s # None =>
          \A d \in ElementsOf(q.queue) \ {c} : target[d] # s
    /\ CallMoves(p, q, c)

LEMMA HandledProceeds ==
  ASSUME NEW p, NEW q, NEW c \in Calls, NEW s, PoolInv(p),
         Pending(p, c) \/ (p.stage[c] = "starting" /\ q.stage[c] \in {"naming", "done"}),
         Handled(p, q, c),
         q.queue = p.queue \/ s = None \/ \A d \in ElementsOf(p.queue) : target[d] # s
  PROVE  Proceeds(p, q, c, s)
<1>0. p.stage[c] # "queued"
  BY DEF Pending, AwaitingStages
<1>1. PoolInv(q) /\ CallMoves(p, q, c)
  BY <1>0, HandledKeeps, HandledMoves DEF PoolInv
<1>2. p.queue \in Seq(Calls) /\ c \notin ElementsOf(p.queue) /\ Distinct(p.queue)
  BY <1>0, PoolFields DEF PoolInv, QueueExactIn
<1>3. CASE q.queue = p.queue
  BY <1>1, <1>2, <1>3 DEF Handled, Proceeds
<1>4. CASE q.queue = Append(p.queue, c)
  <2>1. ElementsOf(q.queue) = ElementsOf(p.queue) \cup {c}
    BY <1>2, <1>4, AppendDistinct
  <2>2. q.queue # p.queue
    BY <1>2, <2>1
  <2> QED
    BY <1>1, <2>1, <2>2 DEF Handled, Proceeds
<1> QED
  BY <1>3, <1>4 DEF Handled

\* What happens after requests left the queue
LEMMA DrainedProceeds ==
  ASSUME NEW p, NEW r, NEW q, NEW c \in Calls, NEW s, PoolInv(p), Drained(p, r),
         Pending(p, c),
         Proceeds(r, q, c, s)
  PROVE  Proceeds(p, q, c, s)
<1>1. \A d \in Calls : p.stage[d] = "cancelled" => r.stage[d] = "cancelled"
  BY DEF PoolInv, QueueExactIn, Drained
<1>2. c \notin ElementsOf(p.queue)
  BY DEF PoolInv, QueueExactIn, Pending, AwaitingStages
<1>3. CallMoves(p, q, c)
  BY <1>2, CallMovesOn DEF PoolInv, Drained, Proceeds
<1> QED
  BY <1>1, <1>3 DEF Proceeds, Drained

\* At most, idle processes go on with a turn.
Wakes ==
    /\ status' \in [Calls -> Statuses]
    /\ \A d \in Calls : status'[d] = status[d] \/ (status[d] = "idle" /\ status'[d] = "in-turn")

LEMMA SendToHandles ==
  ASSUME NEW p \in Pools, NEW c \in Calls, NEW w \in Calls,
         status \in [Calls -> Statuses], SendTo(p, c, w)
  PROVE  Handled(p, pool', c) /\ pool'.queue = p.queue /\ Wakes
<1> DEFINE r == [p EXCEPT !.idleTimer = IF status[w] = "idle" THEN @ \ {w} ELSE @]
<1>1. /\ r \in Pools /\ r.workers = p.workers /\ r.dequeued = p.dequeued
      /\ r.queue = p.queue /\ r.stage = p.stage /\ r.awaits = p.awaits
      /\ r.sessionToProcess = p.sessionToProcess /\ r.owner = p.owner
  BY DEF Pools
<1>2. pool' = Answered(r, c, w)
  BY DEF SendTo
<1> HIDE DEF r
<1>3. Handled(r, pool', c) /\ pool'.queue = r.queue
  <2>1. pool'.queue = r.queue
    BY <1>1, <1>2 DEF Answered, Pools
  <2> QED
    BY <1>1, <1>2, <2>1, AnsweredHandles DEF Answers
<1>4. Handled(p, pool', c) /\ pool'.queue = p.queue
  BY <1>1, <1>3 DEF Handled, AtCapacity
<1>5. Wakes
  BY DEF SendTo, Statuses, Wakes
<1> QED
  BY <1>4, <1>5

LEMMA SendToProceeds ==
  ASSUME NEW p, NEW c \in Calls, NEW w \in Calls, NEW s, PoolInv(p),
         Pending(p, c), status \in [Calls -> Statuses], SendTo(p, c, w)
  PROVE  Proceeds(p, pool', c, s) /\ status' \in [Calls -> Statuses]
<1>1. Handled(p, pool', c) /\ pool'.queue = p.queue /\ Wakes
  BY SendToHandles DEF PoolInv
<1> QED
  BY <1>1, HandledProceeds DEF Wakes

\* AdmitResume, for a call that is being handled
LEMMA AdmitResumeProceeds ==
  ASSUME NEW p, NEW c \in Calls, NEW s, PoolInv(p), Pending(p, c),
         NEW q \in AdmitResume(p, c, s)
  PROVE  Proceeds(p, q, c, s)
BY AdmitResumeHandles, HandledProceeds DEF PoolInv

\* The pool p, or p without a terminated process
MayUnregister(p, r) ==
    r = p \/ \E w \in p.workers : status[w] = "terminated" /\ r = Unregister(p, w)

\* resumeSession decides about its call, after it dropped a terminated process.
LEMMA ResumeFromHandles ==
  ASSUME NEW p \in Pools, NEW c \in Calls, NEW s, QueueExactIn(p),
         status \in [Calls -> Statuses], ResumeFrom(p, c, s)
  PROVE  /\ \E r : /\ MayUnregister(p, r) /\ Handled(r, pool', c)
                   /\ pool'.queue = r.queue \/ \A d \in ElementsOf(r.queue) : target[d] # s
         /\ Wakes
<1> DEFINE w == p.sessionToProcess[s]
           Goal(r) == /\ MayUnregister(p, r) /\ Handled(r, pool', c)
                      /\ pool'.queue = r.queue \/ \A d \in ElementsOf(r.queue) : target[d] # s
<1>1. w \in p.workers => w \in Calls
  BY PoolFields
<1>2. status' = status => Wakes
  BY DEF Wakes
<1> HIDE DEF w
<1>3. CASE pool' \in AdmitResume(p, c, s) /\ status' = status
  <2>1. Goal(p)
    BY <1>3, AdmitResumeHandles DEF MayUnregister
  <2> QED
    BY <1>2, <1>3, <2>1
<1>4. CASE /\ w \in p.workers /\ status[w] = "terminated"
           /\ pool' \in AdmitResume(Unregister(p, w), c, s) /\ status' = status
  <2> DEFINE r == Unregister(p, w)
  <2>1. r \in Pools
    BY UnregisterDrains DEF Drained
  <2>2. MayUnregister(p, r)
    BY <1>4 DEF MayUnregister
  <2> HIDE DEF r
  <2>3. Goal(r)
    BY <1>4, <2>1, <2>2, AdmitResumeHandles DEF r
  <2> QED
    BY <1>2, <1>4, <2>3
<1>5. CASE Handled(p, pool', c) /\ pool'.queue = p.queue /\ Wakes
  <2>1. Goal(p)
    BY <1>5 DEF MayUnregister
  <2> QED
    BY <1>5, <2>1
<1>6. CASE w \in p.workers /\ SendTo(p, c, w)
  BY <1>1, <1>5, <1>6, SendToHandles
<1>7. CASE /\ w \in p.workers
           /\ pool' = [p EXCEPT !.stage[c] = "resume:toggle", !.awaits[c] = w]
           /\ status' = status
  <2>1. /\ pool' \in Pools /\ pool'.workers = p.workers /\ pool'.dequeued = p.dequeued
        /\ pool'.queue = p.queue /\ pool'.stage = [p.stage EXCEPT ![c] = "resume:toggle"]
        /\ pool'.awaits = [p.awaits EXCEPT ![c] = w]
        /\ pool'.sessionToProcess = p.sessionToProcess /\ pool'.owner = p.owner
    BY <1>1, <1>7 DEF Pools, Stages
  <2>2. Handled(p, pool', c)
    BY <1>1, <1>7, <2>1, PoolFields DEF Handled, Stages
  <2> QED
    BY <1>2, <1>5, <1>7, <2>1, <2>2
<1>8. CASE /\ w \in p.workers /\ pool' = AbortFor(p, c, w, "resume:abort")
           /\ status' = status
  <2>1. Handled(p, pool', c)
    BY <1>1, <1>8, AbortForHandles DEF AwaitingStages
  <2>2. pool'.queue = p.queue
    BY <1>1, <1>8 DEF AbortFor, Pools
  <2> QED
    BY <1>2, <1>5, <1>8, <2>1, <2>2
<1> QED
  BY <1>3, <1>4, <1>6, <1>7, <1>8 DEF ResumeFrom, w

LEMMA ResumeFromProceeds ==
  ASSUME NEW p, NEW c \in Calls, NEW s, PoolInv(p), Pending(p, c),
         status \in [Calls -> Statuses], ResumeFrom(p, c, s)
  PROVE  Proceeds(p, pool', c, s) /\ status' \in [Calls -> Statuses]
<1>1. PICK r : /\ MayUnregister(p, r) /\ Handled(r, pool', c)
               /\ pool'.queue = r.queue \/ \A d \in ElementsOf(r.queue) : target[d] # s
  BY ResumeFromHandles DEF PoolInv
<1>2. status' \in [Calls -> Statuses]
  BY ResumeFromHandles DEF PoolInv, Wakes
<1>3. CASE r = p
  BY <1>1, <1>2, <1>3, HandledProceeds
<1>4. ASSUME NEW w, r = Unregister(p, w)
      PROVE  Proceeds(p, pool', c, s)
  <2>1. Drained(p, r) /\ ServedIn(r)
    BY <1>4, UnregisterDrains DEF PoolInv
  <2>2. PoolInv(r) /\ Pending(r, c)
    BY <2>1, DrainedKeeps DEF Drained, Pending, PoolInv, QueueExactIn, AwaitingStages
  <2>3. Proceeds(r, pool', c, s)
    BY <1>1, <2>2, HandledProceeds
  <2> QED
    BY <2>1, <2>3, DrainedProceeds
<1> QED
  BY <1>1, <1>2, <1>3, <1>4 DEF MayUnregister

-----------------------------------------------------------------------------
(* The inductive invariant                                                 *)

CallTypes == api \in [Calls -> Apis] /\ target \in [Calls -> Sessions \cup {None}]

ProcessTypes ==
    /\ sessionId \in [Calls -> Sessions \cup {None}]
    /\ status \in [Calls -> Statuses]
    /\ exited \subseteq Calls /\ listening \subseteq Calls /\ stopping \subseteq Calls

MarkTypes == held \subseteq Calls /\ contested \subseteq Sessions /\ late \subseteq Sessions

Inv ==
    /\ PoolInv(pool) /\ CallTypes /\ ProcessTypes
    /\ OneQueuedPerSession /\ WorkersListenedTo

Cancelled == {c \in Calls : pool.stage[c] = "cancelled"}

LEMMA InvParts == Inv => (MarkTypes => TypeOK) /\ QueueExact /\ QueueServed
BY DEF Inv, PoolInv, CallTypes, ProcessTypes, MarkTypes, TypeOK, AwaitsKnownIn,
       QueueExactIn, QueueExact, Queued, ServedIn, QueueServed

LEMMA InvInit == Init => Inv
<1> SUFFICES ASSUME Init PROVE Inv
  OBVIOUS
<1>1. pool \in Pools /\ pool.queue = <<>> /\ pool.workers = {}
      /\ \A c \in Calls : pool.stage[c] = "unsent"
  <2>1. <<>> \in Seq(Calls)
    OBVIOUS
  <2> QED
    BY <2>1 DEF Init, Pools, Stages, Answers
<1>2. ElementsOf(pool.queue) = {} /\ Distinct(pool.queue)
  BY <1>1 DEF ElementsOf, Distinct
<1>3. PoolInv(pool)
  BY <1>1, <1>2 DEF PoolInv, QueueExactIn, ServedIn, AwaitsKnownIn, AwaitingStages
<1>4. CallTypes /\ ProcessTypes
  BY DEF Init, CallTypes, ProcessTypes, Apis, Statuses
<1> QED
  BY <1>1, <1>2, <1>3, <1>4 DEF Inv, OneQueuedPerSession, Queued, WorkersListenedTo

\* The handler of c has done a step for session s: the queue holds no second
\* request for s, and the pool no process without listener.
LEMMA ProceedsKeeps ==
  ASSUME Inv, NEW c \in Calls, NEW s, Proceeds(pool, pool', c, s),
         pool.stage[c] \notin {"queued", "cancelled"},
         \A d \in Calls : target'[d] = IF d = c THEN s ELSE target[d],
         \A w \in pool'.workers : w \in listening => w \in listening'
  PROVE  /\ PoolInv(pool)' /\ OneQueuedPerSession' /\ WorkersListenedTo'
         /\ Cancelled \subseteq Cancelled'
<1>1. ElementsOf(pool.queue) \subseteq Calls /\ ElementsOf(pool'.queue) \subseteq Calls
  BY PoolFields DEF Inv, PoolInv, Proceeds, ElementsOf
<1>2. OneQueuedPerSession'
  <2> SUFFICES ASSUME NEW d \in ElementsOf(pool'.queue), NEW e \in ElementsOf(pool'.queue),
                      target'[d] # None, target'[d] = target'[e], d # e
               PROVE  FALSE
    BY DEF OneQueuedPerSession, Queued
  <2>1. CASE d = c \/ e = c
    BY <2>1, <1>1 DEF Proceeds
  <2>2. CASE d # c /\ e # c
    BY <2>2, <1>1 DEF Proceeds, Inv, OneQueuedPerSession, Queued
  <2> QED
    BY <2>1, <2>2
<1>3. WorkersListenedTo'
  BY DEF WorkersListenedTo, Proceeds, Inv
<1>4. Cancelled \subseteq Cancelled'
  BY DEF Cancelled, Proceeds
<1> QED
  BY <1>2, <1>3, <1>4 DEF Proceeds

\* A step that leaves queue, stages, limit and mapping of handlers alone
LEMMA PoolKept ==
  ASSUME NEW p, NEW q, PoolInv(p), q \in Pools,
         q.workers = p.workers, q.dequeued = p.dequeued, q.queue = p.queue,
         q.stage = p.stage, q.awaits = p.awaits
  PROVE  PoolInv(q)
BY DEF PoolInv, QueueExactIn, ServedIn, AwaitsKnownIn, AtCapacity

\* A step that at most takes requests out of the queue keeps the invariants.
LEMMA DrainKeeps ==
  ASSUME Inv, PoolInv(pool'), target' = target,
         pool'.workers \subseteq listening',
         ElementsOf(pool'.queue) \subseteq ElementsOf(pool.queue),
         \A c \in Calls : pool.stage[c] = "cancelled" => pool'.stage[c] = "cancelled"
  PROVE  /\ PoolInv(pool)' /\ OneQueuedPerSession' /\ WorkersListenedTo'
         /\ Cancelled \subseteq Cancelled'
BY DEF Inv, OneQueuedPerSession, Queued, WorkersListenedTo, Cancelled

\* More workers do not free a place.
LEMMA CapacityGrows ==
  ASSUME NEW p, NEW q, p.workers \subseteq q.workers, q.workers \subseteq Calls, AtCapacity(p)
  PROVE  AtCapacity(q)
<1>1. IsFiniteSet(q.workers) /\ IsFiniteSet(p.workers)
  BY CallsAssumption, FS_Subset
<1>2. Cardinality(p.workers) <= Cardinality(q.workers)
  BY <1>1, FS_Subset
<1>3. Cardinality(p.workers) \in Nat /\ Cardinality(q.workers) \in Nat /\ MaxWorkers \in Nat
  BY <1>1, FS_CardinalityType, LimitAssumption
<1> QED
  BY <1>2, <1>3 DEF AtCapacity

\* A process enters the pool, and the loop that started it looks at the queue.
LEMMA RegisteredKeeps ==
  ASSUME NEW p, NEW c \in Calls, NEW s, PoolInv(p), p.stage[c] \in {"starting", "naming"}
  PROVE  LET q == Registered(p, c, s) IN
         /\ PoolInv(q) /\ q.workers \subseteq p.workers \cup {c}
         /\ ElementsOf(q.queue) \subseteq ElementsOf(p.queue)
         /\ \A d \in Calls : p.stage[d] = "cancelled" => q.stage[d] = "cancelled"
         /\ QueueMoves(p, q)
<1> DEFINE r == [p EXCEPT !.workers = @ \cup {c},
                          !.sessionToProcess[s] = c, !.owner[s] = c,
                          !.stage[c] = "done",
                          !.answer[c] = IF c \in p.dequeued THEN @ ELSE c,
                          !.dequeued = @ \ {c}]
<1>1. p \in Pools
  BY DEF PoolInv
<1>2. /\ r \in Pools /\ r.workers = p.workers \cup {c} /\ r.dequeued = p.dequeued \ {c}
      /\ r.queue = p.queue /\ r.stage = [p.stage EXCEPT ![c] = "done"]
      /\ r.awaits = p.awaits
  <2> DEFINE answer == [p.answer EXCEPT ![c] = IF c \in p.dequeued THEN @ ELSE c]
             stage == [p.stage EXCEPT ![c] = "done"]
             mapped == [p.sessionToProcess EXCEPT ![s] = c]
             owned == [p.owner EXCEPT ![s] = c]
  <2>1. answer \in [Calls -> Answers] /\ stage \in [Calls -> Stages]
    BY <1>1, PoolFields DEF Answers, Stages
  <2>2. p.owner \in [Sessions -> Calls \cup {None}]
    BY <1>1 DEF Pools
  <2>3. /\ mapped \in [Sessions -> Calls \cup {None}]
        /\ owned \in [Sessions -> Calls \cup {None}]
    BY <1>1, <2>2, PoolFields
  <2>4. r = [p EXCEPT !.workers = p.workers \cup {c}, !.sessionToProcess = mapped,
                      !.owner = owned, !.stage = stage, !.answer = answer,
                      !.dequeued = p.dequeued \ {c}]
    BY <1>1 DEF Pools
  <2> HIDE DEF r, answer, stage, mapped, owned
  <2>5. /\ r \in Pools /\ r.workers = p.workers \cup {c} /\ r.dequeued = p.dequeued \ {c}
        /\ r.queue = p.queue /\ r.stage = stage /\ r.awaits = p.awaits
    BY <1>1, <2>1, <2>3, <2>4 DEF Pools
  <2> QED
    BY <2>5 DEF stage
<1>3. Registered(p, c, s) = IF c \in p.dequeued THEN ProcessQueue(r) ELSE r
  BY DEF Registered
<1> HIDE DEF r
<1>4. \A d \in Calls : r.stage[d] = IF d = c THEN "done" ELSE p.stage[d]
  BY <1>1, <1>2, PoolFields
<1>5. QueueExactIn(r) /\ AwaitsKnownIn(r)
  BY <1>2, <1>4 DEF PoolInv, QueueExactIn, AwaitsKnownIn, AwaitingStages
<1>p. \A d \in Calls : PhaseOf(r.stage[d]) = PhaseOf(p.stage[d])
  BY <1>4 DEF PhaseOf
<1>6. CASE c \in p.dequeued
  <2> DEFINE q == ProcessQueue(r)
  <2>1. Drained(r, q) /\ ServedIn(q)
    BY <1>2, <1>5, ProcessQueueDrains
  <2> HIDE DEF q
  <2>2. AwaitsKnownIn(q)
    BY <1>5, <2>1 DEF Drained, AwaitsKnownIn, AwaitingStages
  <2>3. PoolInv(q)
    BY <1>5, <2>1, <2>2 DEF PoolInv, Drained
  <2>4. \A d \in Calls : p.stage[d] = "cancelled" => q.stage[d] = "cancelled"
    BY <1>4, <1>5, <2>1 DEF Drained, QueueExactIn
  <2>5. QueueMoves(p, q)
    BY <1>2, <1>p, <2>1, SamePhases DEF Drained
  <2> QED
    BY <1>2, <1>3, <1>6, <2>1, <2>3, <2>4, <2>5 DEF Drained, q
<1>7. CASE c \notin p.dequeued
  <2>1. AtCapacity(p) => AtCapacity(r)
    BY <1>2, CapacityGrows, PoolFields
  <2>2. ServedIn(r)
    BY <1>2, <1>7, <2>1 DEF PoolInv, ServedIn
  <2>3. QueueMoves(p, r)
    BY <1>2, <1>p, PoolQueue, SamePhases
  <2> QED
    BY <1>2, <1>3, <1>4, <1>5, <1>7, <2>2, <2>3 DEF PoolInv
<1> QED
  BY <1>6, <1>7

-----------------------------------------------------------------------------
(* The actions                                                             *)

\* The request of call c is taken out of the queue for good.
Cancels(c) ==
    /\ pool.stage[c] = "queued"
    /\ pool'.queue = Filter(pool.queue, c)
    /\ \A d \in Calls :
          PhaseOf(pool'.stage[d]) = IF d = c THEN "cancelled" ELSE PhaseOf(pool.stage[d])

\* The three things that may happen to the queue
QueueStep ==
    \/ QueueMoves(pool, pool')
    \/ \E c \in Calls : CallMoves(pool, pool', c) \/ Cancels(c)

\* What every action is shown to do
Good == Inv' /\ Cancelled \subseteq Cancelled' /\ QueueStep

LEMMA InvTypes ==
  ASSUME Inv
  PROVE  /\ PoolInv(pool) /\ pool \in Pools /\ QueueExactIn(pool)
         /\ status \in [Calls -> Statuses]
         /\ target \in [Calls -> Sessions \cup {None}]
         /\ pool.workers \subseteq Calls /\ pool.workers \subseteq listening
         /\ \A c \in Calls : pool.stage[c] \in AwaitingStages => pool.awaits[c] \in Calls
BY PoolFields DEF Inv, PoolInv, CallTypes, ProcessTypes, WorkersListenedTo, AwaitsKnownIn

\* A call that is being sent
LEMMA InvokeTypes ==
  ASSUME Inv, NEW c \in Calls, NEW m \in Apis, NEW s \in Sessions \cup {None},
         Invoke(c, m, s), status' \in [Calls -> Statuses]
  PROVE  /\ CallTypes' /\ ProcessTypes' /\ listening' = listening
         /\ pool.stage[c] = "unsent"
         /\ \A d \in Calls : target'[d] = IF d = c THEN s ELSE target[d]
BY DEF Invoke, Inv, CallTypes, ProcessTypes

LEMMA InvokedGood ==
  ASSUME Inv, NEW c \in Calls, NEW m \in Apis, NEW s \in Sessions \cup {None},
         Invoke(c, m, s), status' \in [Calls -> Statuses], Proceeds(pool, pool', c, s)
  PROVE  Good
<1>1. /\ CallTypes' /\ ProcessTypes' /\ listening' = listening
      /\ pool.stage[c] = "unsent"
      /\ \A d \in Calls : target'[d] = IF d = c THEN s ELSE target[d]
  BY InvokeTypes
<1>2. /\ PoolInv(pool)' /\ OneQueuedPerSession' /\ WorkersListenedTo'
      /\ Cancelled \subseteq Cancelled'
  BY <1>1, ProceedsKeeps
<1> QED
  BY <1>1, <1>2 DEF Good, Inv, QueueStep, Proceeds

\* A suspended handler that goes on
LEMMA ContinuedGood ==
  ASSUME Inv, NEW c \in Calls, pool.stage[c] \in Stages \ {"queued", "cancelled"},
         Proceeds(pool, pool', c, target[c]), CallTypes', ProcessTypes', target' = target,
         \A w \in pool'.workers : w \in listening => w \in listening'
  PROVE  Good
<1>1. /\ PoolInv(pool)' /\ OneQueuedPerSession' /\ WorkersListenedTo'
      /\ Cancelled \subseteq Cancelled'
  BY ProceedsKeeps
<1> QED
  BY <1>1 DEF Good, Inv, QueueStep, Proceeds

LEMMA StartSessionGood ==
  ASSUME Inv, NEW c \in Calls, StartSession(c)
  PROVE  Good
<1>1. pool.stage[c] = "unsent" /\ status' = status /\ pool' \in Admit(pool, c)
  BY DEF StartSession, Invoke
<1>2. Proceeds(pool, pool', c, None)
  BY <1>1, InvTypes, AdmitHandles, HandledProceeds DEF Pending
<1> QED
  BY <1>1, <1>2, InvTypes, InvokedGood DEF StartSession, Apis

LEMMA ResumeSessionGood ==
  ASSUME Inv, NEW c \in Calls, NEW s \in Sessions, ResumeSession(c, s)
  PROVE  Good
<1>1. pool.stage[c] = "unsent"
  BY DEF ResumeSession, Invoke
<1>2. Proceeds(pool, pool', c, s) /\ status' \in [Calls -> Statuses]
  BY <1>1, InvTypes, ResumeFromProceeds DEF ResumeSession, Pending
<1> QED
  BY <1>2, InvokedGood DEF ResumeSession, Apis

\* A handler that goes on after its toggle: the message is sent, or the session
\* is resumed.
LEMMA ResumeToggledGood ==
  ASSUME Inv, NEW c \in Calls, ResumeToggled(c)
  PROVE  Good
<1> DEFINE w == pool.awaits[c]
<1>1. pool.stage[c] = "resume:toggle" /\ w \in Calls
  BY InvTypes DEF ResumeToggled, AwaitingStages
<1>2. CASE status[w] # "terminated"
  BY <1>1, <1>2, InvTypes, SendToProceeds, ContinuedGood
  DEF ResumeToggled, Stages, Inv, CallTypes, ProcessTypes, callVars, Pending,
      AwaitingStages
<1>3. CASE status[w] = "terminated"
  <2>1. Proceeds(pool, pool', c, target[c])
    BY <1>1, <1>3, InvTypes, AdmitResumeProceeds DEF ResumeToggled, Pending, AwaitingStages
  <2> QED
    BY <1>1, <1>3, <2>1, ContinuedGood
    DEF ResumeToggled, Stages, Inv, CallTypes, ProcessTypes, callVars
<1> QED
  BY <1>2, <1>3

\* abort() has returned to the handler of a call: its process is no worker.
LEMMA AbortedFacts ==
  ASSUME Inv, NEW c \in Calls, pool.stage[c] \in AwaitingStages
  PROVE  LET w == pool.awaits[c]
             p == AbortReturned(pool, w)
         IN  /\ w \in Calls /\ Drained(pool, p) /\ ServedIn(p) /\ w \notin p.workers
             /\ PoolInv(p) /\ p.stage[c] = pool.stage[c]
             /\ Pending(pool, c) /\ Pending(p, c)
<1> DEFINE w == pool.awaits[c]
           p == AbortReturned(pool, w)
<1>1. w \in Calls
  BY InvTypes
<1>2. Drained(pool, p) /\ ServedIn(p) /\ w \notin p.workers
  BY InvTypes, AbortReturnedDrains
<1> HIDE DEF p
<1>3. PoolInv(p) /\ p.stage[c] = pool.stage[c]
  BY <1>2, InvTypes, DrainedKeeps DEF Drained, QueueExactIn, AwaitingStages
<1> QED
  BY <1>1, <1>2, <1>3 DEF p, Pending

LEMMA ResumeAbortedGood ==
  ASSUME Inv, NEW c \in Calls, ResumeAborted(c)
  PROVE  Good
<1> DEFINE w == pool.awaits[c]
           p == AbortReturned(pool, w)
<1>1. pool.stage[c] = "resume:abort"
  BY DEF ResumeAborted
<1>2. /\ w \in Calls /\ Drained(pool, p) /\ ServedIn(p) /\ w \notin p.workers
      /\ PoolInv(p) /\ Pending(pool, c) /\ Pending(p, c)
  BY <1>1, AbortedFacts DEF AwaitingStages
<1>3. \/ status[w] # "terminated" /\ SendTo(p, c, w)
      \/ pool' \in AdmitResume(p, c, target[c]) /\ UNCHANGED status
  BY DEF ResumeAborted
<1>4. /\ listening' = listening \ {w} /\ target' = target /\ CallTypes'
      /\ UNCHANGED <<sessionId, exited, stopping>>
  BY DEF ResumeAborted, Inv, CallTypes, callVars
<1> HIDE DEF w, p
<1>5. Proceeds(p, pool', c, target[c]) /\ status' \in [Calls -> Statuses]
  BY <1>2, <1>3, InvTypes, SendToProceeds, AdmitResumeProceeds
<1>6. Proceeds(pool, pool', c, target[c]) /\ w \notin pool'.workers
  <2>1. Proceeds(pool, pool', c, target[c])
    BY <1>2, <1>5, InvTypes, DrainedProceeds
  <2>2. w \notin pool'.workers
    BY <1>2, <1>5 DEF Proceeds
  <2> QED
    BY <2>1, <2>2
<1>7. ProcessTypes'
  BY <1>4, <1>5 DEF Inv, ProcessTypes
<1> QED
  BY <1>1, <1>4, <1>6, <1>7, ContinuedGood DEF Stages

\* queueMessageToSession decides about its call and leaves the queue alone.
LEMMA QueueMessageHandles ==
  ASSUME Inv, NEW c \in Calls, NEW s \in Sessions, QueueMessageToSession(c, s)
  PROVE  Handled(pool, pool', c) /\ pool'.queue = pool.queue /\ Wakes
<1> DEFINE w == pool.sessionToProcess[s]
<1>1. w \in pool.workers => w \in Calls
  BY InvTypes
<1>2. \/ pool' = Answered(pool, c, "refused") /\ UNCHANGED status
      \/ w \in pool.workers /\ SendTo(pool, c, w)
      \/ /\ w \in pool.workers
         /\ pool' = [pool EXCEPT !.stage[c] = "queue:toggle", !.awaits[c] = w]
         /\ UNCHANGED status
      \/ w \in pool.workers /\ pool' = AbortFor(pool, c, w, "queue:abort") /\ UNCHANGED status
  BY DEF QueueMessageToSession
<1>3. UNCHANGED status => Wakes
  BY InvTypes DEF Wakes
<1> HIDE DEF w
<1>4. CASE pool' = Answered(pool, c, "refused") /\ UNCHANGED status
  BY <1>3, <1>4, InvTypes, AnsweredHandles DEF Answers, Answered, Pools
<1>5. CASE w \in pool.workers /\ SendTo(pool, c, w)
  BY <1>1, <1>5, InvTypes, SendToHandles
<1>6. CASE /\ w \in pool.workers
           /\ pool' = [pool EXCEPT !.stage[c] = "queue:toggle", !.awaits[c] = w]
           /\ UNCHANGED status
  <2>1. /\ pool' \in Pools /\ pool'.workers = pool.workers
        /\ pool'.dequeued = pool.dequeued /\ pool'.queue = pool.queue
        /\ pool'.stage = [pool.stage EXCEPT ![c] = "queue:toggle"]
        /\ pool'.awaits = [pool.awaits EXCEPT ![c] = w]
        /\ pool'.sessionToProcess = pool.sessionToProcess /\ pool'.owner = pool.owner
    BY <1>1, <1>6, InvTypes DEF Pools, Stages
  <2>2. Handled(pool, pool', c)
    BY <1>1, <1>6, <2>1, InvTypes, PoolFields DEF Handled, Stages
  <2> QED
    BY <1>3, <1>6, <2>1, <2>2
<1>7. CASE /\ w \in pool.workers /\ pool' = AbortFor(pool, c, w, "queue:abort")
           /\ UNCHANGED status
  <2>1. Handled(pool, pool', c)
    BY <1>1, <1>7, InvTypes, AbortForHandles DEF AwaitingStages
  <2>2. pool'.queue = pool.queue
    BY <1>7, InvTypes DEF AbortFor, Pools
  <2> QED
    BY <1>3, <1>7, <2>1, <2>2
<1> QED
  BY <1>2, <1>4, <1>5, <1>6, <1>7

LEMMA QueueMessageToSessionGood ==
  ASSUME Inv, NEW c \in Calls, NEW s \in Sessions, QueueMessageToSession(c, s)
  PROVE  Good
<1>1. pool.stage[c] = "unsent" /\ Invoke(c, "queueMessageToSession", s)
  BY DEF QueueMessageToSession, Invoke
<1>2. Handled(pool, pool', c) /\ pool'.queue = pool.queue /\ Wakes
  BY QueueMessageHandles
<1>3. Proceeds(pool, pool', c, s)
  BY <1>1, <1>2, InvTypes, HandledProceeds DEF Pending
<1> QED
  BY <1>1, <1>2, <1>3, InvokedGood DEF Apis, Wakes

LEMMA QueueMessageToggledGood ==
  ASSUME Inv, NEW c \in Calls, QueueMessageToggled(c)
  PROVE  Good
<1> DEFINE w == pool.awaits[c]
<1>1. pool.stage[c] = "queue:toggle" /\ w \in Calls
  BY InvTypes DEF QueueMessageToggled, AwaitingStages
<1>2. CASE status[w] # "terminated"
  BY <1>1, <1>2, InvTypes, SendToProceeds, ContinuedGood
  DEF QueueMessageToggled, Stages, Inv, CallTypes, ProcessTypes, callVars, Pending,
      AwaitingStages
<1>3. CASE status[w] = "terminated"
  <2>1. pool' = Answered(pool, c, "refused") /\ UNCHANGED status
    BY <1>3 DEF QueueMessageToggled
  <2>2. Handled(pool, pool', c) /\ pool'.queue = pool.queue
    BY <2>1, InvTypes, AnsweredHandles DEF Answers, Answered, Pools
  <2>3. Proceeds(pool, pool', c, target[c])
    BY <1>1, <2>2, InvTypes, HandledProceeds DEF Pending, AwaitingStages
  <2> QED
    BY <1>1, <2>1, <2>3, ContinuedGood
    DEF QueueMessageToggled, Stages, Inv, CallTypes, ProcessTypes, callVars
<1> QED
  BY <1>2, <1>3

LEMMA QueueMessageAbortedGood ==
  ASSUME Inv, NEW c \in Calls, QueueMessageAborted(c)
  PROVE  Good
<1> DEFINE w == pool.awaits[c]
           p == AbortReturned(pool, w)
<1>1. pool.stage[c] = "queue:abort"
  BY DEF QueueMessageAborted
<1>2. /\ w \in Calls /\ Drained(pool, p) /\ ServedIn(p) /\ w \notin p.workers
      /\ PoolInv(p) /\ Pending(pool, c) /\ Pending(p, c)
  BY <1>1, AbortedFacts DEF AwaitingStages
<1>3. ResumeFrom(p, c, target[c])
  BY DEF QueueMessageAborted
<1>4. /\ listening' = listening \ {w} /\ target' = target /\ CallTypes'
      /\ UNCHANGED <<sessionId, exited, stopping>>
  BY DEF QueueMessageAborted, Inv, CallTypes, callVars
<1> HIDE DEF w, p
<1>5. Proceeds(p, pool', c, target[c]) /\ status' \in [Calls -> Statuses]
  BY <1>2, <1>3, InvTypes, ResumeFromProceeds
<1>6. Proceeds(pool, pool', c, target[c]) /\ w \notin pool'.workers
  <2>1. Proceeds(pool, pool', c, target[c])
    BY <1>2, <1>5, InvTypes, DrainedProceeds
  <2>2. w \notin pool'.workers
    BY <1>2, <1>5 DEF Proceeds
  <2> QED
    BY <2>1, <2>2
<1>7. ProcessTypes'
  BY <1>4, <1>5 DEF Inv, ProcessTypes
<1> QED
  BY <1>1, <1>4, <1>6, <1>7, ContinuedGood DEF Stages

LEMMA PreemptedGood ==
  ASSUME Inv, NEW c \in Calls, Preempted(c)
  PROVE  Good
<1> DEFINE w == pool.awaits[c]
           p == AbortReturned(pool, w)
<1>1. pool.stage[c] = "preempt"
  BY DEF Preempted
<1>2. /\ w \in Calls /\ Drained(pool, p) /\ ServedIn(p) /\ w \notin p.workers
      /\ PoolInv(p) /\ Pending(pool, c) /\ Pending(p, c)
  BY <1>1, AbortedFacts DEF AwaitingStages
<1>3. pool' = Starts(p, c)
  BY DEF Preempted
<1>4. /\ listening' = listening \ {w} /\ target' = target /\ CallTypes'
      /\ UNCHANGED <<sessionId, status, exited, stopping>>
  BY DEF Preempted, Inv, CallTypes, callVars, turnVars
<1> HIDE DEF w, p
<1>5. Proceeds(p, pool', c, target[c])
  <2>1. p \in Pools
    BY <1>2 DEF PoolInv
  <2> QED
    BY <1>2, <1>3, <2>1, StartsHandles, HandledProceeds
<1>6. Proceeds(pool, pool', c, target[c]) /\ w \notin pool'.workers
  <2>1. Proceeds(pool, pool', c, target[c])
    BY <1>2, <1>5, InvTypes, DrainedProceeds
  <2>2. w \notin pool'.workers
    BY <1>2, <1>5 DEF Proceeds
  <2> QED
    BY <2>1, <2>2
<1>7. ProcessTypes'
  BY <1>4 DEF Inv, ProcessTypes
<1> QED
  BY <1>1, <1>4, <1>6, <1>7, ContinuedGood DEF Stages

\* A step that keeps the queue, its limit and the handlers
LEMMA KeptGood ==
  ASSUME Inv, pool' \in Pools,
         pool'.workers = pool.workers, pool'.dequeued = pool.dequeued,
         pool'.queue = pool.queue, pool'.stage = pool.stage, pool'.awaits = pool.awaits,
         CallTypes', ProcessTypes', target' = target, listening' = listening
  PROVE  Good
<1>1. PoolInv(pool')
  BY PoolKept DEF Inv
<1>2. pool'.workers \subseteq listening'
  BY InvTypes
<1>3. QueueMoves(pool, pool')
  BY InvTypes, PoolQueue DEF QueueMoves, Advanced
<1> QED
  BY <1>1, <1>2, <1>3, DrainKeeps DEF Good, Inv, QueueStep

\* A process leaves the pool; no handler is told.
LEMMA UnregisteredGood ==
  ASSUME Inv, NEW p, PoolInv(p), NEW w,
         p.workers = pool.workers, p.queue = pool.queue, p.stage = pool.stage,
         \/ pool' = Unregister(p, w) /\ listening' = listening
         \/ pool' = AbortReturned(p, w) /\ listening' = listening \ {w},
         CallTypes', ProcessTypes', target' = target
  PROVE  Good
<1>1. p \in Pools /\ QueueExactIn(p)
  BY DEF PoolInv
<1>2. Drained(p, pool') /\ ServedIn(pool') /\ w \notin pool'.workers
  BY <1>1, UnregisterDrains, AbortReturnedDrains
<1>3. PoolInv(pool')
  BY <1>2, DrainedKeeps
<1>4. pool'.workers \subseteq listening'
  BY <1>2, InvTypes DEF Drained
<1>5. \A c \in Calls : pool.stage[c] = "cancelled" => pool'.stage[c] = "cancelled"
  BY <1>1, <1>2 DEF Drained, QueueExactIn
<1>6. QueueMoves(pool, pool')
  BY <1>2, SamePhases DEF Drained
<1> QED
  BY <1>2, <1>3, <1>4, <1>5, <1>6, DrainKeeps DEF Good, Inv, Drained, QueueStep

LEMMA AbortProcessGood ==
  ASSUME Inv, NEW w \in Calls, AbortProcess(w) \/ AbortProcessReturns(w)
  PROVE  Good
<1>1. CASE AbortProcess(w)
  <2>1. /\ pool' \in Pools /\ pool'.workers = pool.workers
        /\ pool'.dequeued = pool.dequeued /\ pool'.queue = pool.queue
        /\ pool'.stage = pool.stage /\ pool'.awaits = pool.awaits
    BY <1>1, InvTypes DEF AbortProcess, Pools
  <2>2. CallTypes' /\ ProcessTypes' /\ target' = target /\ listening' = listening
    BY <1>1 DEF AbortProcess, processVars, turnVars, Inv, CallTypes, ProcessTypes
  <2> QED
    BY <2>1, <2>2, KeptGood
<1>2. CASE AbortProcessReturns(w)
  <2>1. CallTypes' /\ ProcessTypes' /\ target' = target
    BY <1>2 DEF AbortProcessReturns, turnVars, Inv, CallTypes, ProcessTypes
  <2> QED
    BY <1>2, <2>1, InvTypes, UnregisteredGood DEF AbortProcessReturns
<1> QED
  BY <1>1, <1>2

LEMMA CancelGood ==
  ASSUME Inv, NEW c \in Calls, CancelQueuedRequest(c)
  PROVE  Good
<1>1. /\ pool.stage[c] = "queued" /\ pool.queue \in Seq(Calls) /\ Distinct(pool.queue)
      /\ \A d \in Calls : pool.stage[d] = "queued" <=> d \in ElementsOf(pool.queue)
  BY InvTypes, PoolFields DEF CancelQueuedRequest, QueueExactIn
<1>2. /\ Splice(pool, c) \in Seq(Calls) /\ Distinct(Splice(pool, c))
      /\ ElementsOf(Splice(pool, c)) = ElementsOf(pool.queue) \ {c}
  BY <1>1, FilterType, FilterElements DEF Splice
<1>3. pool' = [pool EXCEPT !.queue = Splice(pool, c), !.stage[c] = "cancelled"]
  BY DEF CancelQueuedRequest
<1>4. /\ pool' \in Pools /\ pool'.queue = Splice(pool, c)
      /\ pool'.workers = pool.workers /\ pool'.dequeued = pool.dequeued
      /\ pool'.awaits = pool.awaits
      /\ pool'.stage = [pool.stage EXCEPT ![c] = "cancelled"]
  BY <1>2, <1>3, InvTypes DEF Pools, Stages
<1>5. \A d \in Calls : pool'.stage[d] = IF d = c THEN "cancelled" ELSE pool.stage[d]
  BY <1>4, InvTypes, PoolFields
<1>6. QueueExactIn(pool') /\ AwaitsKnownIn(pool')
  BY <1>1, <1>2, <1>4, <1>5, InvTypes DEF QueueExactIn, AwaitsKnownIn, AwaitingStages
<1>7. ServedIn(pool')
  <2>1. pool.queue # <<>>
    BY <1>1 DEF ElementsOf
  <2> QED
    BY <2>1, <1>4 DEF Inv, PoolInv, ServedIn, AtCapacity
<1>8. CallTypes' /\ ProcessTypes' /\ target' = target /\ listening' = listening
  BY DEF CancelQueuedRequest, processVars, turnVars, callVars, Inv, CallTypes, ProcessTypes
<1>9. PoolInv(pool') /\ pool'.workers \subseteq listening'
  BY <1>4, <1>6, <1>7, <1>8, InvTypes DEF PoolInv
<1>10. Cancels(c)
  BY <1>1, <1>4, <1>5 DEF Cancels, Splice, PhaseOf
<1> QED
  BY <1>2, <1>4, <1>5, <1>8, <1>9, <1>10, DrainKeeps DEF Good, Inv, QueueStep

\* The process of call c is registered.
LEMMA RegisteredGood ==
  ASSUME Inv, NEW c \in Calls, NEW s, pool.stage[c] \in {"starting", "naming"},
         pool' = Registered(pool, c, s), listening' = listening \cup {c},
         CallTypes', ProcessTypes', target' = target
  PROVE  Good
<1>1. /\ PoolInv(pool') /\ pool'.workers \subseteq pool.workers \cup {c}
      /\ ElementsOf(pool'.queue) \subseteq ElementsOf(pool.queue)
      /\ \A d \in Calls : pool.stage[d] = "cancelled" => pool'.stage[d] = "cancelled"
      /\ QueueMoves(pool, pool')
  BY InvTypes, RegisteredKeeps
<1>2. pool'.workers \subseteq listening'
  BY <1>1, InvTypes
<1> QED
  BY <1>1, <1>2, DrainKeeps DEF Good, Inv, QueueStep

LEMMA ProviderStartsGood ==
  ASSUME Inv, NEW c \in Calls, NEW s \in Sessions, ProviderStarts(c, s)
  PROVE  Good
<1>1. pool.stage[c] = "starting" /\ target' = target /\ CallTypes'
  BY DEF ProviderStarts, Inv, CallTypes, callVars
<1>2. ProcessTypes'
  <2>1. listening' \subseteq Calls
    BY DEF ProviderStarts, Inv, ProcessTypes
  <2> QED
    BY <2>1 DEF ProviderStarts, Inv, ProcessTypes, Statuses, callVars
<1>3. CASE target[c] = None
  <2>1. /\ pool' \in Pools /\ pool'.workers = pool.workers
        /\ pool'.dequeued = pool.dequeued /\ pool'.queue = pool.queue
        /\ pool'.stage = [pool.stage EXCEPT ![c] = "naming"] /\ pool'.awaits = pool.awaits
        /\ pool'.sessionToProcess = pool.sessionToProcess /\ pool'.owner = pool.owner
    <3>1. pool' = [pool EXCEPT !.stage[c] = "naming"]
      BY <1>3 DEF ProviderStarts
    <3>2. pool \in Pools /\ [pool.stage EXCEPT ![c] = "naming"] \in [Calls -> Stages]
      BY InvTypes, PoolFields DEF Stages
    <3> QED
      BY <3>1, <3>2 DEF Pools
  <2>2. Handled(pool, pool', c)
    BY <1>1, <2>1, InvTypes, PoolFields DEF Handled, AwaitingStages, Stages
  <2>3. Proceeds(pool, pool', c, target[c])
    <3>1. pool'.stage[c] = "naming"
      BY <2>1, InvTypes, PoolFields
    <3> QED
      BY <1>1, <2>1, <2>2, <3>1, InvTypes, HandledProceeds
  <2>4. listening' = listening
    BY <1>3 DEF ProviderStarts
  <2> QED
    BY <1>1, <1>2, <2>3, <2>4, ContinuedGood DEF Stages
<1>4. CASE target[c] # None
  BY <1>1, <1>2, <1>4, RegisteredGood DEF ProviderStarts
<1> QED
  BY <1>3, <1>4

LEMMA ProviderFailsGood ==
  ASSUME Inv, NEW c \in Calls, ProviderFails(c)
  PROVE  Good
<1>1. pool.stage[c] = "starting"
  BY DEF ProviderFails
<1>2. CallTypes' /\ ProcessTypes' /\ target' = target /\ listening' = listening
  BY DEF ProviderFails, processVars, turnVars, callVars, Inv, CallTypes, ProcessTypes
<1>3. CASE c \notin pool.dequeued
  <2>1. /\ Handled(pool, pool', c) /\ pool'.queue = pool.queue
        /\ pool'.stage[c] = "done"
    BY <1>3, InvTypes, AnsweredHandles, PoolFields
    DEF ProviderFails, Answers, Answered, Pools
  <2>2. Proceeds(pool, pool', c, target[c])
    BY <1>1, <2>1, InvTypes, HandledProceeds
  <2> QED
    BY <1>1, <1>2, <2>2, ContinuedGood DEF Stages
<1>4. CASE c \in pool.dequeued
  <2> DEFINE r == [pool EXCEPT !.stage[c] = "done", !.dequeued = @ \ {c}]
  <2>1. /\ r \in Pools /\ r.workers = pool.workers /\ r.queue = pool.queue
        /\ r.stage = [pool.stage EXCEPT ![c] = "done"] /\ r.awaits = pool.awaits
    BY InvTypes DEF Pools, Stages
  <2>2. pool' = ProcessQueue(r)
    BY <1>4 DEF ProviderFails
  <2> HIDE DEF r
  <2>3. \A d \in Calls : r.stage[d] = IF d = c THEN "done" ELSE pool.stage[d]
    BY <2>1, InvTypes, PoolFields
  <2>4. QueueExactIn(r) /\ AwaitsKnownIn(r)
    BY <1>1, <2>1, <2>3, InvTypes DEF QueueExactIn, AwaitsKnownIn, AwaitingStages
  <2>5. Drained(r, pool') /\ ServedIn(pool')
    BY <2>1, <2>2, <2>4, ProcessQueueDrains
  <2>6. AwaitsKnownIn(pool')
    BY <2>4, <2>5 DEF Drained, AwaitsKnownIn, AwaitingStages
  <2>7. PoolInv(pool')
    BY <2>4, <2>5, <2>6 DEF PoolInv, Drained
  <2>8. \A d \in Calls : pool.stage[d] = "cancelled" => pool'.stage[d] = "cancelled"
    BY <1>1, <2>3, <2>4, <2>5 DEF Drained, QueueExactIn
  <2>9. pool'.workers \subseteq listening'
    BY <1>2, <2>1, <2>5, InvTypes DEF Drained
  <2>10. QueueMoves(pool, pool')
    <3>1. \A d \in Calls : PhaseOf(r.stage[d]) = PhaseOf(pool.stage[d])
      BY <1>1, <2>3 DEF PhaseOf
    <3> QED
      BY <2>1, <2>5, <3>1, SamePhases DEF Drained
  <2> QED
    BY <1>2, <2>1, <2>5, <2>7, <2>8, <2>9, <2>10, DrainKeeps DEF Good, Inv, Drained, QueueStep
<1> QED
  BY <1>3, <1>4

LEMMA NewSessionRegistersGood ==
  ASSUME Inv, NEW c \in Calls, NewSessionRegisters(c)
  PROVE  Good
<1>1. CallTypes' /\ ProcessTypes' /\ target' = target
  BY DEF NewSessionRegisters, turnVars, Inv, CallTypes, ProcessTypes
<1> QED
  BY <1>1, RegisteredGood DEF NewSessionRegisters

\* "complete" may or may not reach the Supervisor.
LEMMA CompletesGood ==
  ASSUME Inv, NEW p, NEW w \in Calls, p \in Pools,
         p.workers = pool.workers, p.dequeued = pool.dequeued,
         p.queue = pool.queue, p.stage = pool.stage, p.awaits = pool.awaits,
         pool' = Completes(p, w), listening' = listening,
         CallTypes', ProcessTypes', target' = target
  PROVE  Good
<1>1. PoolInv(p)
  BY InvTypes, PoolKept
<1>2. CASE pool' = p
  BY <1>2, KeptGood
<1>3. CASE pool' = Unregister(p, w)
  BY <1>1, <1>3, UnregisteredGood
<1> QED
  BY <1>2, <1>3 DEF Completes

LEMMA AgentsGood ==
  ASSUME Inv, Agents
  PROVE  Good
<1> USE DEF callVars, turnVars
<1>1. ASSUME NEW w \in Calls, NEW s \in Sessions, SessionIdReported(w, s) PROVE Good
  <2>1. CallTypes' /\ ProcessTypes' /\ target' = target /\ listening' = listening
    BY <1>1 DEF SessionIdReported, Inv, CallTypes, ProcessTypes
  <2>2. /\ pool' \in Pools /\ pool'.workers = pool.workers
        /\ pool'.dequeued = pool.dequeued /\ pool'.queue = pool.queue
        /\ pool'.stage = pool.stage /\ pool'.awaits = pool.awaits
    <3> DEFINE mapped == [pool.sessionToProcess EXCEPT ![s] = w]
               owned == [pool.owner EXCEPT ![s] = w]
    <3>1. pool \in Pools
      BY InvTypes
    <3>2. /\ mapped \in [Sessions -> Calls \cup {None}]
          /\ owned \in [Sessions -> Calls \cup {None}]
      BY <3>1 DEF Pools
    <3>3. pool' = pool \/ pool' = [pool EXCEPT !.sessionToProcess = mapped, !.owner = owned]
      BY <1>1, <3>1 DEF SessionIdReported, IdChanged, Pools
    <3> HIDE DEF mapped, owned
    <3> QED
      BY <3>1, <3>2, <3>3 DEF Pools
  <2> QED
    BY <2>1, <2>2, KeptGood
<1>2. ASSUME NEW w \in Calls, NEW t \in {"in-turn", "waiting-input", "idle"},
             TurnProceeds(w, t)
      PROVE  Good
  <2>1. CallTypes' /\ ProcessTypes' /\ target' = target /\ listening' = listening
    BY <1>2 DEF TurnProceeds, Inv, CallTypes, ProcessTypes, Statuses
  <2>2. /\ pool' \in Pools /\ pool'.workers = pool.workers
        /\ pool'.dequeued = pool.dequeued /\ pool'.queue = pool.queue
        /\ pool'.stage = pool.stage /\ pool'.awaits = pool.awaits
    BY <1>2, InvTypes DEF TurnProceeds, Enters, Pools
  <2> QED
    BY <2>1, <2>2, KeptGood
<1>3. ASSUME NEW w \in Calls, StreamEnds(w) PROVE Good
  <2>1. CallTypes' /\ ProcessTypes' /\ target' = target /\ listening' = listening
    BY <1>3 DEF StreamEnds, Inv, CallTypes, ProcessTypes, Statuses
  <2>2. /\ pool' \in Pools /\ pool'.workers = pool.workers
        /\ pool'.dequeued = pool.dequeued /\ pool'.queue = pool.queue
        /\ pool'.stage = pool.stage /\ pool'.awaits = pool.awaits
    BY <1>3, InvTypes DEF StreamEnds, Enters, Pools
  <2> QED
    BY <2>1, <2>2, KeptGood
<1>4. ASSUME NEW w \in Calls, Crashes(w) PROVE Good
  <2> DEFINE p == [pool EXCEPT !.idleTimer = @ \ {w}]
  <2>1. CallTypes' /\ ProcessTypes' /\ target' = target /\ listening' = listening
    BY <1>4 DEF Crashes, Inv, CallTypes, ProcessTypes, Statuses
  <2>2. /\ p \in Pools /\ p.workers = pool.workers
        /\ p.dequeued = pool.dequeued /\ p.queue = pool.queue
        /\ p.stage = pool.stage /\ p.awaits = pool.awaits
    BY InvTypes DEF Pools
  <2>3. pool' = Completes(p, w)
    BY <1>4 DEF Crashes
  <2> HIDE DEF p
  <2> QED
    BY <2>1, <2>2, <2>3, CompletesGood
<1>5. ASSUME NEW w \in Calls, TerminateStaleProcess(w) PROVE Good
  <2> DEFINE p == [pool EXCEPT !.killed = @ \cup {w}, !.idleTimer = @ \ {w}]
  <2>1. CallTypes' /\ ProcessTypes' /\ target' = target /\ listening' = listening
    BY <1>5 DEF TerminateStaleProcess, Inv, CallTypes, ProcessTypes, Statuses
  <2>2. /\ p \in Pools /\ p.workers = pool.workers
        /\ p.dequeued = pool.dequeued /\ p.queue = pool.queue
        /\ p.stage = pool.stage /\ p.awaits = pool.awaits
    BY InvTypes DEF Pools
  <2>3. pool' = Completes(p, w)
    BY <1>5 DEF TerminateStaleProcess
  <2> HIDE DEF p
  <2> QED
    BY <2>1, <2>2, <2>3, CompletesGood
<1>6. ASSUME NEW w \in Calls,
             Hold(w) \/ \E t \in {"in-turn", "waiting-input", "idle"} : Unhold(w, t)
      PROVE  Good
  <2>1. CallTypes' /\ ProcessTypes' /\ target' = target /\ listening' = listening
    BY <1>6 DEF Hold, Unhold, Inv, CallTypes, ProcessTypes, Statuses
  <2>2. /\ pool' \in Pools /\ pool'.workers = pool.workers
        /\ pool'.dequeued = pool.dequeued /\ pool'.queue = pool.queue
        /\ pool'.stage = pool.stage /\ pool'.awaits = pool.awaits
    BY <1>6, InvTypes DEF Hold, Unhold, Enters, Pools
  <2> QED
    BY <2>1, <2>2, KeptGood
<1>7. ASSUME NEW w \in Calls, IdleTimerFires(w) PROVE Good
  <2> DEFINE p == [pool EXCEPT !.idleTimer = @ \ {w}]
  <2>1. CallTypes' /\ ProcessTypes' /\ target' = target /\ listening' = listening
    BY <1>7 DEF IdleTimerFires, processVars, Inv, CallTypes, ProcessTypes
  <2>2. /\ p \in Pools /\ p.workers = pool.workers
        /\ p.dequeued = pool.dequeued /\ p.queue = pool.queue
        /\ p.stage = pool.stage /\ p.awaits = pool.awaits
    BY InvTypes DEF Pools
  <2>3. pool' = Completes(p, w)
    BY <1>7 DEF IdleTimerFires
  <2> HIDE DEF p
  <2> QED
    BY <2>1, <2>2, <2>3, CompletesGood
<1> QED
  BY <1>1, <1>2, <1>3, <1>4, <1>5, <1>6, <1>7 DEF Agents

LEMMA InvStep == Inv /\ [Next]_vars => Good
<1> SUFFICES ASSUME Inv, [Next]_vars PROVE Good
  OBVIOUS
<1>1. ASSUME NEW c \in Calls, Continue(c) PROVE Good
  BY <1>1, ResumeToggledGood, ResumeAbortedGood, QueueMessageToggledGood,
     QueueMessageAbortedGood, PreemptedGood, ProviderStartsGood, ProviderFailsGood,
     NewSessionRegistersGood
  DEF Continue
<1>2. CASE Api
  BY <1>1, <1>2, StartSessionGood, ResumeSessionGood, QueueMessageToSessionGood,
     AbortProcessGood, CancelGood
  DEF Api
<1>3. CASE Agents
  BY <1>3, AgentsGood
<1>4. CASE UNCHANGED vars
  <2>1. CallTypes' /\ ProcessTypes' /\ target' = target /\ listening' = listening
    BY <1>4 DEF vars, processVars, turnVars, callVars, Inv, CallTypes, ProcessTypes
  <2>2. pool' = pool
    BY <1>4 DEF vars
  <2> QED
    BY <2>1, <2>2, InvTypes, KeptGood
<1> QED
  BY <1>2, <1>3, <1>4 DEF Next

-----------------------------------------------------------------------------
(* Theorems                                                                *)

LEMMA Invariance == Spec => []Inv
<1>1. Inv /\ [Next]_vars => Inv'
  BY InvStep DEF Good
<1> QED
  BY InvInit, <1>1, PTL DEF Spec

\* A request waits in WorkerQueue exactly while its call is queued, and once: no
\* interleaving of handlers, cancellations and ending processes starts a request
\* twice or loses it.
THEOREM QueueAlwaysExact == Spec => []QueueExact
<1>1. Inv => QueueExact
  BY InvParts
<1> QED
  BY Invariance, <1>1, PTL

\* While a request waits, the pool is at its limit or a loop of processQueue is
\* under way, for every limit on workers and on the queue.
THEOREM QueueAlwaysServed == Spec => []QueueServed
<1>1. Inv => QueueServed
  BY InvParts
<1> QED
  BY Invariance, <1>1, PTL

\* Requests to resume one session are consolidated: no two of them wait in the
\* queue, although the check and the enqueueing follow awaits of other handlers.
THEOREM OneAlwaysQueuedPerSession == Spec => []OneQueuedPerSession
<1>1. Inv => OneQueuedPerSession
  BY DEF Inv
<1> QED
  BY Invariance, <1>1, PTL

\* abort() drops the listeners of a process only after it has left the pool, on
\* every path that aborts one.
THEOREM WorkersAlwaysListenedTo == Spec => []WorkersListenedTo
<1>1. Inv => WorkersListenedTo
  BY DEF Inv
<1> QED
  BY Invariance, <1>1, PTL

\* A request cancelled out of the queue is never started.
THEOREM CancelledAlwaysStays == Spec => CancelledStays
<1> DEFINE Stays == \A c \in Calls :
                       pool.stage[c] = "cancelled" => pool'.stage[c] = "cancelled"
<1>1. Inv /\ [Next]_vars => Stays
  BY InvStep DEF Good, Cancelled
<1> QED
  BY <1>1, Invariance, PTL DEF Spec, CancelledStays

\* The queue of the pool is the line of WorkQueue: every step of the Supervisor is
\* a step of that specification or changes neither its line nor a phase.
THEOREM SupervisorImplementsWorkQueue == Spec => ImplementsWorkQueue
<1> DEFINE phases == [c \in Calls |-> PhaseOf(pool.stage[c])]
           Step == [Line!Next]_<<pool.queue, phases>>
<1>1. Init => Line!Init
  BY DEF Init, Line!Init, PhaseOf
<1>2. Inv /\ [Next]_vars => Step
  <2> SUFFICES ASSUME Inv, [Next]_vars PROVE Line!Next
    OBVIOUS
  <2>1. pool.queue \in Seq(Calls) /\ QueueStep
    BY InvStep, PoolFields, InvTypes DEF Good
  <2>2. ASSUME QueueMoves(pool, pool') PROVE Line!Next
    <3>1. PICK k \in Nat : Advanced(pool, pool', k)
      BY <2>2 DEF QueueMoves
    <3>2. Line!Proceed(k)
      BY <3>1 DEF Advanced, Line!Proceed, Line!Front, Line!Rest, First, Behind
    <3> QED
      BY <3>1, <3>2 DEF Line!Next, Advanced
  <2>3. ASSUME NEW c \in Calls, NEW k \in Nat, NEW to \in {"waiting", "answered"},
               Joined(pool, pool', c, k, to)
        PROVE  Line!Next
    <3>1. Line!Join(c, k, to)
      BY <2>3 DEF Joined, Line!Join, Line!Front, Line!Rest, First, Behind
    <3> QED
      BY <2>3, <3>1 DEF Line!Next, Joined
  <2>4. ASSUME NEW c \in Calls, Cancels(c) PROVE Line!Next
    <3>1. Line!Filter(pool.queue, c) = Filter(pool.queue, c)
      BY DEF Line!Filter, Line!Without, Filter, Without
    <3>2. phases[c] = "waiting" /\ pool'.queue = Filter(pool.queue, c)
      BY <2>4 DEF Cancels, PhaseOf
    <3>3. \A d \in Calls : phases'[d] = IF d = c THEN "cancelled" ELSE phases[d]
      BY <2>4 DEF Cancels
    <3>4. phases' = [phases EXCEPT ![c] = "cancelled"]
      BY <3>3
    <3>5. Line!Cancel(c)
      BY <3>1, <3>2, <3>4 DEF Line!Cancel
    <3> QED
      BY <3>5 DEF Line!Next
  <2> QED
    BY <2>1, <2>2, <2>3, <2>4 DEF QueueStep, CallMoves
<1> QED
  BY <1>1, <1>2, Invariance, PTL DEF Spec, ImplementsWorkQueue, Line!Spec

-----------------------------------------------------------------------------
(* The map of sessions and the announced owners                            *)

\* q is p without the processes W: no session leads to them, and those they go
\* by are announced as nobody's.  No call enters or leaves the stages in which it
\* has a process.
Forgets(p, q, W) ==
    /\ q.workers = p.workers \ W
    /\ \A s \in Sessions :
          /\ q.sessionToProcess[s] =
                IF p.sessionToProcess[s] \in W THEN None ELSE p.sessionToProcess[s]
          /\ q.owner[s] = IF \E w \in W : sessionId[w] = s THEN None ELSE p.owner[s]
    /\ \A c \in Calls :
          \/ q.stage[c] = p.stage[c]
          \/ p.stage[c] \notin {"naming", "done"} /\ q.stage[c] # "naming"

LEMMA HandledForgets ==
  ASSUME NEW p, NEW q, NEW c \in Calls, Handled(p, q, c),
         p.stage[c] \notin {"starting", "naming", "done"}
  PROVE  Forgets(p, q, {})
BY DEF Handled, Forgets

LEMMA ProcessQueueForgets ==
  ASSUME NEW p \in Pools, QueueExactIn(p)
  PROVE  Forgets(p, ProcessQueue(p), {})
<1> DEFINE q == ProcessQueue(p)
<1>1. /\ q.workers = p.workers /\ q.sessionToProcess = p.sessionToProcess
      /\ q.owner = p.owner
  BY DEF ProcessQueue, Dequeue, Pools
<1>2. \A c \in Calls :
         \/ q.stage[c] = p.stage[c]
         \/ p.stage[c] \notin {"naming", "done"} /\ q.stage[c] # "naming"
  BY ProcessQueueDrains DEF Drained, QueueExactIn
<1> HIDE DEF q
<1>3. Forgets(p, q, {})
  BY <1>1, <1>2 DEF Forgets
<1> QED
  BY <1>3 DEF q

LEMMA ForgetsTwice ==
  ASSUME NEW p, NEW r, NEW q, NEW V \in SUBSET Calls, NEW W \in SUBSET Calls,
         Forgets(p, r, V), Forgets(r, q, W)
  PROVE  Forgets(p, q, V \cup W)
<1>1. None \notin W
  BY NoneAssumption
<1>2. \A s \in Sessions :
         /\ q.sessionToProcess[s] =
               IF p.sessionToProcess[s] \in V \cup W THEN None ELSE p.sessionToProcess[s]
         /\ q.owner[s] = IF \E w \in V \cup W : sessionId[w] = s THEN None ELSE p.owner[s]
  BY <1>1 DEF Forgets
<1> QED
  BY <1>2 DEF Forgets

LEMMA UnregisterForgets ==
  ASSUME NEW p \in Pools, QueueExactIn(p), NEW w \in Calls
  PROVE  Forgets(p, Unregister(p, w), {w})
<1> DEFINE map == [s \in Sessions |->
                      IF p.sessionToProcess[s] = w THEN None ELSE p.sessionToProcess[s]]
           owners == [p.owner EXCEPT ![sessionId[w]] = None]
           r == [p EXCEPT !.workers = @ \ {w}, !.sessionToProcess = map, !.owner = owners]
<1>1. p.owner \in [Sessions -> Calls \cup {None}]
  BY DEF Pools
<1>2. /\ map \in [Sessions -> Calls \cup {None}]
      /\ owners \in [Sessions -> Calls \cup {None}]
  BY <1>1, PoolFields
<1>3. Unregister(p, w) = ProcessQueue(r)
  BY DEF Unregister, Pools
<1>4. /\ \A s \in Sessions :
            map[s] = IF p.sessionToProcess[s] = w THEN None ELSE p.sessionToProcess[s]
      /\ \A s \in Sessions : owners[s] = IF sessionId[w] = s THEN None ELSE p.owner[s]
  BY <1>1
<1> HIDE DEF map, owners
<1>5. /\ r \in Pools /\ r.workers = p.workers \ {w} /\ r.sessionToProcess = map
      /\ r.owner = owners /\ r.stage = p.stage /\ r.queue = p.queue
  BY <1>2 DEF Pools
<1> HIDE DEF r
<1>6. Forgets(p, r, {w})
  BY <1>4, <1>5 DEF Forgets
<1>7. Forgets(r, ProcessQueue(r), {})
  BY <1>5, ProcessQueueForgets DEF QueueExactIn
<1>8. Forgets(p, ProcessQueue(r), {w} \cup {})
  BY <1>6, <1>7, ForgetsTwice
<1>9. {w} \cup {} = {w}
  OBVIOUS
<1> QED
  BY <1>3, <1>8, <1>9

LEMMA AbortReturnedForgets ==
  ASSUME NEW p \in Pools, QueueExactIn(p), NEW w \in Calls
  PROVE  Forgets(p, AbortReturned(p, w), {w})
<1> DEFINE r == Unregister(p, w)
<1>1. Forgets(p, r, {w}) /\ r \in Pools /\ QueueExactIn(r)
  BY UnregisterForgets, UnregisterDrains DEF Drained
<1>2. CASE w \in listening /\ status[w] # "terminated"
  <2>1. AbortReturned(p, w) = Unregister(r, w)
    BY <1>2 DEF AbortReturned
  <2> HIDE DEF r
  <2>2. Forgets(r, Unregister(r, w), {w})
    BY <1>1, UnregisterForgets
  <2>3. Forgets(p, Unregister(r, w), {w} \cup {w})
    BY <1>1, <2>2, ForgetsTwice
  <2>4. {w} \cup {w} = {w}
    OBVIOUS
  <2> QED
    BY <2>1, <2>3, <2>4
<1>3. CASE ~(w \in listening /\ status[w] # "terminated")
  BY <1>1, <1>3 DEF AbortReturned
<1> QED
  BY <1>2, <1>3

\* A handler decides about its call after some processes were forgotten.
LEMMA ForgetsThenHandles ==
  ASSUME NEW p, NEW r, NEW q, NEW W \in SUBSET Calls, NEW c \in Calls,
         Forgets(p, r, W), Handled(r, q, c), Pending(r, c)
  PROVE  Forgets(p, q, W)
<1>1. Forgets(r, q, {})
  BY HandledForgets DEF Pending, AwaitingStages
<1>2. Forgets(p, q, W \cup {})
  BY <1>1, ForgetsTwice
<1>3. W \cup {} = W
  OBVIOUS
<1> QED
  BY <1>2, <1>3

LEMMA ResumeFromForgets ==
  ASSUME NEW p, NEW c \in Calls, NEW s, PoolInv(p), Pending(p, c),
         status \in [Calls -> Statuses], ResumeFrom(p, c, s)
  PROVE  \E W \in SUBSET Calls : Forgets(p, pool', W)
<1>1. PICK r : MayUnregister(p, r) /\ Handled(r, pool', c)
  BY ResumeFromHandles DEF PoolInv
<1>2. CASE r = p
  <2>1. Forgets(p, pool', {})
    BY <1>1, <1>2, HandledForgets DEF Pending, AwaitingStages
  <2> QED
    BY <2>1
<1>3. ASSUME NEW w \in p.workers, r = Unregister(p, w)
      PROVE  \E W \in SUBSET Calls : Forgets(p, pool', W)
  <2>1. w \in Calls
    BY <1>3, PoolFields DEF PoolInv
  <2>2. Forgets(p, r, {w}) /\ Drained(p, r)
    BY <1>3, <2>1, UnregisterForgets, UnregisterDrains DEF PoolInv
  <2>3. Pending(r, c)
    BY <2>2 DEF Drained, Pending, PoolInv, QueueExactIn, AwaitingStages
  <2>4. {w} \in SUBSET Calls /\ Forgets(p, pool', {w})
    BY <1>1, <2>1, <2>2, <2>3, ForgetsThenHandles
  <2> QED
    BY <2>4
<1> QED
  BY <1>1, <1>2, <1>3 DEF MayUnregister

\* What the maps rest on: the Supervisor listens to, and announces, only processes
\* whose calls are done, and whoever is in the pool, or about to be, goes by an id.
ListenersDone == \A w \in listening : pool.stage[w] = "done"

OwnersDone ==
    \A s \in Sessions : pool.owner[s] # None => pool.stage[pool.owner[s]] = "done"

WorkersNamed ==
    \A w \in Calls :
        w \in pool.workers \/ pool.stage[w] = "naming" => sessionId[w] \in Sessions

MapInv ==
    /\ MappedToWorker /\ WorkerReachable /\ OwnedIsMapped
    /\ ListenersDone /\ OwnersDone /\ WorkersNamed

LEMMA MapInvInit == Init => MapInv
BY DEF Init, MapInv, MappedToWorker, WorkerReachable, OwnedIsMapped, ListenersDone,
       OwnersDone, WorkersNamed

\* The maps lead from sessions to processes, and workers are listened to.
LEMMA MapTypes ==
  ASSUME Inv
  PROVE  /\ \A s \in Sessions : pool.sessionToProcess[s] \in Calls \cup {None}
         /\ \A s \in Sessions : pool.owner[s] \in Calls \cup {None}
         /\ pool.workers \subseteq listening /\ listening \subseteq Calls
         /\ None \notin Calls /\ None \notin Sessions
         /\ sessionId \in [Calls -> Sessions \cup {None}]
<1>1. pool \in Pools
  BY InvTypes
<1>2. /\ pool.sessionToProcess \in [Sessions -> Calls \cup {None}]
      /\ pool.owner \in [Sessions -> Calls \cup {None}]
  BY <1>1 DEF Pools
<1> QED
  BY <1>2, InvTypes, NoneAssumption DEF Inv, ProcessTypes

\* A step that gives no process an id and hears of no new one
Steady == UNCHANGED <<sessionId, historyVars>> /\ listening' \subseteq listening

LEMMA ForgettingKeeps ==
  ASSUME Inv, MapInv, NEW W \in SUBSET Calls, Forgets(pool, pool', W), Steady
  PROVE  MapInv'
<1> USE MapTypes DEF Steady, historyVars
<1>1. \A s \in Sessions : pool'.sessionToProcess[s] # None =>
         /\ pool'.sessionToProcess[s] = pool.sessionToProcess[s]
         /\ pool.sessionToProcess[s] \notin W
  BY DEF Forgets
<1>2. \A s \in Sessions : pool'.owner[s] # None => pool'.owner[s] = pool.owner[s]
  BY DEF Forgets
<1>3. \A c \in Calls : pool.stage[c] \in {"naming", "done"} => pool'.stage[c] = pool.stage[c]
  BY DEF Forgets
<1>4. \A c \in Calls : pool'.stage[c] = "naming" => pool.stage[c] = "naming"
  BY DEF Forgets
<1>5. MappedToWorker'
  BY <1>1 DEF MapInv, MappedToWorker, Forgets
<1>6. WorkerReachable'
  BY DEF MapInv, WorkerReachable, WorkersNamed, Forgets
<1>7. OwnedIsMapped'
  <2> SUFFICES ASSUME NEW s \in Sessions, pool'.owner[s] \in pool'.workers
               PROVE  pool'.sessionToProcess[s] = pool'.owner[s]
    BY DEF OwnedIsMapped
  <2>1. pool'.owner[s] = pool.owner[s] /\ pool.owner[s] \in pool.workers \ W
    BY <1>2 DEF Forgets
  <2>2. pool.sessionToProcess[s] = pool.owner[s]
    BY <2>1 DEF MapInv, OwnedIsMapped
  <2> QED
    BY <2>1, <2>2 DEF Forgets
<1>8. ListenersDone' /\ OwnersDone'
  BY <1>2, <1>3 DEF MapInv, ListenersDone, OwnersDone
<1>9. WorkersNamed'
  BY <1>4 DEF MapInv, WorkersNamed, Forgets
<1> QED
  BY <1>5, <1>6, <1>7, <1>8, <1>9 DEF MapInv

\* A handler that takes no process from the maps
LEMMA HandledMaps ==
  ASSUME Inv, MapInv, NEW c \in Calls, Handled(pool, pool', c), Pending(pool, c), Steady
  PROVE  MapInv'
<1>1. Forgets(pool, pool', {})
  BY HandledForgets DEF Pending, AwaitingStages
<1> QED
  BY <1>1, ForgettingKeeps

\* Process c enters the pool under session s.
Enrols(p, q, c, s) ==
    /\ q.workers = p.workers \cup {c} /\ q.stage[c] = "done"
    /\ \A t \in Sessions :
          /\ q.sessionToProcess[t] = IF t = s THEN c ELSE p.sessionToProcess[t]
          /\ q.owner[t] = IF t = s THEN c ELSE p.owner[t]
    /\ \A d \in Calls \ {c} :
          \/ q.stage[d] = p.stage[d]
          \/ p.stage[d] \notin {"naming", "done"} /\ q.stage[d] # "naming"

LEMMA RegisteredEnrols ==
  ASSUME NEW p, NEW c \in Calls, NEW s, PoolInv(p), p.stage[c] \in {"starting", "naming"}
  PROVE  Enrols(p, Registered(p, c, s), c, s)
<1> DEFINE answer == [p.answer EXCEPT ![c] = IF c \in p.dequeued THEN @ ELSE c]
           stage == [p.stage EXCEPT ![c] = "done"]
           mapped == [p.sessionToProcess EXCEPT ![s] = c]
           owned == [p.owner EXCEPT ![s] = c]
           r == [p EXCEPT !.workers = p.workers \cup {c}, !.sessionToProcess = mapped,
                          !.owner = owned, !.stage = stage, !.answer = answer,
                          !.dequeued = p.dequeued \ {c}]
<1>1. /\ p \in Pools /\ p.stage \in [Calls -> Stages] /\ p.answer \in [Calls -> Answers]
      /\ p.sessionToProcess \in [Sessions -> Calls \cup {None}]
      /\ p.owner \in [Sessions -> Calls \cup {None}]
  BY PoolFields DEF PoolInv, Pools
<1>2. /\ answer \in [Calls -> Answers] /\ stage \in [Calls -> Stages]
      /\ mapped \in [Sessions -> Calls \cup {None}]
      /\ owned \in [Sessions -> Calls \cup {None}]
  BY <1>1 DEF Answers, Stages
<1>3. /\ \A t \in Sessions : mapped[t] = IF t = s THEN c ELSE p.sessionToProcess[t]
      /\ \A t \in Sessions : owned[t] = IF t = s THEN c ELSE p.owner[t]
      /\ \A d \in Calls : stage[d] = IF d = c THEN "done" ELSE p.stage[d]
  BY <1>1
<1>4. Registered(p, c, s) = IF c \in p.dequeued THEN ProcessQueue(r) ELSE r
  BY <1>1 DEF Registered, Pools
<1> HIDE DEF answer, stage, mapped, owned
<1>5. /\ r \in Pools /\ r.workers = p.workers \cup {c}
      /\ r.sessionToProcess = mapped /\ r.owner = owned
      /\ r.stage = stage /\ r.queue = p.queue
  BY <1>1, <1>2 DEF Pools
<1> HIDE DEF r
<1>6. Enrols(p, r, c, s)
  BY <1>3, <1>5 DEF Enrols
<1>7. QueueExactIn(r)
  BY <1>3, <1>5 DEF PoolInv, QueueExactIn
<1>8. Forgets(r, ProcessQueue(r), {})
  BY <1>5, <1>7, ProcessQueueForgets
<1>9. Enrols(p, ProcessQueue(r), c, s)
  BY <1>6, <1>8 DEF Enrols, Forgets
<1> QED
  BY <1>4, <1>6, <1>9

\* A process that enters the pool was in no map before: its call was under way.
LEMMA EnrolsKeeps ==
  ASSUME Inv, MapInv, NEW c \in Calls, NEW s \in Sessions, Enrols(pool, pool', c, s),
         pool.stage[c] \in {"starting", "naming"}, Takes(c, s), late' = late,
         listening' = listening \cup {c}, sessionId'[c] = s,
         \A d \in Calls \ {c} : sessionId'[d] = sessionId[d]
  PROVE  MapInv'
<1> USE MapTypes
<1>1. c \notin listening /\ c \notin pool.workers
  BY DEF MapInv, ListenersDone
<1>2. contested \subseteq contested'
  BY DEF Takes
<1>3. MappedToWorker'
  BY DEF MapInv, MappedToWorker, Enrols
<1>4. WorkerReachable'
  <2> SUFFICES ASSUME NEW w \in pool.workers, w # c
               PROVE  \/ pool'.sessionToProcess[sessionId[w]] = w
                      \/ sessionId[w] \in contested'
    BY <1>1 DEF WorkerReachable, Enrols
  <2>1. CASE sessionId[w] = s
    BY <2>1 DEF Takes
  <2>2. CASE sessionId[w] # s
    <3>1. sessionId[w] \in Sessions
      BY DEF MapInv, WorkersNamed
    <3> QED
      BY <1>2, <2>2, <3>1 DEF Enrols, MapInv, WorkerReachable
  <2> QED
    BY <2>1, <2>2
<1>5. \A t \in Sessions : pool.owner[t] # c
  BY DEF MapInv, OwnersDone
<1>6. OwnedIsMapped'
  BY <1>5 DEF OwnedIsMapped, Enrols, MapInv
<1>7. ListenersDone' /\ OwnersDone'
  BY <1>1, <1>5 DEF MapInv, ListenersDone, OwnersDone, Enrols
<1>8. WorkersNamed'
  BY DEF MapInv, WorkersNamed, Enrols
<1> QED
  BY <1>3, <1>4, <1>6, <1>7, <1>8 DEF MapInv

LEMMA ProviderStartsMaps ==
  ASSUME Inv, MapInv, NEW c \in Calls, NEW s \in Sessions, ProviderStarts(c, s)
  PROVE  MapInv'
<1> USE MapTypes
<1>1. /\ pool.stage[c] = "starting" /\ late' = late
      /\ \A d \in Calls : sessionId'[d] = IF d = c THEN s ELSE sessionId[d]
  BY DEF ProviderStarts
<1>2. CASE target[c] # None
  <2>1. /\ pool' = Registered(pool, c, s) /\ listening' = listening \cup {c}
        /\ Takes(c, s)
    BY <1>2 DEF ProviderStarts
  <2>2. Enrols(pool, pool', c, s)
    BY <1>1, <2>1, InvTypes, RegisteredEnrols
  <2> QED
    BY <1>1, <2>1, <2>2, EnrolsKeeps
<1>3. CASE target[c] = None
  <2>1. /\ pool'.workers = pool.workers /\ pool'.sessionToProcess = pool.sessionToProcess
        /\ pool'.owner = pool.owner
        /\ \A d \in Calls : pool'.stage[d] = IF d = c THEN "naming" ELSE pool.stage[d]
        /\ listening' = listening /\ contested' = contested
    BY <1>3, InvTypes DEF ProviderStarts, Pools
  <2>2. c \notin listening /\ c \notin pool.workers
    BY <1>1 DEF MapInv, ListenersDone
  <2>3. MappedToWorker' /\ OwnedIsMapped'
    BY <1>1, <2>1 DEF MapInv, MappedToWorker, OwnedIsMapped
  <2>4. WorkerReachable'
    BY <1>1, <2>1, <2>2 DEF MapInv, WorkerReachable
  <2>5. ListenersDone' /\ OwnersDone'
    BY <1>1, <2>1, <2>2 DEF MapInv, ListenersDone, OwnersDone
  <2>6. WorkersNamed'
    BY <1>1, <2>1 DEF MapInv, WorkersNamed
  <2> QED
    BY <2>3, <2>4, <2>5, <2>6 DEF MapInv
<1> QED
  BY <1>2, <1>3

LEMMA NewSessionRegistersMaps ==
  ASSUME Inv, MapInv, NEW c \in Calls, NewSessionRegisters(c)
  PROVE  MapInv'
<1>1. /\ pool.stage[c] = "naming" /\ pool' = Registered(pool, c, sessionId[c])
      /\ listening' = listening \cup {c} /\ UNCHANGED <<sessionId, late>>
      /\ Takes(c, sessionId[c])
  BY DEF NewSessionRegisters
<1>2. Enrols(pool, pool', c, sessionId[c])
  BY <1>1, InvTypes, RegisteredEnrols
<1>3. sessionId[c] \in Sessions
  BY <1>1 DEF MapInv, WorkersNamed
<1> QED
  BY <1>1, <1>2, <1>3, EnrolsKeeps

\* A process the Supervisor listens to is mapped under its new id; one it does not
\* listen to is no worker.
LEMMA SessionIdReportedMaps ==
  ASSUME Inv, MapInv, NEW w \in Calls, NEW s \in Sessions, SessionIdReported(w, s)
  PROVE  MapInv'
<1> USE MapTypes
<1>1. /\ \A d \in Calls : sessionId'[d] = IF d = w THEN s ELSE sessionId[d]
      /\ listening' = listening
  BY DEF SessionIdReported
<1>2. CASE w \in listening
  <2>1. /\ pool' = [pool EXCEPT !.sessionToProcess[s] = w, !.owner[s] = w]
        /\ Takes(w, s) /\ late' = IF w \in pool.workers THEN late ELSE late \cup {s}
    BY <1>2 DEF SessionIdReported, IdChanged
  <2>2. /\ pool'.workers = pool.workers /\ pool'.stage = pool.stage
        /\ \A t \in Sessions :
              /\ pool'.sessionToProcess[t] = IF t = s THEN w ELSE pool.sessionToProcess[t]
              /\ pool'.owner[t] = IF t = s THEN w ELSE pool.owner[t]
    BY <2>1, InvTypes DEF Pools
  <2>3. MappedToWorker'
    BY <2>1, <2>2 DEF MapInv, MappedToWorker
  <2>4. WorkerReachable'
    <3> SUFFICES ASSUME NEW v \in pool.workers, v # w
                 PROVE  \/ pool'.sessionToProcess[sessionId[v]] = v
                        \/ sessionId[v] \in contested'
      BY <1>1, <2>2 DEF WorkerReachable
    <3>1. CASE sessionId[v] = s
      BY <2>1, <3>1 DEF Takes
    <3>2. CASE sessionId[v] # s
      <4>1. sessionId[v] \in Sessions /\ contested \subseteq contested'
        BY <2>1 DEF MapInv, WorkersNamed, Takes
      <4> QED
        BY <2>2, <3>2, <4>1 DEF MapInv, WorkerReachable
    <3> QED
      BY <3>1, <3>2
  <2>5. OwnedIsMapped'
    BY <2>2 DEF MapInv, OwnedIsMapped
  <2>6. ListenersDone' /\ OwnersDone'
    BY <1>1, <1>2, <2>2 DEF MapInv, ListenersDone, OwnersDone
  <2>7. WorkersNamed'
    BY <1>1, <2>2 DEF MapInv, WorkersNamed
  <2> QED
    BY <2>3, <2>4, <2>5, <2>6, <2>7 DEF MapInv
<1>3. CASE w \notin listening
  <2>1. pool' = pool /\ contested' = contested /\ late' = late
    BY <1>3 DEF SessionIdReported, historyVars
  <2>2. MappedToWorker' /\ OwnedIsMapped' /\ ListenersDone' /\ OwnersDone'
    BY <1>1, <2>1 DEF MapInv, MappedToWorker, OwnedIsMapped, ListenersDone, OwnersDone
  <2>3. WorkerReachable'
    BY <1>1, <1>3, <2>1 DEF MapInv, WorkerReachable
  <2>4. WorkersNamed'
    BY <1>1, <2>1 DEF MapInv, WorkersNamed
  <2> QED
    BY <2>2, <2>3, <2>4 DEF MapInv
<1> QED
  BY <1>2, <1>3

\* A call that is sent
LEMMA CallsMap ==
  ASSUME Inv, MapInv, NEW c \in Calls, NEW s \in Sessions,
         ResumeSession(c, s) \/ QueueMessageToSession(c, s)
  PROVE  MapInv'
<1>1. pool.stage[c] = "unsent" /\ Pending(pool, c) /\ Steady
  BY DEF ResumeSession, QueueMessageToSession, Invoke, Pending, Steady
<1>2. CASE QueueMessageToSession(c, s)
  BY <1>1, <1>2, QueueMessageHandles, HandledMaps
<1>3. CASE ResumeSession(c, s)
  <2>1. PICK W \in SUBSET Calls : Forgets(pool, pool', W)
    BY <1>1, <1>3, InvTypes, ResumeFromForgets DEF ResumeSession
  <2> QED
    BY <1>1, <2>1, ForgettingKeeps
<1> QED
  BY <1>2, <1>3

LEMMA ToggledMap ==
  ASSUME Inv, MapInv, NEW c \in Calls, ResumeToggled(c) \/ QueueMessageToggled(c)
  PROVE  MapInv'
<1> DEFINE w == pool.awaits[c]
<1>1. pool.stage[c] \in AwaitingStages /\ Pending(pool, c) /\ w \in Calls /\ Steady
  BY InvTypes
  DEF ResumeToggled, QueueMessageToggled, AwaitingStages, Pending, Steady, callVars
<1>2. CASE SendTo(pool, c, w)
  BY <1>1, <1>2, InvTypes, SendToHandles, HandledMaps
<1>3. CASE pool' \in AdmitResume(pool, c, target[c])
  BY <1>1, <1>3, InvTypes, AdmitResumeHandles, HandledMaps
<1>4. CASE pool' = Answered(pool, c, "refused")
  <2>1. Handled(pool, pool', c)
    BY <1>4, InvTypes, AnsweredHandles DEF Answers
  <2> QED
    BY <1>1, <2>1, HandledMaps
<1> QED
  BY <1>2, <1>3, <1>4 DEF ResumeToggled, QueueMessageToggled

\* A handler that goes on after an abort: it forgets the process it aborted.
LEMMA AbortedMap ==
  ASSUME Inv, MapInv, NEW c \in Calls,
         ResumeAborted(c) \/ QueueMessageAborted(c) \/ Preempted(c)
  PROVE  MapInv'
<1> DEFINE w == pool.awaits[c]
           p == AbortReturned(pool, w)
<1>1. pool.stage[c] \in AwaitingStages /\ Steady
  BY DEF ResumeAborted, QueueMessageAborted, Preempted, AwaitingStages, Steady, callVars
<1>2. w \in Calls /\ PoolInv(p) /\ p \in Pools /\ Pending(p, c)
  BY <1>1, AbortedFacts DEF PoolInv
<1>3. Forgets(pool, p, {w}) /\ {w} \in SUBSET Calls
  BY <1>2, InvTypes, AbortReturnedForgets
<1>4. \/ SendTo(p, c, w)
      \/ pool' \in AdmitResume(p, c, target[c])
      \/ ResumeFrom(p, c, target[c])
      \/ pool' = Starts(p, c)
  BY DEF ResumeAborted, QueueMessageAborted, Preempted
<1> HIDE DEF w, p
<1>5. CASE Handled(p, pool', c)
  BY <1>1, <1>2, <1>3, <1>5, ForgetsThenHandles, ForgettingKeeps
<1>6. CASE SendTo(p, c, w)
  BY <1>2, <1>5, <1>6, InvTypes, SendToHandles
<1>7. CASE pool' \in AdmitResume(p, c, target[c])
  BY <1>2, <1>5, <1>7, InvTypes, AdmitResumeHandles
<1>8. CASE pool' = Starts(p, c)
  BY <1>2, <1>5, <1>8, InvTypes, StartsHandles
<1>9. CASE ResumeFrom(p, c, target[c])
  <2>1. PICK W \in SUBSET Calls : Forgets(p, pool', W)
    BY <1>2, <1>9, InvTypes, ResumeFromForgets
  <2>2. Forgets(pool, pool', {w} \cup W)
    BY <1>3, <2>1, ForgetsTwice
  <2>3. {w} \cup W \in SUBSET Calls
    BY <1>2
  <2> QED
    BY <1>1, <2>2, <2>3, ForgettingKeeps
<1> QED
  BY <1>4, <1>6, <1>7, <1>8, <1>9

LEMMA ProviderFailsMaps ==
  ASSUME Inv, MapInv, NEW c \in Calls, ProviderFails(c)
  PROVE  MapInv'
<1>1. pool.stage[c] = "starting" /\ Steady
  BY DEF ProviderFails, processVars, callVars, Steady
<1>2. CASE c \notin pool.dequeued
  <2>1. pool' = Answered(pool, c, "failed")
    BY <1>2 DEF ProviderFails
  <2>2. Handled(pool, pool', c) /\ pool'.stage[c] = "done"
    BY <2>1, InvTypes, AnsweredHandles, PoolFields DEF Answers, Answered, Pools
  <2>3. Forgets(pool, pool', {})
    BY <1>1, <2>2 DEF Handled, Forgets
  <2> QED
    BY <1>1, <2>3, ForgettingKeeps
<1>3. CASE c \in pool.dequeued
  <2> DEFINE r == [pool EXCEPT !.stage[c] = "done", !.dequeued = @ \ {c}]
  <2>1. /\ r \in Pools /\ r.workers = pool.workers /\ r.queue = pool.queue
        /\ r.sessionToProcess = pool.sessionToProcess /\ r.owner = pool.owner
        /\ r.stage = [pool.stage EXCEPT ![c] = "done"]
    BY InvTypes DEF Pools, Stages
  <2>2. pool' = ProcessQueue(r)
    BY <1>3 DEF ProviderFails
  <2> HIDE DEF r
  <2>3. \A d \in Calls : r.stage[d] = IF d = c THEN "done" ELSE pool.stage[d]
    BY <2>1, InvTypes, PoolFields
  <2>4. QueueExactIn(r)
    BY <1>1, <2>1, <2>3, InvTypes DEF QueueExactIn
  <2>5. Forgets(pool, r, {})
    BY <1>1, <2>1, <2>3 DEF Forgets
  <2>6. Forgets(r, pool', {})
    BY <2>1, <2>2, <2>4, ProcessQueueForgets
  <2>7. Forgets(pool, pool', {} \cup {})
    BY <2>5, <2>6, ForgetsTwice
  <2> QED
    BY <1>1, <2>7, ForgettingKeeps
<1> QED
  BY <1>2, <1>3

LEMMA AbortAndCancelMap ==
  ASSUME Inv, MapInv, NEW c \in Calls,
         AbortProcess(c) \/ AbortProcessReturns(c) \/ CancelQueuedRequest(c)
  PROVE  MapInv'
<1>1. Steady
  BY DEF AbortProcess, AbortProcessReturns, CancelQueuedRequest, processVars, callVars,
         Steady, historyVars
<1>2. CASE AbortProcess(c)
  <2>1. Forgets(pool, pool', {})
    BY <1>2, InvTypes DEF AbortProcess, Pools, Forgets
  <2> QED
    BY <1>1, <2>1, ForgettingKeeps
<1>3. CASE CancelQueuedRequest(c)
  <2>1. /\ pool.stage[c] = "queued" /\ pool'.stage = [pool.stage EXCEPT ![c] = "cancelled"]
        /\ pool'.workers = pool.workers /\ pool'.owner = pool.owner
        /\ pool'.sessionToProcess = pool.sessionToProcess
    BY <1>3, InvTypes DEF CancelQueuedRequest, Pools
  <2>2. \A d \in Calls : pool'.stage[d] = IF d = c THEN "cancelled" ELSE pool.stage[d]
    BY <2>1, InvTypes, PoolFields
  <2>3. Forgets(pool, pool', {})
    BY <2>1, <2>2 DEF Forgets
  <2> QED
    BY <1>1, <2>3, ForgettingKeeps
<1>4. CASE AbortProcessReturns(c)
  <2>1. Forgets(pool, pool', {c}) /\ {c} \in SUBSET Calls
    BY <1>4, InvTypes, AbortReturnedForgets DEF AbortProcessReturns
  <2> QED
    BY <1>1, <2>1, ForgettingKeeps
<1> QED
  BY <1>2, <1>3, <1>4

\* "complete" reaches the Supervisor or not.
LEMMA CompletesMaps ==
  ASSUME Inv, MapInv, Steady, NEW w \in Calls, NEW p \in Pools,
         p.queue = pool.queue, p.stage = pool.stage, p.workers = pool.workers,
         p.sessionToProcess = pool.sessionToProcess, p.owner = pool.owner,
         pool' = Completes(p, w)
  PROVE  MapInv'
<1>1. CASE pool' = p
  <2>1. Forgets(pool, pool', {})
    BY <1>1 DEF Forgets
  <2> QED
    BY <2>1, ForgettingKeeps
<1>2. CASE pool' = Unregister(p, w)
  <2>1. QueueExactIn(p)
    BY InvTypes DEF QueueExactIn
  <2>2. Forgets(p, pool', {w})
    BY <1>2, <2>1, UnregisterForgets
  <2>3. Forgets(pool, pool', {w}) /\ {w} \in SUBSET Calls
    BY <2>2 DEF Forgets
  <2> QED
    BY <2>3, ForgettingKeeps
<1> QED
  BY <1>1, <1>2 DEF Completes

LEMMA AgentsMap ==
  ASSUME Inv, MapInv, Agents
  PROVE  MapInv'
<1> USE DEF callVars, historyVars
<1>1. ASSUME NEW w \in Calls, NEW s \in Sessions, SessionIdReported(w, s) PROVE MapInv'
  BY <1>1, SessionIdReportedMaps
<1>2. ASSUME NEW w \in Calls,
             \/ \E t \in {"in-turn", "waiting-input", "idle"} :
                   TurnProceeds(w, t) \/ Unhold(w, t)
             \/ Hold(w) \/ StreamEnds(w)
      PROVE  MapInv'
  <2>1. Forgets(pool, pool', {})
    BY <1>2, InvTypes DEF TurnProceeds, Hold, Unhold, StreamEnds, Enters, Forgets, Pools
  <2>2. Steady
    BY <1>2 DEF TurnProceeds, Hold, Unhold, StreamEnds, Steady
  <2> QED
    BY <2>1, <2>2, ForgettingKeeps
<1>3. ASSUME NEW w \in Calls, Crashes(w) \/ TerminateStaleProcess(w) \/ IdleTimerFires(w)
      PROVE  MapInv'
  <2> DEFINE Kept(p) == /\ p \in Pools /\ p.queue = pool.queue /\ p.stage = pool.stage
                        /\ p.workers = pool.workers /\ p.owner = pool.owner
                        /\ p.sessionToProcess = pool.sessionToProcess
  <2>1. /\ Kept([pool EXCEPT !.idleTimer = @ \ {w}])
        /\ Kept([pool EXCEPT !.killed = @ \cup {w}, !.idleTimer = @ \ {w}])
    BY InvTypes DEF Pools
  <2>2. Steady
    BY <1>3 DEF Crashes, TerminateStaleProcess, IdleTimerFires, Steady, processVars
  <2>3. \/ pool' = Completes([pool EXCEPT !.idleTimer = @ \ {w}], w)
        \/ pool' = Completes([pool EXCEPT !.killed = @ \cup {w}, !.idleTimer = @ \ {w}], w)
    BY <1>3 DEF Crashes, TerminateStaleProcess, IdleTimerFires
  <2> QED
    BY <2>1, <2>2, <2>3, CompletesMaps
<1> QED
  BY <1>1, <1>2, <1>3 DEF Agents

LEMMA MapInvStep == Inv /\ MapInv /\ [Next]_vars => MapInv'
<1> SUFFICES ASSUME Inv, MapInv, [Next]_vars PROVE MapInv'
  OBVIOUS
<1>1. ASSUME NEW c \in Calls, Continue(c) PROVE MapInv'
  BY <1>1, ToggledMap, AbortedMap, ProviderStartsMaps, ProviderFailsMaps,
     NewSessionRegistersMaps
  DEF Continue
<1>2. ASSUME NEW c \in Calls, StartSession(c) PROVE MapInv'
  <2>1. Handled(pool, pool', c) /\ Pending(pool, c) /\ Steady
    BY <1>2, InvTypes, AdmitHandles DEF StartSession, Invoke, Pending, Steady
  <2> QED
    BY <2>1, HandledMaps
<1>3. CASE Api
  BY <1>1, <1>2, <1>3, CallsMap, AbortAndCancelMap DEF Api
<1>4. CASE Agents
  BY <1>4, AgentsMap
<1>5. CASE UNCHANGED vars
  BY <1>5 DEF vars, processVars, callVars, historyVars, MapInv, MappedToWorker,
             WorkerReachable, OwnedIsMapped, ListenersDone, OwnersDone, WorkersNamed
<1> QED
  BY <1>3, <1>4, <1>5 DEF Next

\* Only processes are held, and only session ids are contested or late.
LEMMA MarksStep == MapInv /\ MarkTypes /\ [Next]_vars => MarkTypes'
<1> SUFFICES ASSUME MapInv, MarkTypes, [Next]_vars PROVE MarkTypes'
  OBVIOUS
<1> USE DEF MarkTypes, callVars, historyVars, processVars, turnVars
<1>1. ASSUME NEW c \in Calls, NewSessionRegisters(c) PROVE MarkTypes'
  <2>1. sessionId[c] \in Sessions
    BY <1>1 DEF NewSessionRegisters, MapInv, WorkersNamed
  <2> QED
    BY <1>1, <2>1 DEF NewSessionRegisters, Takes
<1>2. ASSUME NEW c \in Calls, Continue(c) PROVE MarkTypes'
  <2>1. CASE ResumeToggled(c) \/ ResumeAborted(c) \/ QueueMessageToggled(c)
             \/ QueueMessageAborted(c) \/ Preempted(c) \/ ProviderFails(c)
    BY <2>1 DEF ResumeToggled, ResumeAborted, QueueMessageToggled, QueueMessageAborted,
                Preempted, ProviderFails
  <2>2. ASSUME NEW s \in Sessions, ProviderStarts(c, s) PROVE MarkTypes'
    BY <2>2 DEF ProviderStarts, Takes
  <2> QED
    BY <1>1, <1>2, <2>1, <2>2 DEF Continue
<1>3. CASE Api
  BY <1>2, <1>3 DEF Api, StartSession, ResumeSession, QueueMessageToSession, Invoke,
                    AbortProcess, AbortProcessReturns, CancelQueuedRequest
<1>4. ASSUME NEW w \in Calls, NEW s \in Sessions, SessionIdReported(w, s) PROVE MarkTypes'
  BY <1>4 DEF SessionIdReported, IdChanged, Takes
<1>5. CASE Agents
  BY <1>4, <1>5 DEF Agents, TurnProceeds, Hold, Unhold, StreamEnds, Crashes,
                    TerminateStaleProcess, IdleTimerFires
<1>6. CASE UNCHANGED vars
  BY <1>6 DEF vars
<1> QED
  BY <1>3, <1>5, <1>6 DEF Next

\* Every field of the pool stays in its set, and a handler that waits for a
\* process knows which one (Supervisor.ts).
THEOREM PoolTypeCorrect == Spec => []TypeOK
<1>1. Init => MarkTypes
  BY DEF Init, MarkTypes
<1>2. Inv /\ MarkTypes => TypeOK
  BY InvParts
<1> QED
  BY Invariance, MapInvInit, MapInvStep, <1>1, MarksStep, <1>2, PTL DEF Spec

\* The session map and the announced owners follow the pool, for every number of
\* calls and sessions, whichever of several processes of a session ends or is
\* aborted, and however often any of them changes its id (Supervisor.ts,
\* registerProcess, unregisterProcess and the listeners).
THEOREM SessionsAlwaysFollow == Spec => []SessionsFollowPool
<1>1. MapInv => SessionsFollowPool
  BY DEF MapInv, SessionsFollowPool
<1> QED
  BY Invariance, MapInvInit, MapInvStep, <1>1, PTL DEF Spec

=============================================================================
