-------------------------- MODULE SessionViewProofs --------------------------
(***************************************************************************)
(* What holds of every session file the program may write, of any length,  *)
(* with any kinds of lines and any delays between them: a load brings the  *)
(* results of all tool calls on the active branch, and what a client shows *)
(* that loads and then fetches is in order and complete.                   *)
(***************************************************************************)
EXTENDS SessionView, FiniteSetTheorems, WellFoundedInduction, TLAPS

-----------------------------------------------------------------------------
(* Induction and recursion.  The prover instantiates no theorem about a    *)
(* predicate, so both are about sets and functions.                        *)

\* Every set of natural numbers that is not empty has a least element.
LEMMA Least ==
  ASSUME NEW T, T \subseteq Nat, T # {}
  PROVE  \E n \in T : \A m \in T : n <= m
<1>1. PICK n \in T : \A m \in T : <<m, n>> \notin OpToRel(<, Nat)
  BY NatLessThanWellFounded, WFMin
<1>2. \A m \in T : m \in Nat /\ n \in Nat /\ ~(m < n)
  BY <1>1 DEF OpToRel
<1>3. \A m \in T : n <= m
  BY <1>2
<1> QED
  BY <1>3

\* So what holds of 0 and of the successor of each number it holds of holds of all:
\* induction, of a set instead of a predicate.
LEMMA Induction ==
  ASSUME NEW S, 0 \in S, \A n \in Nat : n \in S => n + 1 \in S
  PROVE  Nat \subseteq S
<1> SUFFICES ASSUME Nat \ S # {} PROVE FALSE
  OBVIOUS
<1>1. PICK n \in Nat \ S : \A m \in Nat \ S : n <= m
  BY Least
<1>2. n # 0
  OBVIOUS
<1>3. n - 1 \in Nat /\ n - 1 \in S
  BY <1>1, <1>2
<1> QED
  BY <1>3

\* A recursive definition maps what is known of a function to the function.  It is
\* grounded if the value at each place depends on values at places of lower rank only.
Grounded(D, V, rank, F) ==
    \A g, h \in [D -> V] : \A n \in D :
        (\A m \in D : rank[m] < rank[n] => g[m] = h[m]) => F[g][n] = F[h][n]

HasSolution(D, V, F) == \E f \in [D -> V] : f = F[f]

\* A recursive definition that is grounded has a solution: stage by stage it becomes right
\* for the places of the next rank.
LEMMA Solution ==
  ASSUME NEW D, NEW V, V # {}, NEW N \in Nat, NEW rank \in [D -> 0..N],
         NEW F \in [[D -> V] -> [D -> V]], Grounded(D, V, rank, F)
  PROVE  HasSolution(D, V, F)
<1> DEFINE S == {k \in Nat : \E g \in [D -> V] : \A n \in D : rank[n] < k => F[g][n] = g[n]}
<1>1. 0 \in S
  <2>0. PICK v \in V : TRUE
    OBVIOUS
  <2>1. [n \in D |-> v] \in [D -> V]
    OBVIOUS
  <2>2. \A n \in D : ~(rank[n] < 0)
    OBVIOUS
  <2> QED
    BY <2>1, <2>2
<1>2. ASSUME NEW k \in Nat, k \in S PROVE k + 1 \in S
  <2>1. PICK g \in [D -> V] : \A n \in D : rank[n] < k => F[g][n] = g[n]
    BY <1>2
  <2>2. F[g] \in [D -> V]
    OBVIOUS
  <2>3. ASSUME NEW n \in D, rank[n] < k + 1 PROVE F[F[g]][n] = F[g][n]
    <3>1. \A m \in D : rank[m] < rank[n] => rank[m] < k
      BY <2>3
    <3>2. \A m \in D : rank[m] < rank[n] => F[g][m] = g[m]
      BY <2>1, <3>1
    <3> QED
      BY <2>2, <3>2 DEF Grounded
  <2> QED
    BY <2>2, <2>3
<1> HIDE DEF S
<1>3. N + 1 \in S
  BY <1>1, <1>2, Induction
<1>4. PICK g \in [D -> V] : \A n \in D : rank[n] < N + 1 => F[g][n] = g[n]
  BY <1>3 DEF S
<1>5. \A n \in D : rank[n] < N + 1
  OBVIOUS
<1>6. F[g] \in [D -> V] /\ \A n \in D : F[g][n] = g[n]
  BY <1>4, <1>5
<1>7. g = F[g]
  BY <1>6
<1> QED
  BY <1>7 DEF HasSolution

\* A recursive definition that goes on from step to step has a solution.
Iterates(f, N, base, step) == f = [k \in 0..N |-> IF k = 0 THEN base ELSE step[f[k - 1]]]

\* There is one, with values where the base is and the steps stay.
LEMMA Iteration ==
  ASSUME NEW V, NEW base \in V, NEW N \in Nat, NEW step \in [V -> V]
  PROVE  \E f \in [0..N -> V] : Iterates(f, N, base, step)
<1> DEFINE D == 0..N
           F == [g \in [D -> V] |-> [k \in D |-> IF k = 0 THEN base ELSE step[g[k - 1]]]]
           rank == [k \in D |-> k]
<1>1. \A k \in D : k # 0 => k - 1 \in D /\ k - 1 < k
  OBVIOUS
<1>2. F \in [[D -> V] -> [D -> V]]
  <2> SUFFICES ASSUME NEW g \in [D -> V], NEW k \in D
               PROVE  (IF k = 0 THEN base ELSE step[g[k - 1]]) \in V
    OBVIOUS
  <2>1. k # 0 => g[k - 1] \in V
    BY <1>1
  <2> QED
    BY <2>1
<1>3. Grounded(D, V, rank, F)
  <2> SUFFICES ASSUME NEW g \in [D -> V], NEW h \in [D -> V], NEW k \in D,
                      \A m \in D : rank[m] < rank[k] => g[m] = h[m]
               PROVE  F[g][k] = F[h][k]
    BY DEF Grounded
  <2>1. k # 0 => g[k - 1] = h[k - 1]
    BY <1>1
  <2> QED
    BY <2>1
<1>4. rank \in [D -> 0..N] /\ V # {}
  OBVIOUS
<1> HIDE DEF F, rank, D
<1>5. HasSolution(D, V, F)
  <2>1. rank \in [D -> 0..N]
    BY <1>4
  <2> QED
    BY <1>2, <1>3, <1>4, <2>1, Solution
<1>6. PICK f \in [D -> V] : f = F[f]
  BY <1>5 DEF HasSolution
<1> QED
  BY <1>6 DEF F, D, Iterates

-----------------------------------------------------------------------------
(* Lists                                                                   *)

\* Ascending lists a finite set of numbers, the lower ones first.
LEMMA AscendingLists ==
  ASSUME NEW S \in SUBSET Nat, IsFiniteSet(S)
  PROVE  /\ Ascending(S) \in Seq(S)
         /\ \A n \in S : \E i \in DOMAIN Ascending(S) : Ascending(S)[i] = n
         /\ \A i, j \in DOMAIN Ascending(S) : i < j => Ascending(S)[i] < Ascending(S)[j]
<1> DEFINE lower(n) == {m \in S : m < n}
           c == Cardinality(S)
           ranks == 0..(c - 1)
           r == [n \in S |-> Cardinality(lower(n))]
           a == Ascending(S)
<1>1. c \in Nat
  BY FS_CardinalityType
<1>2. \A n \in S : IsFiniteSet(lower(n)) /\ Cardinality(lower(n)) \in Nat
  <2> SUFFICES ASSUME NEW n \in S PROVE IsFiniteSet(lower(n)) /\ Cardinality(lower(n)) \in Nat
    OBVIOUS
  <2>1. lower(n) \in SUBSET S
    OBVIOUS
  <2>2. IsFiniteSet(lower(n))
    BY <2>1, FS_Subset
  <2> QED
    BY <2>2, FS_CardinalityType
<1>3. ASSUME NEW n \in S PROVE Cardinality(lower(n)) < c
  <2>1. lower(n) \in SUBSET S /\ n \notin lower(n)
    OBVIOUS
  <2>2. Cardinality(lower(n)) <= c /\ Cardinality(lower(n)) # c
    BY <2>1, FS_Subset
  <2> QED
    BY <1>1, <1>2, <2>2
<1>4. ASSUME NEW m \in S, NEW n \in S, m < n
      PROVE  Cardinality(lower(m)) < Cardinality(lower(n))
  <2>1. m \in Nat /\ ~(m < m) /\ \A k \in S : k < m => k < n
    BY <1>4
  <2>2. lower(m) \in SUBSET lower(n) /\ m \in lower(n) /\ m \notin lower(m)
    BY <1>4, <2>1, Zenon
  <2>3. IsFiniteSet(lower(n))
    BY <1>2
  <2>4. Cardinality(lower(m)) <= Cardinality(lower(n))
        /\ Cardinality(lower(m)) # Cardinality(lower(n))
    BY <2>2, <2>3, FS_Subset
  <2> QED
    BY <1>2, <2>4
<1>5. r \in [S -> ranks]
  BY <1>1, <1>2, <1>3
<1>6. \A n \in S : r[n] = Cardinality(lower(n))
  OBVIOUS
<1>7. \A m, n \in S : m < n => r[m] < r[n]
  BY <1>4, <1>6
<1>8. \A m, n \in S : r[m] = r[n] => m = n
  <2> HIDE DEF r
  <2> SUFFICES ASSUME NEW m \in S, NEW n \in S, r[m] = r[n], m # n PROVE FALSE
    OBVIOUS
  <2>1. m < n \/ n < m
    OBVIOUS
  <2>2. r[m] \in Int /\ r[n] \in Int
    BY <1>1, <1>5
  <2> QED
    BY <1>7, <2>1, <2>2
<1>9. IsFiniteSet(ranks) /\ Cardinality(ranks) = c
  <2>1. 0 \in Int /\ c - 1 \in Int
    BY <1>1
  <2> HIDE DEF c
  <2>2. IsFiniteSet(ranks) /\ Cardinality(ranks) = IF 0 > c - 1 THEN 0 ELSE (c - 1) - 0 + 1
    BY <2>1, FS_Interval
  <2> QED
    BY <1>1, <2>2
<1>10. r \in Surjection(S, ranks)
  <2>1. r \in Injection(S, ranks)
    BY <1>5, <1>8 DEF Injection, IsInjective
  <2> QED
    BY <1>9, <2>1, FS_Injection
<1>11. \A k \in ranks : \E n \in S : r[n] = k
  BY <1>10 DEF Surjection
<1> HIDE DEF r
<1>12. a = [i \in 1..c |-> CHOOSE n \in S : Cardinality(lower(n)) = i - 1]
  BY DEF Ascending
<1>13. ASSUME NEW i \in 1..c PROVE a[i] \in S /\ r[a[i]] = i - 1
  <2>1. i - 1 \in ranks
    BY <1>1
  <2>2. \E n \in S : Cardinality(lower(n)) = i - 1
    BY <2>1, <1>6, <1>11
  <2>3. a[i] = CHOOSE n \in S : Cardinality(lower(n)) = i - 1
    BY <1>12
  <2> HIDE DEF lower, a
  <2>4. a[i] \in S /\ Cardinality(lower(a[i])) = i - 1
    BY <2>2, <2>3
  <2> QED
    BY <2>4, <1>6
<1>14. a \in [1..c -> S]
  <2> HIDE DEF lower
  <2> QED
    BY <1>12, <1>13
<1> HIDE DEF a
<1>15. a \in Seq(S) /\ DOMAIN a = 1..c
  BY <1>1, <1>14
<1>16. ASSUME NEW n \in S PROVE \E i \in DOMAIN a : a[i] = n
  <2>1. r[n] + 1 \in 1..c /\ (r[n] + 1) - 1 = r[n]
    BY <1>1, <1>5
  <2>2. a[r[n] + 1] \in S /\ r[a[r[n] + 1]] = r[n]
    BY <1>13, <2>1
  <2>3. a[r[n] + 1] = n
    BY <1>8, <2>2
  <2> QED
    BY <1>15, <2>1, <2>3
<1>17. ASSUME NEW i \in DOMAIN a, NEW j \in DOMAIN a, i < j PROVE a[i] < a[j]
  <2>1. i \in 1..c /\ j \in 1..c
    BY <1>15
  <2>2. /\ a[i] \in S /\ r[a[i]] = i - 1
        /\ a[j] \in S /\ r[a[j]] = j - 1
    BY <1>13, <2>1
  <2>3. a[i] # a[j]
    BY <1>1, <1>17, <2>1, <2>2
  <2>4. ~(a[j] < a[i])
    <3> SUFFICES ASSUME a[j] < a[i] PROVE FALSE
      OBVIOUS
    <3>1. j - 1 < i - 1
      BY <1>7, <2>2
    <3> QED
      BY <1>1, <1>17, <2>1, <3>1
  <2>5. a[i] \in Nat /\ a[j] \in Nat
    BY <2>2
  <2> QED
    BY <2>3, <2>4, <2>5
<1> QED
  BY <1>15, <1>16, <1>17 DEF a

\* t lists what items has at some places, that of lower places first.
Lists(t, items, places) ==
    /\ \A i \in places : \E j \in DOMAIN t : t[j] = items[i]
    /\ \A j \in DOMAIN t : \E i \in places :
          /\ t[j] = items[i]
          /\ \A h \in places : h < i => \E k \in 1..(j - 1) : t[k] = items[h]

LEMMA AtPlacesLists ==
  ASSUME NEW V, NEW items \in Seq(V), NEW places \in SUBSET (DOMAIN items), NEW t,
         t = AtPlaces(items, places)
  PROVE  t \in Seq(V) /\ Lists(t, items, places)
<1> DEFINE order == Ascending(places)
<1>1. places \in SUBSET Nat /\ IsFiniteSet(places)
  <2>1. places \in SUBSET (1..Len(items)) /\ Len(items) \in Nat
    OBVIOUS
  <2>2. IsFiniteSet(1..Len(items))
    BY <2>1, FS_Interval
  <2> QED
    BY <2>1, <2>2, FS_Subset
<1>2. /\ order \in Seq(places)
      /\ \A n \in places : \E i \in DOMAIN order : order[i] = n
      /\ \A i, j \in DOMAIN order : i < j => order[i] < order[j]
  BY <1>1, AscendingLists
<1>3. t = [i \in DOMAIN order |-> items[order[i]]]
  BY DEF AtPlaces
<1> HIDE DEF order
<1>4. DOMAIN order = 1..Len(order) /\ Len(order) \in Nat
      /\ \A i \in DOMAIN order : order[i] \in places
  BY <1>2
<1>5. \A i \in places : items[i] \in V
  OBVIOUS
<1>6. t \in Seq(V) /\ DOMAIN t = DOMAIN order
  BY <1>3, <1>4, <1>5
<1>7. ASSUME NEW i \in places PROVE \E j \in DOMAIN t : t[j] = items[i]
  BY <1>2, <1>3, <1>6
<1>8. ASSUME NEW j \in DOMAIN t
      PROVE  \E i \in places :
               /\ t[j] = items[i]
               /\ \A h \in places : h < i => \E k \in 1..(j - 1) : t[k] = items[h]
  <2>1. order[j] \in places /\ t[j] = items[order[j]]
    BY <1>3, <1>4, <1>6
  <2>2. ASSUME NEW h \in places, h < order[j] PROVE \E k \in 1..(j - 1) : t[k] = items[h]
    <3>1. PICK k \in DOMAIN order : order[k] = h
      BY <1>2
    <3>2. ~(j < k) /\ k # j
      BY <1>1, <1>2, <1>6, <2>1, <2>2, <3>1
    <3>3. k \in 1..(j - 1)
      BY <1>4, <1>6, <3>2
    <3> QED
      BY <1>3, <3>1, <3>3
  <2> QED
    BY <2>1, <2>2
<1> QED
  BY <1>6, <1>7, <1>8 DEF Lists

\* s joins the first k of some lists: it has what they have, in their order.
Joins(s, seqs, k) ==
    /\ \A p \in 1..k : \A q \in DOMAIN seqs[p] : \E j \in DOMAIN s : s[j] = seqs[p][q]
    /\ \A j \in DOMAIN s : \E p \in 1..k : \E q \in DOMAIN seqs[p] :
          /\ s[j] = seqs[p][q]
          /\ \A r \in 1..(q - 1) : \E i \in 1..(j - 1) : s[i] = seqs[p][r]
          /\ \A o \in 1..(p - 1) : \A r \in DOMAIN seqs[o] :
                \E i \in 1..(j - 1) : s[i] = seqs[o][r]

\* Appending the next list joins it to those before.
LEMMA JoinsNext ==
  ASSUME NEW V, NEW seqs \in Seq(Seq(V)), NEW k \in Nat, k + 1 \in DOMAIN seqs,
         NEW s \in Seq(V), Joins(s, seqs, k), NEW t, t = s \o seqs[k + 1]
  PROVE  t \in Seq(V) /\ Joins(t, seqs, k + 1)
<1> DEFINE last == seqs[k + 1]
           n == Len(s)
<1>1. last \in Seq(V) /\ n \in Nat /\ Len(last) \in Nat
  OBVIOUS
<1>2. t = s \o last
  OBVIOUS
<1>3. /\ DOMAIN s = 1..n /\ DOMAIN last = 1..Len(last)
      /\ t \in Seq(V) /\ DOMAIN t = 1..(n + Len(last))
      /\ \A j \in 1..n : t[j] = s[j]
      /\ \A q \in 1..Len(last) : t[n + q] = last[q]
  <2> HIDE DEF last
  <2> QED
    BY <1>1, <1>2
<1> HIDE DEF n
<1>4. ASSUME NEW p \in 1..(k + 1), NEW q \in DOMAIN seqs[p]
      PROVE  \E j \in DOMAIN t : t[j] = seqs[p][q]
  <2>1. CASE p = k + 1
    <3>1. n + q \in DOMAIN t /\ t[n + q] = seqs[p][q]
      BY <1>1, <1>3, <2>1
    <3> QED
      BY <3>1
  <2>2. CASE p \in 1..k
    <3>1. PICK j \in DOMAIN s : s[j] = seqs[p][q]
      BY <2>2 DEF Joins
    <3>2. j \in DOMAIN t /\ t[j] = s[j]
      BY <1>1, <1>3
    <3> QED
      BY <3>1, <3>2
  <2> QED
    BY <2>1, <2>2
<1>5. ASSUME NEW j \in DOMAIN t
      PROVE  \E p \in 1..(k + 1) : \E q \in DOMAIN seqs[p] :
                /\ t[j] = seqs[p][q]
                /\ \A r \in 1..(q - 1) : \E i \in 1..(j - 1) : t[i] = seqs[p][r]
                /\ \A o \in 1..(p - 1) : \A r \in DOMAIN seqs[o] :
                      \E i \in 1..(j - 1) : t[i] = seqs[o][r]
  <2>1. CASE j \in 1..n
    <3>0. PICK p \in 1..k : \E q \in DOMAIN seqs[p] :
                /\ s[j] = seqs[p][q]
                /\ \A r \in 1..(q - 1) : \E i \in 1..(j - 1) : s[i] = seqs[p][r]
                /\ \A o \in 1..(p - 1) : \A r \in DOMAIN seqs[o] :
                      \E i \in 1..(j - 1) : s[i] = seqs[o][r]
      BY <1>3, <2>1 DEF Joins
    <3>1. PICK q \in DOMAIN seqs[p] :
                /\ s[j] = seqs[p][q]
                /\ \A r \in 1..(q - 1) : \E i \in 1..(j - 1) : s[i] = seqs[p][r]
                /\ \A o \in 1..(p - 1) : \A r \in DOMAIN seqs[o] :
                      \E i \in 1..(j - 1) : s[i] = seqs[o][r]
      BY <3>0
    <3>2. \A i \in 1..(j - 1) : t[i] = s[i]
      BY <1>1, <1>3, <2>1
    <3>3. p \in 1..(k + 1)
      OBVIOUS
    <3>4. t[j] = seqs[p][q]
      BY <1>3, <2>1, <3>1
    <3>5. \A r \in 1..(q - 1) : \E i \in 1..(j - 1) : t[i] = seqs[p][r]
      BY <3>1, <3>2, Zenon
    <3>6. ASSUME NEW o \in 1..(p - 1), NEW r \in DOMAIN seqs[o]
          PROVE  \E i \in 1..(j - 1) : t[i] = seqs[o][r]
      <4>1. PICK i \in 1..(j - 1) : s[i] = seqs[o][r]
        BY <3>1
      <4> QED
        BY <3>2, <4>1
    <3> QED
      BY <3>3, <3>4, <3>5, <3>6, Zenon
  <2>2. CASE j \notin 1..n
    <3> DEFINE q == j - n
    <3>0. j \in 1..(n + Len(last)) /\ j \in Int /\ n < j
      BY <1>1, <1>3, <2>2
    <3>1. q \in 1..Len(last) /\ j = n + q
      BY <1>1, <3>0
    <3>6. \A i \in 1..n : i \in 1..(j - 1)
      BY <1>1, <3>0
    <3> HIDE DEF q
    <3>7. ASSUME NEW r \in 1..(q - 1) PROVE n + r \in 1..(j - 1) /\ r \in 1..Len(last)
      BY <1>1, <3>1
    <3>2. t[j] = last[q]
      BY <1>3, <3>1
    <3>3. \A r \in 1..(q - 1) : \E i \in 1..(j - 1) : t[i] = last[r]
      BY <1>3, <3>7
    <3>4. ASSUME NEW o \in 1..k, NEW r \in DOMAIN seqs[o]
          PROVE  \E i \in 1..(j - 1) : t[i] = seqs[o][r]
      <4>1. PICK i \in DOMAIN s : s[i] = seqs[o][r]
        BY DEF Joins
      <4>2. i \in 1..(j - 1) /\ t[i] = s[i]
        BY <1>3, <3>6
      <4> QED
        BY <4>1, <4>2
    <3>5. k + 1 \in 1..(k + 1) /\ 1..((k + 1) - 1) = 1..k /\ q \in DOMAIN seqs[k + 1]
      BY <1>3, <3>1
    <3> QED
      BY <3>2, <3>3, <3>4, <3>5
  <2> QED
    BY <2>1, <2>2
<1> QED
  BY <1>3, <1>4, <1>5 DEF Joins

\* FlattenSeq joins all of some lists.
LEMMA FlattenJoins ==
  ASSUME NEW V, NEW seqs \in Seq(Seq(V))
  PROVE  FlattenSeq(seqs) \in Seq(V) /\ Joins(FlattenSeq(seqs), seqs, Len(seqs))
<1> DEFINE n == Len(seqs)
           D == 1..n
           Eq(f) == f = [i \in 1..Len(seqs) |-> IF i = 1 THEN seqs[i] ELSE f[i - 1] \o seqs[i]]
           flatten == CHOOSE f : Eq(f)
<1>1. n \in Nat
  OBVIOUS
<1>2. CASE n = 0
  <2>1. FlattenSeq(seqs) = seqs /\ seqs = <<>>
    BY <1>2 DEF FlattenSeq
  <2> QED
    BY <2>1 DEF Joins
<1>3. CASE n # 0
  <2>1. \E f : Eq(f)
    <3> DEFINE F == [g \in [D -> Seq(V)] |->
                      [i \in D |-> IF i = 1 THEN seqs[i] ELSE g[i - 1] \o seqs[i]]]
               rank == [i \in D |-> i]
    <3>1. F \in [[D -> Seq(V)] -> [D -> Seq(V)]]
      <4> SUFFICES ASSUME NEW g \in [D -> Seq(V)], NEW i \in D
                   PROVE  (IF i = 1 THEN seqs[i] ELSE g[i - 1] \o seqs[i]) \in Seq(V)
        OBVIOUS
      <4>1. i # 1 => i - 1 \in D
        BY <1>1
      <4>2. seqs[i] \in Seq(V)
        OBVIOUS
      <4>3. i # 1 => g[i - 1] \in Seq(V)
        BY <4>1
      <4> QED
        BY <4>2, <4>3
    <3>2. rank \in [D -> 0..n] /\ <<>> \in Seq(V)
      BY <1>1
    <3>3. ASSUME NEW g \in [D -> Seq(V)], NEW h \in [D -> Seq(V)], NEW i \in D,
                 \A m \in D : rank[m] < rank[i] => g[m] = h[m]
          PROVE  F[g][i] = F[h][i]
      <4>1. i # 1 => i - 1 \in D /\ rank[i - 1] < rank[i]
        BY <1>1
      <4> QED
        BY <3>3, <4>1
    <3>4. \A g, h \in [D -> Seq(V)] : \A i \in D :
             (\A m \in D : rank[m] < rank[i] => g[m] = h[m]) => F[g][i] = F[h][i]
      BY <3>3, Zenon
    <3> DEFINE W == Seq(V)
    <3> HIDE DEF F, rank, D, n
    <3>5. /\ W # {} /\ rank \in [D -> 0..n] /\ F \in [[D -> W] -> [D -> W]]
          /\ Grounded(D, W, rank, F)
      BY <3>1, <3>2, <3>4 DEF Grounded
    <3> HIDE DEF W
    <3>7. HasSolution(D, W, F)
      BY <1>1, <3>5, Solution
    <3>8. PICK f \in [D -> W] : f = F[f]
      BY <3>7 DEF HasSolution
    <3>6. Eq(f)
      BY <3>8 DEF F, D, n, W
    <3> QED
      BY <3>6
  <2>2. Eq(flatten)
    <3> HIDE DEF Eq
    <3> QED
      BY <2>1
  <2>3. FlattenSeq(seqs) = flatten[n]
    BY <1>3 DEF FlattenSeq
  <2> HIDE DEF flatten
  <2> DEFINE S == {k \in Nat : k \in D => flatten[k] \in Seq(V) /\ Joins(flatten[k], seqs, k)}
  <2>4. 0 \in S
    OBVIOUS
  <2>5. ASSUME NEW k \in Nat, k \in S PROVE k + 1 \in S
    <3> SUFFICES ASSUME k + 1 \in D
                 PROVE  flatten[k + 1] \in Seq(V) /\ Joins(flatten[k + 1], seqs, k + 1)
      OBVIOUS
    <3>1. CASE k = 0
      <4>1. flatten[1] = seqs[1] /\ seqs[1] \in Seq(V)
        BY <2>2, <3>1
      <4>2. flatten[1] = <<>> \o seqs[1]
        BY <4>1
      <4>3. Joins(<<>>, seqs, 0) /\ <<>> \in Seq(V)
        BY DEF Joins
      <4>4. 0 + 1 \in DOMAIN seqs /\ flatten[0 + 1] = <<>> \o seqs[0 + 1]
        BY <3>1, <4>2
      <4>5. flatten[0 + 1] \in Seq(V) /\ Joins(flatten[0 + 1], seqs, 0 + 1)
        BY <4>3, <4>4, JoinsNext
      <4> QED
        BY <3>1, <4>5
    <3>2. CASE k # 0
      <4>1. k \in D
        BY <1>1, <3>2
      <4>2. flatten[k] \in Seq(V) /\ Joins(flatten[k], seqs, k)
        BY <2>5, <4>1
      <4>3. flatten[k + 1] = flatten[k] \o seqs[k + 1]
        <5>1. k + 1 # 1 /\ (k + 1) - 1 = k
          BY <3>2
        <5> QED
          BY <2>2, <5>1
      <4>4. k + 1 \in DOMAIN seqs
        OBVIOUS
      <4> QED
        BY <4>2, <4>3, <4>4, JoinsNext
    <3> QED
      BY <3>1, <3>2
  <2> HIDE DEF S
  <2>6. n \in S
    BY <1>1, <2>4, <2>5, Induction
  <2> QED
    BY <1>1, <1>3, <2>3, <2>6 DEF S
<1> QED
  BY <1>2, <1>3

\* What a concatenation has, and where.
LEMMA Joined ==
  ASSUME NEW V, NEW s \in Seq(V), NEW t \in Seq(V), NEW u, u = s \o t
  PROVE  /\ u \in Seq(V) /\ Len(u) = Len(s) + Len(t) /\ DOMAIN u = 1..(Len(s) + Len(t))
         /\ \A i \in 1..Len(s) : u[i] = s[i]
         /\ \A i \in 1..Len(t) : u[Len(s) + i] = t[i]
<1>1. Len(s) \in Nat /\ Len(t) \in Nat
  OBVIOUS
<1>2. u \in Seq(V) /\ Len(u) = Len(s) + Len(t)
  OBVIOUS
<1>3. \A i \in 1..Len(s) : u[i] = s[i]
  BY <1>1
<1>4. \A i \in 1..Len(t) : u[Len(s) + i] = t[i]
  BY <1>1
<1> QED
  BY <1>2, <1>3, <1>4

-----------------------------------------------------------------------------
(* Lines of a file                                                         *)

\* A line continues an earlier one, or none, and a result continues its call.
LineOK == [parent : Nat, logical : Nat \cup {Elsewhere},
           kind : {"text", "use", "result", "boundary"}, tool : Nat, time : Nat]

FileOK ==
    /\ file \in Seq(LineOK) /\ Len(file) \in 1..MaxLines
    /\ \A n \in Lines :
          /\ file[n].parent < n
          /\ file[n].logical = Elsewhere \/ file[n].logical < n
          /\ file[n].kind = "result" => file[n].parent # None /\ file[n].tool = file[n].parent

\* What FileOK says of one line.
LEMMA LineFacts ==
  ASSUME FileOK
  PROVE  /\ Lines = 1..Len(file) /\ Len(file) \in Nat
         /\ \A n \in Lines : /\ n \in Nat /\ n # 0 /\ n <= Len(file) /\ n # Elsewhere
                             /\ file[n].parent \in Nat /\ file[n].parent < n
                             /\ file[n].time \in Nat
                             /\ \/ file[n].logical = Elsewhere
                                \/ file[n].logical \in Nat /\ file[n].logical < n
<1>1. Lines = 1..Len(file) /\ Len(file) \in Nat /\ Len(file) <= MaxLines /\ MaxLines \in Nat
  BY ViewAssumption DEF FileOK, Lines
<1>2. \A n \in Lines : file[n] \in LineOK
  BY <1>1 DEF FileOK, Lines
<1>3. ASSUME NEW n \in Lines
      PROVE  /\ n \in Nat /\ n # 0 /\ n <= Len(file) /\ n # Elsewhere
             /\ file[n].parent \in Nat /\ file[n].time \in Nat
             /\ file[n].logical \in Nat \cup {Elsewhere}
  <2>1. n \in 1..Len(file) /\ n \in 0..MaxLines
    BY <1>1
  <2> QED
    BY <1>2, <2>1, ViewAssumption DEF LineOK
<1>4. \A n \in Lines : /\ file[n].parent < n
                       /\ file[n].logical = Elsewhere \/ file[n].logical < n
  BY DEF FileOK
<1>5. \A n \in Lines : \/ file[n].logical = Elsewhere
                       \/ file[n].logical \in Nat /\ file[n].logical < n
  BY <1>3, <1>4
<1> QED
  BY <1>1, <1>3, <1>4, <1>5

\* A set of lines that is not empty has a last one.
LEMMA LastLine ==
  ASSUME FileOK, NEW T, T \subseteq Lines, T # {}
  PROVE  \E n \in T : \A m \in T : m <= n
<1> DEFINE L == Len(file)
           back == {L - n : n \in T}
<1>1. L \in Nat /\ \A n \in T : n \in Nat /\ n <= L
  BY LineFacts
<1> HIDE DEF L
<1>2. back \subseteq Nat /\ back # {}
  BY <1>1
<1>3. PICK b \in back : \A c \in back : b <= c
  BY <1>2, Least
<1>4. PICK n \in T : b = L - n
  OBVIOUS
<1>5. ASSUME NEW m \in T PROVE m <= n
  <2>1. L - m \in back
    OBVIOUS
  <2>2. L - n <= L - m
    BY <1>3, <1>4, <2>1
  <2> QED
    BY <1>1, <2>2
<1> QED
  BY <1>5

\* Where a walk goes on is an earlier line or none, and the parent if that was read.
LEMMA NextEarlier ==
  ASSUME FileOK, NEW ms \in SUBSET Lines, NEW n \in ms, NEW visited
  PROVE  /\ NextCollected(file, ms, n, visited) \in ms => NextCollected(file, ms, n, visited) < n
         /\ file[n].parent \in ms => NextCollected(file, ms, n, visited) = file[n].parent
<1> DEFINE before == {m \in ms \ visited : m < n}
           fallback == FallbackParent(ms, n, visited)
<1>1. n \in Lines
  OBVIOUS
<1>2. fallback \in ms => fallback < n
  <2>1. CASE before = {}
    BY <2>1, <1>1, LineFacts DEF FallbackParent, None
  <2>2. CASE before # {}
    <3>1. before \subseteq Lines
      OBVIOUS
    <3>2. \E m \in before : \A k \in before : k <= m
      BY <2>2, <3>1, LastLine
    <3>3. fallback = CHOOSE m \in before : \A k \in before : k <= m
      BY <2>2 DEF FallbackParent
    <3> HIDE DEF fallback, before
    <3>4. fallback \in before
      BY <3>2, <3>3
    <3> QED
      BY <3>4 DEF before
  <2> QED
    BY <2>1, <2>2
<1> HIDE DEF fallback
<1> DEFINE next == NextUuid(file[n])
<1>3. next \in ms => next < n
  <2>1. next = file[n].parent \/ next = file[n].logical
    BY DEF NextUuid
  <2>2. Elsewhere \notin ms
    BY LineFacts
  <2> QED
    BY <2>1, <2>2, <1>1, LineFacts
<1>4. file[n].parent \in ms => next = file[n].parent
  <2>1. 0 \notin ms
    BY LineFacts
  <2> QED
    BY <2>1 DEF NextUuid, None
<1> HIDE DEF next
<1>5. NextCollected(file, ms, n, visited) \in {next, fallback}
      /\ (next \in ms => NextCollected(file, ms, n, visited) = next)
  BY DEF NextCollected, next, fallback
<1> QED
  BY <1>2, <1>3, <1>4, <1>5

-----------------------------------------------------------------------------
(* The walks of buildDag, and the tip it chooses                           *)

\* What a walk that started at a line has gone through: lines in ascending order,
\* each preceded by its parent if that was read.
Paths(ms, tip) ==
    {p \in Seq(ms) : /\ p # <<>> /\ p[Len(p)] = tip
                     /\ \A i \in 1..Len(p) : p[1] <= p[i]
                     /\ \A i \in 2..Len(p) :
                           file[p[i]].parent \in ms => p[i - 1] = file[p[i]].parent}

\* A path begins with a line.
LEMMA HeadOfPath ==
  ASSUME FileOK, NEW ms \in SUBSET Lines, NEW tip \in ms, NEW p \in Paths(ms, tip)
  PROVE  p[1] \in ms /\ p[1] \in Nat /\ p[1] # 0
<1>1. p \in Seq(ms) /\ p # <<>>
  BY DEF Paths
<1>2. p[1] \in ms
  BY <1>1
<1> QED
  BY <1>2, LineFacts

\* A step either ends the walk or goes on with an earlier line.
LEMMA CollectStepKeeps ==
  ASSUME FileOK, NEW ms \in SUBSET Lines, NEW tip \in ms, NEW p \in Paths(ms, tip), NEW q,
         q = CollectStep(file, ms, p)
  PROVE  \/ q = p /\ file[p[1]].parent \notin ms
         \/ q \in Paths(ms, tip) /\ q[1] < p[1]
<1> DEFINE n == p[1]
           next == NextCollected(file, ms, n, ToSet(p))
<1>1. /\ p \in Seq(ms) /\ p # <<>> /\ p[Len(p)] = tip
      /\ \A i \in 1..Len(p) : n <= p[i]
      /\ \A i \in 2..Len(p) : file[p[i]].parent \in ms => p[i - 1] = file[p[i]].parent
  BY DEF Paths
<1>2. Len(p) \in Nat /\ Len(p) >= 1 /\ DOMAIN p = 1..Len(p) /\ Head(p) = n /\ n \in ms
      /\ \A i \in 1..Len(p) : p[i] \in ms
  BY <1>1
<1>3. q = IF next \in ms \ ToSet(p) THEN <<next>> \o p ELSE p
  BY <1>2 DEF CollectStep, Further
<1>4. /\ next \in ms => next < n
      /\ file[n].parent \in ms => next = file[n].parent
  BY <1>2, NextEarlier
<1>5. \A m \in ms : m \in Nat /\ m \in Lines
  BY LineFacts
<1> HIDE DEF next
<1>6. next \in ms => next \notin ToSet(p)
  <2> SUFFICES ASSUME next \in ms, NEW i \in DOMAIN p, p[i] = next PROVE FALSE
    BY DEF ToSet
  <2> QED
    BY <1>1, <1>2, <1>4, <1>5
<1>7. CASE next \notin ms
  BY <1>3, <1>4, <1>7
<1>8. CASE next \in ms
  <2>1. q = <<next>> \o p
    BY <1>3, <1>6, <1>8
  <2>2. <<next>> \in Seq(ms) /\ Len(<<next>>) = 1 /\ <<next>>[1] = next
    BY <1>8
  <2>3. /\ q \in Seq(ms) /\ Len(q) = Len(p) + 1 /\ q[1] = next
        /\ \A i \in 1..Len(p) : q[i + 1] = p[i]
    BY <1>1, <1>2, <2>1, <2>2
  <2>4. \A i \in 2..Len(q) : i - 1 \in 1..Len(p) /\ (i - 1) + 1 = i
    BY <1>2, <2>3
  <2>5. \A i \in 2..Len(q) : q[i] = p[i - 1]
    BY <2>3, <2>4
  <2>6. q # <<>> /\ q[Len(q)] = tip
    <3>1. Len(q) \in 2..Len(q) /\ Len(q) - 1 = Len(p)
      BY <1>2, <2>3
    <3> QED
      BY <1>1, <2>3, <2>5, <3>1
  <2>7. ASSUME NEW i \in 1..Len(q) PROVE q[1] <= q[i]
    <3>1. CASE i = 1
      BY <1>5, <1>8, <2>3, <3>1
    <3>2. CASE i # 1
      <4>1. i \in 2..Len(q)
        BY <3>2
      <4>2. q[i] = p[i - 1] /\ i - 1 \in 1..Len(p)
        BY <2>4, <2>5, <4>1
      <4>3. n <= q[i] /\ q[i] \in Nat /\ n \in Nat /\ next \in Nat
        BY <1>1, <1>2, <1>5, <1>8, <4>2
      <4> QED
        BY <1>4, <1>8, <2>3, <4>3
    <3> QED
      BY <3>1, <3>2
  <2>8. ASSUME NEW i \in 2..Len(q), file[q[i]].parent \in ms
        PROVE  q[i - 1] = file[q[i]].parent
    <3>1. CASE i = 2
      <4>1. q[2] = n /\ q[2 - 1] = next
        BY <2>3, <2>5, <3>1
      <4> QED
        BY <1>4, <2>8, <3>1, <4>1
    <3>2. CASE i # 2
      <4>1. i - 1 \in 2..Len(p) /\ i - 1 \in 2..Len(q) /\ i \in 2..Len(q)
        BY <1>2, <2>3, <3>2
      <4>2. q[i] = p[i - 1] /\ q[i - 1] = p[(i - 1) - 1]
        BY <2>5, <4>1
      <4> QED
        BY <1>1, <2>8, <4>1, <4>2
    <3> QED
      BY <3>1, <3>2
  <2>9. q \in Paths(ms, tip)
    BY <2>3, <2>6, <2>7, <2>8 DEF Paths
  <2> QED
    BY <1>4, <1>8, <2>3, <2>9
<1> QED
  BY <1>7, <1>8

\* The walk that collects a branch has all lines up to one whose parent was not read.
LEMMA CollectedIsPath ==
  ASSUME FileOK, NEW ms \in SUBSET Lines, NEW tip \in ms, NEW b,
         b = Collected(file, ms, tip)
  PROVE  b \in Paths(ms, tip) /\ file[b[1]].parent \notin ms
<1> DEFINE N == Len(file)
           V == Paths(ms, tip)
           step == [p \in V |-> CollectStep(file, ms, p)]
           Eq(f) == f = [k \in 0..Len(file) |->
                           IF k = 0 THEN <<tip>> ELSE CollectStep(file, ms, f[k - 1])]
           walk == CHOOSE f : Eq(f)
<1>1. N \in Nat
  BY LineFacts
<1>2. <<tip>> \in V
  <2>1. <<tip>> \in Seq(ms) /\ Len(<<tip>>) = 1 /\ <<tip>>[1] = tip /\ <<tip>> # <<>>
    OBVIOUS
  <2>2. tip \in Nat
    BY LineFacts
  <2> QED
    BY <2>1, <2>2 DEF Paths
<1>3. \A p \in V : CollectStep(file, ms, p) \in V
  BY CollectStepKeeps
<1>4. \E f : Eq(f)
  <2> HIDE DEF V
  <2>1. step \in [V -> V]
    BY <1>3
  <2>2. \A p \in V : step[p] = CollectStep(file, ms, p)
    OBVIOUS
  <2> HIDE DEF step, N
  <2>8. PICK f \in [0..N -> V] : Iterates(f, N, <<tip>>, step)
    BY <1>1, <1>2, <2>1, Iteration
  <2>3. f = [k \in 0..N |-> IF k = 0 THEN <<tip>> ELSE step[f[k - 1]]]
    BY <2>8 DEF Iterates
  <2>4. \A k \in 0..N : k # 0 => f[k - 1] \in V
    BY <1>1
  <2>5. \A k \in 0..N : f[k] = IF k = 0 THEN <<tip>> ELSE CollectStep(file, ms, f[k - 1])
    BY <2>2, <2>3, <2>4
  <2>6. f = [k \in 0..N |-> IF k = 0 THEN <<tip>> ELSE CollectStep(file, ms, f[k - 1])]
    BY <2>5
  <2>7. Eq(f)
    BY <2>6 DEF N
  <2> QED
    BY <2>7
<1>5. Eq(walk)
  <2> HIDE DEF Eq
  <2> QED
    BY <1>4
<1>6. b = walk[N]
  BY DEF Collected
<1> HIDE DEF walk
<1> DEFINE S == {k \in Nat : k <= N => /\ walk[k] \in V
                                      /\ \/ walk[k][1] + k <= N
                                         \/ CollectStep(file, ms, walk[k]) = walk[k]}
<1>7. 0 \in S
  <2>1. walk[0] = <<tip>>
    BY <1>1, <1>5
  <2>2. tip \in Nat /\ tip <= N
    BY LineFacts
  <2> HIDE DEF V, N
  <2> QED
    BY <1>1, <1>2, <2>1, <2>2
<1>8. ASSUME NEW k \in Nat, k \in S PROVE k + 1 \in S
  <2> SUFFICES ASSUME k + 1 <= N
               PROVE  /\ walk[k + 1] \in V
                      /\ \/ walk[k + 1][1] + (k + 1) <= N
                         \/ CollectStep(file, ms, walk[k + 1]) = walk[k + 1]
    OBVIOUS
  <2>1. k \in 0..N /\ k + 1 \in 0..N /\ k + 1 # 0 /\ (k + 1) - 1 = k /\ k <= N
    BY <1>1
  <2>2. walk[k + 1] = CollectStep(file, ms, walk[k])
    BY <1>5, <2>1
  <2>3. /\ walk[k] \in V
        /\ walk[k][1] + k <= N \/ CollectStep(file, ms, walk[k]) = walk[k]
    BY <1>8, <2>1
  <2>4. CASE walk[k + 1] = walk[k]
    BY <2>2, <2>3, <2>4
  <2>5. CASE walk[k + 1] # walk[k]
    <3>1. walk[k + 1] \in V /\ walk[k + 1][1] < walk[k][1] /\ walk[k][1] + k <= N
      BY <2>2, <2>3, <2>5, CollectStepKeeps
    <3>2. walk[k][1] \in Nat /\ walk[k + 1][1] \in Nat
      BY <2>3, <3>1, HeadOfPath
    <3> QED
      BY <1>1, <3>1, <3>2
  <2> QED
    BY <2>4, <2>5
<1> HIDE DEF S
<1>9. N \in S
  BY <1>1, <1>7, <1>8, Induction
<1>10. /\ walk[N] \in V
       /\ walk[N][1] + N <= N \/ CollectStep(file, ms, walk[N]) = walk[N]
  BY <1>1, <1>9 DEF S
<1>11. walk[N][1] \in Nat /\ walk[N][1] # 0
  BY <1>10, HeadOfPath
<1>12. CollectStep(file, ms, walk[N]) = walk[N]
  BY <1>1, <1>10, <1>11
<1>13. ~(walk[N][1] < walk[N][1])
  BY <1>11
<1> QED
  BY <1>6, <1>10, <1>12, <1>13, CollectStepKeeps

\* The walk that measures a branch stays among the lines that were read, so the
\* length of a branch is a number.
LEMMA LengthIsNat ==
  ASSUME FileOK, NEW ms \in SUBSET Lines, NEW tip \in ms
  PROVE  BranchLength(file, ms, tip) \in Nat
<1> DEFINE N == Len(file)
           V == {p \in Seq(ms) : p # <<>>}
           step == [p \in V |-> MeasureStep(file, ms, p)]
           Eq(f) == f = [k \in 0..Len(file) |->
                           IF k = 0 THEN <<tip>> ELSE MeasureStep(file, ms, f[k - 1])]
           walk == CHOOSE f : Eq(f)
<1>1. N \in Nat
  BY LineFacts
<1>2. <<tip>> \in V
  OBVIOUS
<1>3. ASSUME NEW p \in V PROVE MeasureStep(file, ms, p) \in V
  <2> DEFINE next == NextMeasured(file, ms, Head(p), ToSet(p))
  <2>1. MeasureStep(file, ms, p) = IF next \in ms \ ToSet(p) THEN <<next>> \o p ELSE p
    BY DEF MeasureStep, Further
  <2> HIDE DEF next
  <2>2. CASE next \in ms
    <3>1. <<next>> \in Seq(ms) /\ Len(<<next>>) = 1 /\ p \in Seq(ms) /\ Len(p) \in Nat
      BY <2>2
    <3>2. <<next>> \o p \in Seq(ms) /\ Len(<<next>> \o p) = 1 + Len(p)
      BY <3>1
    <3>3. <<next>> \o p # <<>>
      BY <3>1, <3>2
    <3> QED
      BY <2>1, <3>2, <3>3
  <2>3. CASE next \notin ms
    BY <2>1, <2>3
  <2> QED
    BY <2>2, <2>3
<1>4. \E f : Eq(f)
  <2> HIDE DEF V
  <2>1. step \in [V -> V]
    BY <1>3
  <2>2. \A p \in V : step[p] = MeasureStep(file, ms, p)
    OBVIOUS
  <2> HIDE DEF step, N
  <2>3. PICK f \in [0..N -> V] : Iterates(f, N, <<tip>>, step)
    BY <1>1, <1>2, <2>1, Iteration
  <2>4. f = [k \in 0..N |-> IF k = 0 THEN <<tip>> ELSE step[f[k - 1]]]
    BY <2>3 DEF Iterates
  <2>5. \A k \in 0..N : k # 0 => f[k - 1] \in V
    BY <1>1
  <2>6. \A k \in 0..N : f[k] = IF k = 0 THEN <<tip>> ELSE MeasureStep(file, ms, f[k - 1])
    BY <2>2, <2>4, <2>5
  <2>7. f = [k \in 0..N |-> IF k = 0 THEN <<tip>> ELSE MeasureStep(file, ms, f[k - 1])]
    BY <2>6
  <2>8. Eq(f)
    BY <2>7 DEF N
  <2> QED
    BY <2>8
<1>5. Eq(walk)
  <2> HIDE DEF Eq
  <2> QED
    BY <1>4
<1>6. Measured(file, ms, tip) = walk[N]
  BY DEF Measured
<1> HIDE DEF walk
<1> DEFINE S == {k \in Nat : k <= N => walk[k] \in V}
<1>7. 0 \in S
  BY <1>1, <1>2, <1>5
<1>8. ASSUME NEW k \in Nat, k \in S PROVE k + 1 \in S
  <2> SUFFICES ASSUME k + 1 <= N PROVE walk[k + 1] \in V
    OBVIOUS
  <2>1. k + 1 \in 0..N /\ k + 1 # 0 /\ (k + 1) - 1 = k /\ k <= N
    BY <1>1
  <2>2. walk[k + 1] = MeasureStep(file, ms, walk[k])
    BY <1>5, <2>1
  <2> QED
    BY <1>3, <1>8, <2>1, <2>2
<1> HIDE DEF S
<1>9. N \in S
  BY <1>1, <1>7, <1>8, Induction
<1>10. Measured(file, ms, tip) \in Seq(ms)
  BY <1>1, <1>6, <1>9 DEF S
<1> DEFINE counted == {n \in ToSet(Measured(file, ms, tip)) : Conversational(file[n])}
<1>11. counted \in SUBSET Lines
  BY <1>10 DEF ToSet
<1>12. IsFiniteSet(Lines)
  BY <1>1, FS_Interval, LineFacts
<1>13. IsFiniteSet(counted)
  BY <1>11, <1>12, FS_Subset
<1> HIDE DEF counted
<1>14. Cardinality(counted) \in Nat
  BY <1>13, FS_CardinalityType
<1> QED
  BY <1>14 DEF BranchLength, counted

\* One tip is chosen before another.
Beats(ms, t, u) ==
    \/ file[t].time > file[u].time
    \/ /\ file[t].time = file[u].time
       /\ \/ BranchLength(file, ms, t) > BranchLength(file, ms, u)
          \/ BranchLength(file, ms, t) = BranchLength(file, ms, u) /\ t > u

\* Of any two tips one is chosen before the other, so one before all others.
LEMMA TipIsLine ==
  ASSUME FileOK, NEW ms \in SUBSET Lines, ms # {}
  PROVE  /\ ActiveTip(file, ms) \in Tips(file, ms)
         /\ \A u \in Tips(file, ms) \ {ActiveTip(file, ms)} : Beats(ms, ActiveTip(file, ms), u)
<1> DEFINE T == Tips(file, ms)
<1>1. T \subseteq ms /\ T \subseteq Lines
  BY DEF Tips
<1>2. T # {}
  <2>1. PICK n \in ms : \A m \in ms : m <= n
    BY LastLine
  <2>2. ChildrenOf(file, ms, n) = {}
    <3> SUFFICES ASSUME NEW m \in ms, file[m].parent = n PROVE FALSE
      BY DEF ChildrenOf
    <3>1. n < m /\ m <= n /\ m \in Nat /\ n \in Nat
      BY <2>1, LineFacts
    <3> QED
      BY <3>1
  <2> QED
    BY <2>2 DEF Tips
<1> HIDE DEF T
<1> DEFINE worse(t) == {u \in T : Beats(ms, u, t)}
<1>3. \A t \in T : file[t].time \in Nat /\ BranchLength(file, ms, t) \in Nat /\ t \in Nat
  BY <1>1, LengthIsNat, LineFacts
<1>4. \A t, u \in T : t = u \/ Beats(ms, t, u) \/ Beats(ms, u, t)
  BY <1>3 DEF Beats
<1>5. \A t \in T : ~Beats(ms, t, t)
  BY <1>3 DEF Beats
<1>6. \A s, t, u \in T : Beats(ms, s, t) /\ Beats(ms, t, u) => Beats(ms, s, u)
  BY <1>3 DEF Beats
<1>7. IsFiniteSet(T)
  <2>1. IsFiniteSet(Lines)
    BY FS_Interval, LineFacts
  <2> QED
    BY <1>1, <2>1, FS_Subset
<1>8. \E t \in T : worse(t) = {}
  <2> DEFINE W == {worse(t) : t \in T}
  <2>1. W \subseteq FiniteSubsetsOf(T) /\ W # {}
    <3>1. \A t \in T : worse(t) \in SUBSET T
      OBVIOUS
    <3>2. \A t \in T : IsFiniteSet(worse(t))
      BY <1>7, <3>1, FS_Subset
    <3> QED
      BY <1>2, <3>1, <3>2 DEF FiniteSubsetsOf
  <2>2. PICK w \in W : \A v \in W : <<v, w>> \notin StrictSubsetOrdering(T)
    BY <2>1, FS_StrictSubsetOrderingWellFounded, WFMin
  <2>3. PICK t \in T : w = worse(t)
    OBVIOUS
  <2> SUFFICES ASSUME NEW u \in worse(t) PROVE FALSE
    OBVIOUS
  <2>4. worse(u) \in W
    OBVIOUS
  <2>5. \A s \in worse(u) : s \in worse(t)
    BY <1>6
  <2>6. u \notin worse(u)
    BY <1>5
  <2>7. <<worse(u), worse(t)>> \in StrictSubsetOrdering(T)
    BY <2>5, <2>6 DEF StrictSubsetOrdering
  <2> QED
    BY <2>2, <2>3, <2>4, <2>7
<1> HIDE DEF worse
<1>9. PICK t \in T : \A u \in T \ {t} : Beats(ms, t, u)
  BY <1>4, <1>8 DEF worse
<1>10. ActiveTip(file, ms) = CHOOSE s \in T : \A u \in T \ {s} : Beats(ms, s, u)
  BY DEF ActiveTip, Beats, T
<1> QED
  BY <1>9, <1>10 DEF T

\* The active branch goes from parent to child and has the active tip.
LEMMA BranchFacts ==
  ASSUME FileOK, NEW ms \in SUBSET Lines, NEW b, b = ActiveBranch(file, ms)
  PROVE  /\ b \in Seq(ms)
         /\ \A i \in 1..Len(b) : file[b[i]].parent \in ms =>
               i # 1 /\ b[i - 1] = file[b[i]].parent
         /\ ms # {} => b # <<>> /\ b[Len(b)] = ActiveTip(file, ms)
<1>1. CASE ms = {}
  <2>1. b = <<>>
    BY <1>1 DEF ActiveBranch
  <2>2. b \in Seq(ms) /\ Len(b) = 0
    BY <2>1
  <2>3. \A i \in 1..Len(b) : FALSE
    BY <2>2
  <2> QED
    BY <1>1, <2>2, <2>3
<1>2. CASE ms # {}
  <2>1. b = Collected(file, ms, ActiveTip(file, ms))
    BY <1>2 DEF ActiveBranch
  <2>2. ActiveTip(file, ms) \in ms
    BY <1>2, TipIsLine DEF Tips
  <2>3. b \in Paths(ms, ActiveTip(file, ms)) /\ file[b[1]].parent \notin ms
    BY <2>1, <2>2, CollectedIsPath
  <2>4. /\ b \in Seq(ms) /\ b # <<>> /\ b[Len(b)] = ActiveTip(file, ms)
        /\ \A i \in 2..Len(b) : file[b[i]].parent \in ms => b[i - 1] = file[b[i]].parent
    BY <2>3 DEF Paths
  <2>5. ASSUME NEW i \in 1..Len(b), file[b[i]].parent \in ms
        PROVE  i # 1 /\ b[i - 1] = file[b[i]].parent
    <3>1. i # 1
      BY <2>3, <2>5
    <3>2. i \in 2..Len(b)
      BY <3>1
    <3> QED
      BY <2>4, <2>5, <3>1, <3>2
  <2> QED
    BY <2>4, <2>5
<1> QED
  BY <1>1, <1>2

-----------------------------------------------------------------------------
(* What hangs beside the active branch, and the answer of the server       *)

\* What hangs below a line is among what was read, and with a line its parent or the top.
LEMMA SubtreeFacts ==
  ASSUME FileOK, NEW ms \in SUBSET Lines, NEW top \in ms
  PROVE  /\ Subtree(file, ms, top) \in SUBSET ms
         /\ \A n \in Subtree(file, ms, top) :
               n = top \/ file[n].parent \in Subtree(file, ms, top)
<1> DEFINE D == DOMAIN file
           Eq(f) == f = [n \in DOMAIN file |->
                           n = top \/ (file[n].parent \in ms /\ f[file[n].parent])]
           below == CHOOSE f : Eq(f)
           F == [g \in [D -> BOOLEAN] |-> [n \in D |->
                    n = top \/ (file[n].parent \in ms /\ g[file[n].parent])]]
           rank == [n \in D |-> n]
           N == Len(file)
<1>1. /\ D = Lines /\ N \in Nat
      /\ \A n \in D : n \in 0..N /\ file[n].parent < n
  BY LineFacts DEF Lines
<1>2. F \in [[D -> BOOLEAN] -> [D -> BOOLEAN]]
  OBVIOUS
<1>3. rank \in [D -> 0..N]
  BY <1>1
<1>4. Grounded(D, BOOLEAN, rank, F)
  <2> SUFFICES ASSUME NEW g \in [D -> BOOLEAN], NEW h \in [D -> BOOLEAN], NEW n \in D,
                      \A m \in D : rank[m] < rank[n] => g[m] = h[m]
               PROVE  F[g][n] = F[h][n]
    BY DEF Grounded
  <2>1. file[n].parent \in ms => file[n].parent \in D /\ rank[file[n].parent] < rank[n]
    BY <1>1
  <2>2. file[n].parent \in ms => g[file[n].parent] = h[file[n].parent]
    BY <2>1
  <2>3. /\ F[g][n] = (n = top \/ (file[n].parent \in ms /\ g[file[n].parent]))
        /\ F[h][n] = (n = top \/ (file[n].parent \in ms /\ h[file[n].parent]))
    OBVIOUS
  <2> HIDE DEF F, rank, D
  <2> QED
    BY <2>2, <2>3, Zenon
<1>5. \E f : Eq(f)
  <2> HIDE DEF F, rank, D, N
  <2>1. HasSolution(D, BOOLEAN, F)
    BY <1>1, <1>2, <1>3, <1>4, Solution
  <2>2. PICK f \in [D -> BOOLEAN] : f = F[f]
    BY <2>1 DEF HasSolution
  <2>3. Eq(f)
    BY <2>2 DEF F, D
  <2> QED
    BY <2>3
<1>6. Eq(below)
  <2> HIDE DEF Eq
  <2> QED
    BY <1>5
<1>7. Subtree(file, ms, top) = {n \in ms : below[n]}
  BY DEF Subtree
<1> HIDE DEF below
<1>8. ASSUME NEW n \in ms
      PROVE  below[n] = (n = top \/ (file[n].parent \in ms /\ below[file[n].parent]))
  <2>1. n \in DOMAIN file
    BY DEF Lines
  <2> QED
    BY <1>6, <2>1, Zenon
<1> QED
  BY <1>7, <1>8

\* Each line of a list continues a certain line or an earlier one of the list.
Hangs(s, n) ==
    \A j \in DOMAIN s : \/ file[s[j]].parent = n
                        \/ \E i \in 1..(j - 1) : s[i] = file[s[j]].parent

\* Beside a line are lines that hang below it.
LEMMA SiblingFacts ==
  ASSUME FileOK, NEW ms \in SUBSET Lines, NEW active, NEW n \in ms, NEW s,
         s = SiblingBranches(file, ms, active, n)
  PROVE  s \in Seq(ms) /\ Hangs(s, n)
<1> DEFINE completed == {file[r].tool : r \in Results(file, ms)}
           starts == {t \in ChildrenOf(file, ms, n) \ active :
                        Subtree(file, ms, t) \cap completed # {}}
           tops == Ascending(starts)
           seqs == [i \in 1..Cardinality(starts) |-> Ascending(Subtree(file, ms, tops[i]))]
<1>1. \A t \in starts : t \in ms /\ file[t].parent = n
  BY DEF ChildrenOf
<1>2. s = FlattenSeq(seqs)
  BY DEF SiblingBranches
<1> HIDE DEF starts
<1>3. \A S \in SUBSET ms : S \in SUBSET Nat /\ IsFiniteSet(S)
  <2>1. ms \in SUBSET Nat
    BY LineFacts
  <2>2. IsFiniteSet(Lines)
    BY FS_Interval, LineFacts
  <2> QED
    BY <2>1, <2>2, FS_Subset
<1>4. starts \in SUBSET Nat /\ IsFiniteSet(starts) /\ Cardinality(starts) \in Nat
  <2>1. starts \in SUBSET ms
    BY <1>1
  <2> QED
    BY <1>3, <2>1, FS_CardinalityType
<1>5. tops \in Seq(starts)
  BY <1>4, AscendingLists
<1>6. Len(tops) = Cardinality(starts)
  <2>1. DOMAIN tops = 1..Cardinality(starts)
    BY DEF Ascending
  <2> QED
    BY <1>4, <1>5, <2>1
<1> HIDE DEF tops
<1>7. \A i \in 1..Cardinality(starts) : tops[i] \in starts
  BY <1>4, <1>5, <1>6
<1>8. ASSUME NEW i \in 1..Cardinality(starts)
      PROVE  /\ seqs[i] \in Seq(ms)
             /\ \A q \in DOMAIN seqs[i] :
                   \/ file[seqs[i][q]].parent = n
                   \/ \E r \in 1..(q - 1) : seqs[i][r] = file[seqs[i][q]].parent
  <2> DEFINE top == tops[i]
             T == Subtree(file, ms, top)
             a == Ascending(T)
  <2>1. top \in ms /\ file[top].parent = n
    BY <1>1, <1>7
  <2>2. /\ T \in SUBSET ms
        /\ \A m \in T : m = top \/ file[m].parent \in T
    BY <2>1, SubtreeFacts
  <2>3. seqs[i] = a
    OBVIOUS
  <2> HIDE DEF T, seqs
  <2>4. /\ a \in Seq(T)
        /\ \A m \in T : \E j \in DOMAIN a : a[j] = m
        /\ \A j, k \in DOMAIN a : j < k => a[j] < a[k]
    BY <1>3, <2>2, AscendingLists
  <2> HIDE DEF a
  <2>5. a \in Seq(ms) /\ DOMAIN a = 1..Len(a) /\ Len(a) \in Nat
        /\ \A q \in DOMAIN a : a[q] \in T
    BY <2>2, <2>4
  <2>6. ASSUME NEW q \in DOMAIN a, file[a[q]].parent # n
        PROVE  \E r \in 1..(q - 1) : a[r] = file[a[q]].parent
    <3>1. a[q] \in T /\ a[q] # top
      BY <2>1, <2>5, <2>6
    <3>2. file[a[q]].parent \in T
      BY <2>2, <3>1
    <3>3. PICK r \in DOMAIN a : a[r] = file[a[q]].parent
      BY <2>4, <3>2
    <3>4. a[q] \in Lines
      BY <2>2, <3>1
    <3>5. a[r] < a[q] /\ a[r] \in Nat /\ a[q] \in Nat
      BY <3>3, <3>4, LineFacts
    <3>6. ~(q < r) /\ q # r
      BY <2>4, <3>5
    <3>7. r \in 1..(q - 1)
      BY <2>5, <3>6
    <3> QED
      BY <3>3, <3>7
  <2> QED
    BY <2>3, <2>5, <2>6
<1>9. /\ seqs \in Seq(Seq(ms)) /\ Len(seqs) = Cardinality(starts)
      /\ DOMAIN seqs = 1..Cardinality(starts)
  <2>1. \A i \in 1..Cardinality(starts) : seqs[i] \in Seq(ms)
    BY <1>8
  <2>2. seqs \in [1..Cardinality(starts) -> Seq(ms)]
    BY <2>1
  <2> HIDE DEF seqs
  <2> QED
    BY <1>4, <2>2
<1> HIDE DEF seqs
<1>10. s \in Seq(ms) /\ Joins(s, seqs, Cardinality(starts))
  BY <1>2, <1>9, FlattenJoins
<1>11. ASSUME NEW j \in DOMAIN s
       PROVE  \/ file[s[j]].parent = n
              \/ \E i \in 1..(j - 1) : s[i] = file[s[j]].parent
  <2>1. PICK p \in 1..Cardinality(starts) : \E q \in DOMAIN seqs[p] :
            /\ s[j] = seqs[p][q]
            /\ \A r \in 1..(q - 1) : \E i \in 1..(j - 1) : s[i] = seqs[p][r]
    BY <1>10 DEF Joins
  <2>2. PICK q \in DOMAIN seqs[p] :
            /\ s[j] = seqs[p][q]
            /\ \A r \in 1..(q - 1) : \E i \in 1..(j - 1) : s[i] = seqs[p][r]
    BY <2>1
  <2>3. \/ file[seqs[p][q]].parent = n
        \/ \E r \in 1..(q - 1) : seqs[p][r] = file[seqs[p][q]].parent
    BY <1>8
  <2> QED
    BY <2>2, <2>3, Zenon
<1> QED
  BY <1>10, <1>11 DEF Hangs

\* A list has all of a set.
HasAll(s, S) == \A n \in S : \E q \in DOMAIN s : s[q] = n

\* Lines that continue a line.
Continue(S, n) == \A m \in S : file[m].parent = n

\* Among some lines, each that continues another of a set comes after it.
Follows(items, ms) ==
    \A j \in DOMAIN items : file[items[j]].parent \in ms =>
        \E i \in 1..(j - 1) : items[i] = file[items[j]].parent

\* What is listed for a line of the branch begins with the line, and has behind it lines
\* that continue it or one of those before.
Block(ms, n, s) ==
    /\ s \in Seq(ms) /\ s # <<>> /\ s[1] = n
    /\ \A q \in DOMAIN s : q # 1 => \E r \in 1..(q - 1) : s[r] = file[s[q]].parent

\* It is the line, the results beside the branch, and the branches beside it.
LEMMA BlockFacts ==
  ASSUME FileOK, NEW ms \in SUBSET Lines, NEW active, NEW n \in ms,
         NEW results \in SUBSET ms, Continue(results, n), NEW s,
         s = <<n>> \o Ascending(results) \o SiblingBranches(file, ms, active, n)
  PROVE  Block(ms, n, s) /\ HasAll(s, results)
<1> DEFINE a == Ascending(results)
           b == SiblingBranches(file, ms, active, n)
           k == Len(a)
<1>1. results \in SUBSET Nat /\ IsFiniteSet(results)
  <2>1. IsFiniteSet(Lines)
    BY FS_Interval, LineFacts
  <2>2. IsFiniteSet(results)
    BY <2>1, FS_Subset
  <2> QED
    BY <2>2, LineFacts
<1>2. a \in Seq(results) /\ \A r \in results : \E q \in DOMAIN a : a[q] = r
  BY <1>1, AscendingLists
<1>3. b \in Seq(ms) /\ Hangs(b, n)
  <2>1. b = SiblingBranches(file, ms, active, n)
    OBVIOUS
  <2> HIDE DEF b
  <2> QED
    BY <2>1, SiblingFacts
<1>4. s = <<n>> \o a \o b
  OBVIOUS
<1> HIDE DEF a, b
<1>5. a \in Seq(ms) /\ k \in Nat /\ DOMAIN a = 1..k /\ \A q \in DOMAIN a : a[q] \in results
  BY <1>2
<1>6. Len(b) \in Nat /\ DOMAIN b = 1..Len(b) /\ <<n>> \in Seq(ms) /\ Len(<<n>>) = 1
  BY <1>3
<1>7. /\ s \in Seq(ms) /\ DOMAIN s = 1..(1 + k + Len(b)) /\ s[1] = n
      /\ \A q \in 1..k : s[1 + q] = a[q]
      /\ \A q \in 1..Len(b) : s[1 + k + q] = b[q]
  <2> DEFINE front == <<n>> \o a
  <2>0. front = <<n>> \o a
    OBVIOUS
  <2>1. /\ front \in Seq(ms) /\ Len(front) = 1 + k /\ front[1] = n
        /\ \A q \in 1..k : front[1 + q] = a[q]
    <3> HIDE DEF front
    <3>1. /\ front \in Seq(ms) /\ Len(front) = Len(<<n>>) + Len(a)
          /\ \A q \in 1..Len(<<n>>) : front[q] = <<n>>[q]
          /\ \A q \in 1..Len(a) : front[Len(<<n>>) + q] = a[q]
      BY <1>5, <1>6, <2>0, Joined
    <3>2. 1 \in 1..Len(<<n>>) /\ <<n>>[1] = n
      BY <1>6
    <3> QED
      BY <1>6, <3>1, <3>2
  <2> HIDE DEF front
  <2>2. s = front \o b
    BY <1>4 DEF front
  <2>3. /\ s \in Seq(ms) /\ DOMAIN s = 1..(Len(front) + Len(b))
        /\ \A q \in 1..Len(front) : s[q] = front[q]
        /\ \A q \in 1..Len(b) : s[Len(front) + q] = b[q]
    <3>1. front \in Seq(ms) /\ b \in Seq(ms)
      BY <1>3, <2>1
    <3>2. DOMAIN s = 1..(Len(front) + Len(b))
      BY <2>2, <3>1, Joined
    <3>3. s \in Seq(ms)
      BY <2>2, <3>1, Joined
    <3>4. \A q \in 1..Len(front) : s[q] = front[q]
      BY <2>2, <3>1, Joined
    <3>5. \A q \in 1..Len(b) : s[Len(front) + q] = b[q]
      BY <2>2, <3>1, Joined
    <3> QED
      BY <3>2, <3>3, <3>4, <3>5
  <2>4. 1 \in 1..(1 + k) /\ \A q \in 1..k : 1 + q \in 1..(1 + k)
    BY <1>5
  <2> QED
    BY <2>1, <2>3, <2>4
<1> HIDE DEF k
<1>8. s # <<>>
  <2>1. 1 \in DOMAIN s
    BY <1>5, <1>6, <1>7
  <2> QED
    BY <2>1
<1>9. ASSUME NEW q \in DOMAIN s, q # 1
      PROVE  \E r \in 1..(q - 1) : s[r] = file[s[q]].parent
  <2>1. 1 \in 1..(q - 1)
    BY <1>5, <1>6, <1>7, <1>9
  <2>2. CASE q <= 1 + k
    <3>1. q - 1 \in 1..k /\ 1 + (q - 1) = q
      BY <1>5, <1>6, <1>7, <1>9, <2>2
    <3>2. s[q] \in results
      BY <1>5, <1>7, <3>1
    <3> QED
      BY <1>7, <2>1, <3>2 DEF Continue
  <2>3. CASE ~(q <= 1 + k)
    <3> DEFINE j == q - (1 + k)
    <3>0. q \in 1..(1 + k + Len(b))
      BY <1>7
    <3>1. j \in 1..Len(b) /\ 1 + k + j = q
      BY <1>5, <1>6, <2>3, <3>0
    <3>5. ASSUME NEW i \in 1..(j - 1) PROVE i \in 1..Len(b) /\ 1 + k + i \in 1..(q - 1)
      <4> HIDE DEF j
      <4> QED
        BY <1>5, <1>6, <3>1
    <3> HIDE DEF j
    <3>2. s[q] = b[j]
      BY <1>7, <3>1
    <3>3. CASE file[b[j]].parent = n
      BY <1>7, <2>1, <3>2, <3>3
    <3>4. CASE \E i \in 1..(j - 1) : b[i] = file[b[j]].parent
      <4>1. PICK i \in 1..(j - 1) : b[i] = file[b[j]].parent
        BY <3>4
      <4>2. s[1 + k + i] = b[i] /\ 1 + k + i \in 1..(q - 1)
        BY <1>7, <3>5
      <4> QED
        BY <3>2, <4>1, <4>2
    <3>6. j \in DOMAIN b
      BY <1>6, <3>1
    <3> QED
      BY <1>3, <3>3, <3>4, <3>6 DEF Hangs
  <2> QED
    BY <2>2, <2>3
<1>10. ASSUME NEW r \in results PROVE \E q \in DOMAIN s : s[q] = r
  <2>1. PICK q \in 1..k : a[q] = r
    BY <1>2, <1>5
  <2>2. 1 + q \in DOMAIN s /\ s[1 + q] = r
    <3>1. 1 + q \in 1..(1 + k + Len(b))
      BY <1>5, <1>6
    <3> QED
      BY <1>7, <2>1, <3>1
  <2> QED
    BY <2>2
<1> QED
  BY <1>7, <1>8, <1>9, <1>10 DEF Block, HasAll

\* The answer of the server: of what was read it has the active branch and the results
\* beside it, and each line after its parent if that was read.
LEMMA AnswerFacts ==
  ASSUME FileOK, NEW ms \in SUBSET Lines, NEW s, s = Normalized(file, ms)
  PROVE  /\ s \in Seq(ms)
         /\ Follows(s, ms)
         /\ \A i \in DOMAIN ActiveBranch(file, ms) :
               \E j \in DOMAIN s : s[j] = ActiveBranch(file, ms)[i]
         /\ \A r \in SiblingResults(file, ms, ToSet(ActiveBranch(file, ms))) :
               \E j \in DOMAIN s : s[j] = r
<1> DEFINE b == ActiveBranch(file, ms)
           active == ToSet(b)
           results == SiblingResults(file, ms, active)
           beside(i) == {r \in results : file[r].parent = b[i]}
           seqs == [i \in 1..Len(b) |-> <<b[i]>> \o Ascending(beside(i))
                                        \o SiblingBranches(file, ms, active, b[i])]
<1>1. s = FlattenSeq(seqs)
  BY DEF Normalized
<1>2. /\ b \in Seq(ms)
      /\ \A i \in 1..Len(b) : file[b[i]].parent \in ms => i # 1 /\ b[i - 1] = file[b[i]].parent
  BY BranchFacts
<1>3. results \in SUBSET ms /\ \A r \in results : file[r].parent \in active
  <2>1. \A r \in results : r \in ms /\ file[r].kind = "result" /\ file[r].tool \in active
    BY DEF SiblingResults, Results
  <2>2. \A r \in ms : file[r].kind = "result" => file[r].tool = file[r].parent
    BY DEF FileOK
  <2> QED
    BY <2>1, <2>2
<1>4. \A n \in active : \E i \in 1..Len(b) : b[i] = n
  BY <1>2 DEF ToSet
<1> HIDE DEF b, active, results
<1>5. Len(b) \in Nat /\ DOMAIN b = 1..Len(b) /\ \A i \in 1..Len(b) : b[i] \in ms
  BY <1>2
<1>6. ASSUME NEW i \in 1..Len(b)
      PROVE  Block(ms, b[i], seqs[i]) /\ HasAll(seqs[i], beside(i))
  <2>1. beside(i) \in SUBSET ms /\ Continue(beside(i), b[i])
    BY <1>3 DEF Continue
  <2>2. seqs[i] = <<b[i]>> \o Ascending(beside(i)) \o SiblingBranches(file, ms, active, b[i])
    OBVIOUS
  <2>3. b[i] \in ms
    BY <1>5
  <2> HIDE DEF seqs, beside
  <2> QED
    BY <2>1, <2>2, <2>3, BlockFacts
<1>7. seqs \in Seq(Seq(ms)) /\ Len(seqs) = Len(b)
  <2>1. \A i \in 1..Len(b) : seqs[i] \in Seq(ms)
    BY <1>6 DEF Block
  <2>2. seqs \in [1..Len(b) -> Seq(ms)]
    BY <2>1
  <2> HIDE DEF seqs
  <2> QED
    BY <1>5, <2>2
<1> HIDE DEF seqs
<1>8. s \in Seq(ms) /\ Joins(s, seqs, Len(b))
  BY <1>1, <1>7, FlattenJoins
<1>9. \A p \in 1..Len(b) : /\ 1 \in DOMAIN seqs[p] /\ seqs[p][1] = b[p] /\ seqs[p] \in Seq(ms)
                           /\ \A q \in DOMAIN seqs[p] : q # 1 =>
                                 \E r \in 1..(q - 1) : seqs[p][r] = file[seqs[p][q]].parent
  <2> SUFFICES ASSUME NEW p \in 1..Len(b), NEW t, t = seqs[p]
               PROVE  /\ 1 \in DOMAIN t /\ t[1] = b[p] /\ t \in Seq(ms)
                      /\ \A q \in DOMAIN t : q # 1 => \E r \in 1..(q - 1) : t[r] = file[t[q]].parent
    OBVIOUS
  <2>1. Block(ms, b[p], t)
    BY <1>6
  <2>2. t \in Seq(ms) /\ t # <<>>
    BY <2>1 DEF Block
  <2>3. 1 \in DOMAIN t
    BY <2>2
  <2> QED
    BY <2>1, <2>3 DEF Block
<1>10. ASSUME NEW j \in DOMAIN s, file[s[j]].parent \in ms
       PROVE  \E i \in 1..(j - 1) : s[i] = file[s[j]].parent
  <2>1. PICK p \in 1..Len(b) : \E q \in DOMAIN seqs[p] :
            /\ s[j] = seqs[p][q]
            /\ \A r \in 1..(q - 1) : \E i \in 1..(j - 1) : s[i] = seqs[p][r]
            /\ \A o \in 1..(p - 1) : \A r \in DOMAIN seqs[o] :
                  \E i \in 1..(j - 1) : s[i] = seqs[o][r]
    BY <1>8 DEF Joins
  <2>2. PICK q \in DOMAIN seqs[p] :
            /\ s[j] = seqs[p][q]
            /\ \A r \in 1..(q - 1) : \E i \in 1..(j - 1) : s[i] = seqs[p][r]
            /\ \A o \in 1..(p - 1) : \A r \in DOMAIN seqs[o] :
                  \E i \in 1..(j - 1) : s[i] = seqs[o][r]
    BY <2>1
  <2>3. CASE q # 1
    <3>1. PICK r \in 1..(q - 1) : seqs[p][r] = file[seqs[p][q]].parent
      BY <1>9, <2>3
    <3> QED
      BY <2>2, <3>1
  <2>4. CASE q = 1
    <3>1. s[j] = b[p]
      BY <1>9, <2>2, <2>4
    <3>2. p # 1 /\ b[p - 1] = file[s[j]].parent
      BY <1>2, <1>10, <3>1
    <3>3. p - 1 \in 1..(p - 1) /\ p - 1 \in 1..Len(b)
      BY <1>5, <3>2
    <3>4. 1 \in DOMAIN seqs[p - 1] /\ seqs[p - 1][1] = b[p - 1]
      BY <1>9, <3>3
    <3>5. PICK i \in 1..(j - 1) : s[i] = seqs[p - 1][1]
      BY <2>2, <3>3, <3>4
    <3> QED
      BY <3>2, <3>4, <3>5
  <2> QED
    BY <2>3, <2>4
<1>11. ASSUME NEW i \in DOMAIN b PROVE \E j \in DOMAIN s : s[j] = b[i]
  <2>1. i \in 1..Len(b) /\ 1 \in DOMAIN seqs[i] /\ seqs[i][1] = b[i]
    BY <1>5, <1>9
  <2>2. PICK j \in DOMAIN s : s[j] = seqs[i][1]
    BY <1>8, <2>1 DEF Joins
  <2> QED
    BY <2>1, <2>2
<1>12. ASSUME NEW r \in results PROVE \E j \in DOMAIN s : s[j] = r
  <2>1. PICK i \in 1..Len(b) : b[i] = file[r].parent
    BY <1>3, <1>4
  <2>2. r \in beside(i)
    BY <2>1
  <2>3. PICK q \in DOMAIN seqs[i] : seqs[i][q] = r
    BY <1>6, <2>2 DEF HasAll
  <2>4. PICK j \in DOMAIN s : s[j] = seqs[i][q]
    BY <1>8 DEF Joins
  <2> QED
    BY <2>3, <2>4
<1>13. Follows(s, ms)
  BY <1>10 DEF Follows
<1> QED
  BY <1>8, <1>11, <1>12, <1>13 DEF b, active, results

\* So the result of every tool call on the active branch is part of the answer.
LEMMA ResultsAreLoaded ==
  ASSUME FileOK PROVE ResultsLoaded
<1> DEFINE b == ActiveBranch(file, Lines)
           s == Normalized(file, Lines)
<1>1. /\ \A i \in DOMAIN b : \E j \in DOMAIN s : s[j] = b[i]
      /\ \A r \in SiblingResults(file, Lines, ToSet(b)) : \E j \in DOMAIN s : s[j] = r
  BY AnswerFacts
<1>2. \A r \in Results(file, Lines) : file[r].tool \in ToSet(b) =>
         r \in ToSet(b) \/ r \in SiblingResults(file, Lines, ToSet(b))
  BY DEF SiblingResults
<1>3. \A r \in ToSet(b) : r \in ToSet(s)
  <2> HIDE DEF b, s
  <2> QED
    BY <1>1 DEF ToSet
<1>4. \A r \in SiblingResults(file, Lines, ToSet(b)) : r \in ToSet(s)
  <2> HIDE DEF b, s
  <2> QED
    BY <1>1 DEF ToSet
<1> QED
  BY <1>2, <1>3, <1>4 DEF ResultsLoaded

-----------------------------------------------------------------------------
(* The client: orderByParentChain and mergeJSONLMessages                   *)

\* What continues a line of a list, and what is reached from there.
ChildrenIn(items, p) == AtPlaces(items, {i \in DOMAIN items : file[items[i]].parent = p})
Onward(items, p, below) ==
    FlattenSeq([i \in DOMAIN ChildrenIn(items, p) |->
                  <<ChildrenIn(items, p)[i]>> \o below[ChildrenIn(items, p)[i]]])

\* They are later lines of the list, and continue it.
LEMMA ChildrenFacts ==
  ASSUME FileOK, NEW M \in SUBSET Lines, NEW items \in Seq(M), NEW p \in 0..Len(file), NEW c,
         c = ChildrenIn(items, p)
  PROVE  /\ c \in Seq(M) /\ DOMAIN c = 1..Len(c) /\ Len(c) \in Nat
         /\ \A i \in DOMAIN c : /\ c[i] \in M /\ file[c[i]].parent = p
                                /\ c[i] \in 0..Len(file) /\ p < c[i]
<1> DEFINE places == {i \in DOMAIN items : file[items[i]].parent = p}
<1>1. c = AtPlaces(items, places)
  BY DEF ChildrenIn
<1>2. places \in SUBSET (DOMAIN items) /\ \A i \in places : file[items[i]].parent = p
  OBVIOUS
<1> HIDE DEF places
<1>3. c \in Seq(M) /\ \A j \in DOMAIN c : \E i \in places : c[j] = items[i]
  <2>1. c \in Seq(M) /\ Lists(c, items, places)
    BY <1>1, <1>2, AtPlacesLists
  <2> QED
    BY <2>1 DEF Lists
<1>4. DOMAIN c = 1..Len(c) /\ Len(c) \in Nat /\ \A i \in DOMAIN c : c[i] \in M
  BY <1>3
<1>5. \A i \in DOMAIN c : file[c[i]].parent = p
  BY <1>2, <1>3
<1>6. \A m \in M : m \in 0..Len(file) /\ file[m].parent < m
  BY LineFacts
<1> QED
  BY <1>3, <1>4, <1>5, <1>6

\* t is x followed by b.
Prefixed(t, x, b) ==
    DOMAIN t = 1..(1 + Len(b)) /\ t[1] = x /\ \A q \in 1..Len(b) : t[1 + q] = b[q]

\* So is the concatenation of the two.
LEMMA PrefixIsJoined ==
  ASSUME NEW V, NEW x \in V, NEW b \in Seq(V), NEW t, t = <<x>> \o b
  PROVE  t \in Seq(V) /\ Prefixed(t, x, b)
<1>1. <<x>> \in Seq(V) /\ Len(<<x>>) = 1 /\ <<x>>[1] = x
  OBVIOUS
<1>2. /\ t \in Seq(V) /\ DOMAIN t = 1..(Len(<<x>>) + Len(b))
      /\ \A q \in 1..Len(<<x>>) : t[q] = <<x>>[q]
      /\ \A q \in 1..Len(b) : t[Len(<<x>>) + q] = b[q]
  BY <1>1, Joined
<1>3. 1 \in 1..Len(<<x>>)
  BY <1>1
<1> QED
  BY <1>1, <1>2, <1>3 DEF Prefixed

\* If what hangs below later lines is known, so is what hangs below this one.
LEMMA OnwardHangs ==
  ASSUME FileOK, NEW M \in SUBSET Lines, NEW items \in Seq(M), NEW p \in 0..Len(file),
         NEW below \in [0..Len(file) -> Seq(M)], NEW s, s = Onward(items, p, below)
  PROVE  /\ s \in Seq(M)
         /\ (\A m \in 0..Len(file) : p < m => Hangs(below[m], m)) => Hangs(s, p)
<1> DEFINE c == ChildrenIn(items, p)
           seqs == [i \in DOMAIN c |-> <<c[i]>> \o below[c[i]]]
<1>1. s = FlattenSeq(seqs)
  BY DEF Onward
<1>3. /\ c \in Seq(M) /\ DOMAIN c = 1..Len(c) /\ Len(c) \in Nat
      /\ \A i \in DOMAIN c : /\ c[i] \in M /\ file[c[i]].parent = p
                             /\ c[i] \in 0..Len(file) /\ p < c[i]
  BY ChildrenFacts
<1> HIDE DEF c
<1>4. ASSUME NEW i \in DOMAIN c
      PROVE  /\ seqs[i] \in Seq(M) /\ below[c[i]] \in Seq(M)
             /\ Prefixed(seqs[i], c[i], below[c[i]])
  <2>1. below[c[i]] \in Seq(M) /\ c[i] \in M
    BY <1>3
  <2>2. seqs[i] = <<c[i]>> \o below[c[i]]
    OBVIOUS
  <2> QED
    BY <2>1, <2>2, PrefixIsJoined
<1>5. seqs \in Seq(Seq(M)) /\ Len(seqs) = Len(c)
  <2>1. \A i \in DOMAIN c : seqs[i] \in Seq(M)
    BY <1>4
  <2>2. seqs \in [1..Len(c) -> Seq(M)]
    BY <1>3, <2>1
  <2> HIDE DEF seqs
  <2> QED
    BY <1>3, <2>2
<1> HIDE DEF seqs
<1>6. s \in Seq(M) /\ Joins(s, seqs, Len(c))
  BY <1>1, <1>5, FlattenJoins
<1>7. ASSUME \A m \in 0..Len(file) : p < m => Hangs(below[m], m), NEW j \in DOMAIN s
      PROVE  \/ file[s[j]].parent = p
             \/ \E i \in 1..(j - 1) : s[i] = file[s[j]].parent
  <2>1. PICK o \in 1..Len(c) : \E q \in DOMAIN seqs[o] :
            /\ s[j] = seqs[o][q]
            /\ \A r \in 1..(q - 1) : \E i \in 1..(j - 1) : s[i] = seqs[o][r]
    BY <1>6 DEF Joins
  <2>2. PICK q \in DOMAIN seqs[o] :
            /\ s[j] = seqs[o][q]
            /\ \A r \in 1..(q - 1) : \E i \in 1..(j - 1) : s[i] = seqs[o][r]
    BY <2>1
  <2> DEFINE b == below[c[o]]
  <2>3. /\ b \in Seq(M) /\ DOMAIN seqs[o] = 1..(1 + Len(b)) /\ seqs[o][1] = c[o]
        /\ \A r \in 1..Len(b) : seqs[o][1 + r] = b[r]
    <3>1. o \in DOMAIN c
      BY <1>3
    <3>2. b \in Seq(M) /\ Prefixed(seqs[o], c[o], b)
      BY <1>4, <3>1
    <3> HIDE DEF b
    <3> QED
      BY <3>2 DEF Prefixed
  <2>4. Hangs(b, c[o]) /\ file[c[o]].parent = p
    BY <1>3, <1>7
  <2> HIDE DEF b
  <2>5. Len(b) \in Nat /\ DOMAIN b = 1..Len(b)
    BY <2>3
  <2>6. CASE q = 1
    BY <2>2, <2>3, <2>4, <2>6
  <2>7. CASE q # 1
    <3> DEFINE k == q - 1
    <3>1. q \in 1..(1 + Len(b))
      BY <2>3
    <3>2. k \in DOMAIN b /\ 1 + k = q /\ 1 \in 1..(q - 1)
      BY <2>5, <2>7, <3>1
    <3> HIDE DEF k
    <3>3. s[j] = b[k]
      BY <2>2, <2>3, <2>5, <3>2
    <3>4. CASE file[b[k]].parent = c[o]
      BY <2>2, <2>3, <3>2, <3>3, <3>4
    <3>5. CASE \E i \in 1..(k - 1) : b[i] = file[b[k]].parent
      <4>1. PICK i \in 1..(k - 1) : b[i] = file[b[k]].parent
        BY <3>5
      <4>2. 1 + i \in 1..(q - 1) /\ i \in 1..Len(b)
        BY <2>5, <3>2
      <4> QED
        BY <2>2, <2>3, <3>3, <4>1, <4>2
    <3> QED
      BY <2>4, <3>2, <3>4, <3>5 DEF Hangs
  <2> QED
    BY <2>6, <2>7
<1> QED
  BY <1>6, <1>7 DEF Hangs

\* What the roots of a list lead to is part of it, each line after its parent.
LEMMA ReachedFacts ==
  ASSUME FileOK, NEW M \in SUBSET Lines, NEW items \in Seq(M), NEW s,
         s = Reached(file, items)
  PROVE  s \in Seq(M) /\ Hangs(s, None)
<1> DEFINE N == Len(file)
           D == 0..N
           V == Seq(M)
           Eq(f) == f = [p \in 0..Len(file) |->
                           LET children == AtPlaces(items,
                                             {i \in DOMAIN items : file[items[i]].parent = p})
                           IN  FlattenSeq([i \in DOMAIN children |-> <<children[i]>> \o f[children[i]]])]
           below == CHOOSE f : Eq(f)
           F == [g \in [D -> V] |-> [p \in D |-> Onward(items, p, g)]]
           rank == [p \in D |-> N - p]
<1>1. N \in Nat
  BY LineFacts
<1>2. F \in [[D -> V] -> [D -> V]]
  <2>1. \A g \in [D -> V] : \A p \in D : Onward(items, p, g) \in V
    BY OnwardHangs
  <2> QED
    BY <2>1
<1>3. rank \in [D -> 0..N] /\ V # {} /\ \A m, p \in D : p < m => rank[m] < rank[p]
  BY <1>1
<1>4. Grounded(D, V, rank, F)
  <2> SUFFICES ASSUME NEW g \in [D -> V], NEW h \in [D -> V], NEW p \in D,
                      \A m \in D : rank[m] < rank[p] => g[m] = h[m]
               PROVE  F[g][p] = F[h][p]
    BY DEF Grounded
  <2> DEFINE c == ChildrenIn(items, p)
  <2>1. \A i \in DOMAIN c : c[i] \in D /\ p < c[i]
    BY ChildrenFacts
  <2>2. \A i \in DOMAIN c : g[c[i]] = h[c[i]]
    BY <1>3, <2>1
  <2>3. [i \in DOMAIN c |-> <<c[i]>> \o g[c[i]]] = [i \in DOMAIN c |-> <<c[i]>> \o h[c[i]]]
    BY <2>2
  <2>4. Onward(items, p, g) = Onward(items, p, h)
    BY <2>3 DEF Onward
  <2> QED
    BY <2>4
<1>5. \E f \in [D -> V] : f = F[f]
  <2> HIDE DEF F, rank, D, V, N
  <2>1. HasSolution(D, V, F)
    BY <1>1, <1>2, <1>3, <1>4, Solution
  <2> QED
    BY <2>1 DEF HasSolution
<1>6. \A f \in [D -> V] : f = F[f] <=> Eq(f)
  <2> SUFFICES ASSUME NEW f \in [D -> V] PROVE f = F[f] <=> Eq(f)
    OBVIOUS
  <2>1. F[f] = [p \in D |-> Onward(items, p, f)]
    OBVIOUS
  <2> HIDE DEF F
  <2> QED
    BY <2>1 DEF Onward, ChildrenIn
<1>7. Eq(below)
  <2>1. \E f : Eq(f)
    <3> HIDE DEF Eq
    <3> QED
      BY <1>5, <1>6
  <2> HIDE DEF Eq
  <2> QED
    BY <2>1
<1>8. s = below[None]
  BY DEF Reached
<1> HIDE DEF below
<1>9. below = [p \in D |-> Onward(items, p, below)]
  BY <1>7 DEF Onward, ChildrenIn
<1> DEFINE S == {k \in Nat : \A p \in D : rank[p] < k => below[p] \in V /\ Hangs(below[p], p)}
<1>10. 0 \in S
  BY <1>3
<1>11. ASSUME NEW k \in Nat, k \in S PROVE k + 1 \in S
  <2> SUFFICES ASSUME NEW p \in D, rank[p] < k + 1
               PROVE  below[p] \in V /\ Hangs(below[p], p)
    OBVIOUS
  <2>1. \A m \in D : p < m => below[m] \in V /\ Hangs(below[m], m)
    <3> SUFFICES ASSUME NEW m \in D, p < m PROVE rank[m] < k
      BY <1>11
    <3>1. rank[m] < rank[p] /\ rank[m] \in Nat /\ rank[p] \in Nat
      BY <1>3
    <3> QED
      BY <3>1
  <2> DEFINE g == [m \in D |-> IF p < m THEN below[m] ELSE <<>>]
             c == ChildrenIn(items, p)
  <2>2. g \in [D -> V] /\ \A m \in D : p < m => g[m] = below[m]
    BY <2>1
  <2> HIDE DEF g
  <2>3. \A i \in DOMAIN c : c[i] \in D /\ p < c[i]
    BY ChildrenFacts
  <2>4. [i \in DOMAIN c |-> <<c[i]>> \o g[c[i]]] = [i \in DOMAIN c |-> <<c[i]>> \o below[c[i]]]
    BY <2>2, <2>3
  <2>5. below[p] = Onward(items, p, g)
    <3>1. Onward(items, p, g) = Onward(items, p, below)
      BY <2>4 DEF Onward
    <3> QED
      BY <1>9, <3>1
  <2>6. \A m \in 0..Len(file) : p < m => Hangs(g[m], m)
    BY <2>1, <2>2
  <2>7. g \in [0..Len(file) -> Seq(M)] /\ p \in 0..Len(file)
    BY <2>2
  <2> HIDE DEF D, V, N
  <2> QED
    BY <2>5, <2>6, <2>7, OnwardHangs DEF V
<1> HIDE DEF S
<1>12. N + 1 \in S
  BY <1>1, <1>10, <1>11, Induction
<1>13. None \in D /\ rank[None] < N + 1
  BY <1>1 DEF None
<1>14. below[None] \in V /\ Hangs(below[None], None)
  BY <1>12, <1>13 DEF S
<1> QED
  BY <1>8, <1>14

\* Lists of lines in which no line comes before the one it continues.
Ordered(items) == Follows(items, ToSet(items))

\* In such a list parents come first.
LEMMA OrderedIsParentsFirst ==
  ASSUME NEW V, NEW items \in Seq(V), Ordered(items)
  PROVE  ParentsFirst(items)
<1> SUFFICES ASSUME NEW i \in DOMAIN items, file[items[i]].parent \in ToSet(items)
             PROVE  file[items[i]].parent \in ToSet(SubSeq(items, 1, i - 1))
  BY DEF ParentsFirst
<1>1. PICK j \in 1..(i - 1) : items[j] = file[items[i]].parent
  BY DEF Ordered, Follows
<1> DEFINE front == SubSeq(items, 1, i - 1)
<1>2. i \in 1..Len(items) /\ Len(items) \in Nat /\ i - 1 \in Nat
  OBVIOUS
<1>3. front = [k \in 1..(i - 1) |-> items[k]]
  BY <1>2
<1> HIDE DEF front
<1>4. j \in DOMAIN front /\ front[j] = items[j]
  BY <1>3
<1> QED
  BY <1>1, <1>4 DEF ToSet, front

\* FirstOnly keeps what is in a list, and its order.
LEMMA FirstOnlyFacts ==
  ASSUME NEW V, NEW items \in Seq(V), NEW t, t = FirstOnly(items)
  PROVE  t \in Seq(V) /\ ToSet(t) = ToSet(items) /\ (Ordered(items) => Ordered(t))
<1> DEFINE places == {i \in DOMAIN items : \A j \in 1..(i - 1) : items[j] # items[i]}
<1>1. t = AtPlaces(items, places)
  BY DEF FirstOnly
<1>2. places \in SUBSET (DOMAIN items)
  OBVIOUS
<1>3. ASSUME NEW i \in DOMAIN items
      PROVE  \E h \in places : items[h] = items[i] /\ h <= i
  <2> DEFINE same == {j \in DOMAIN items : items[j] = items[i]}
  <2>1. same \subseteq Nat /\ i \in same
    OBVIOUS
  <2>2. PICK h \in same : \A m \in same : h <= m
    BY <2>1, Least
  <2>3. \A j \in 1..(h - 1) : j \in DOMAIN items /\ ~(h <= j)
    BY <2>1
  <2>4. h \in places
    BY <2>2, <2>3
  <2> QED
    BY <2>1, <2>2, <2>4
<1> HIDE DEF places
<1>4. /\ t \in Seq(V)
      /\ \A i \in places : \E j \in DOMAIN t : t[j] = items[i]
      /\ \A j \in DOMAIN t : \E i \in places :
            /\ t[j] = items[i]
            /\ \A h \in places : h < i => \E k \in 1..(j - 1) : t[k] = items[h]
  <2>1. t \in Seq(V) /\ Lists(t, items, places)
    BY <1>1, <1>2, AtPlacesLists
  <2> QED
    BY <2>1 DEF Lists
<1>5. ToSet(t) = ToSet(items)
  <2>1. \A j \in DOMAIN t : \E i \in DOMAIN items : t[j] = items[i]
    BY <1>2, <1>4
  <2>2. \A i \in DOMAIN items : \E j \in DOMAIN t : t[j] = items[i]
    BY <1>3, <1>4
  <2> QED
    BY <2>1, <2>2 DEF ToSet
<1>6. ASSUME Ordered(items), NEW j \in DOMAIN t, file[t[j]].parent \in ToSet(items)
      PROVE  \E k \in 1..(j - 1) : t[k] = file[t[j]].parent
  <2>1. PICK i \in places :
            /\ t[j] = items[i]
            /\ \A h \in places : h < i => \E k \in 1..(j - 1) : t[k] = items[h]
    BY <1>4
  <2>2. i \in DOMAIN items /\ file[items[i]].parent \in ToSet(items)
    BY <1>2, <1>6, <2>1
  <2>3. PICK m \in 1..(i - 1) : items[m] = file[items[i]].parent
    BY <1>6, <2>2 DEF Ordered, Follows
  <2>4. m \in DOMAIN items /\ i \in Nat /\ m \in Nat /\ m < i
    BY <2>2
  <2>5. PICK h \in places : items[h] = items[m] /\ h <= m
    BY <1>3, <2>4
  <2>6. h \in Nat /\ h < i
    BY <1>2, <2>4, <2>5
  <2> QED
    BY <2>1, <2>3, <2>5, <2>6
<1> QED
  BY <1>4, <1>5, <1>6 DEF Ordered, Follows

\* orderByParentChain keeps what is in a list, and its order is right if that of the
\* list was, also for what no root leads to.
LEMMA OrderFacts ==
  ASSUME FileOK, NEW M \in SUBSET Lines, NEW items \in Seq(M), Ordered(items), NEW t,
         t = OrderByParentChain(file, items)
  PROVE  t \in Seq(M) /\ ToSet(t) = ToSet(items) /\ Ordered(t)
<1>1. CASE ~NeedsReorder(file, items)
  BY <1>1 DEF OrderByParentChain
<1>2. CASE NeedsReorder(file, items)
  <2> DEFINE I == ToSet(items)
             s == Reached(file, items)
             places == {i \in DOMAIN items : items[i] \notin ToSet(s)}
             rest == AtPlaces(items, places)
  <2>1. t = s \o rest
    BY <1>2 DEF OrderByParentChain
  <2>2. I \in SUBSET Lines /\ items \in Seq(I) /\ I \in SUBSET M
    BY DEF ToSet
  <2>3. s \in Seq(I) /\ Hangs(s, None)
    BY <2>2, ReachedFacts
  <2>4. places \in SUBSET (DOMAIN items)
    OBVIOUS
  <2>15. rest = AtPlaces(items, places)
    OBVIOUS
  <2> HIDE DEF places, rest
  <2>5. /\ rest \in Seq(I)
        /\ \A i \in places : \E j \in DOMAIN rest : rest[j] = items[i]
        /\ \A j \in DOMAIN rest : \E i \in places :
              /\ rest[j] = items[i]
              /\ \A h \in places : h < i => \E k \in 1..(j - 1) : rest[k] = items[h]
    <3>1. items \in Seq(I)
      BY <2>2
    <3> HIDE DEF I
    <3>2. rest \in Seq(I) /\ Lists(rest, items, places)
      BY <2>4, <2>15, <3>1, AtPlacesLists
    <3> QED
      BY <3>2 DEF Lists
  <2>6. \A i \in DOMAIN items : i \in places \/ \E j \in DOMAIN s : s[j] = items[i]
    BY DEF ToSet, places
  <2> HIDE DEF s
  <2> DEFINE k == Len(s)
  <2>7. /\ t \in Seq(I) /\ DOMAIN t = 1..(k + Len(rest))
        /\ \A i \in 1..k : t[i] = s[i]
        /\ \A i \in 1..Len(rest) : t[k + i] = rest[i]
    BY <2>1, <2>3, <2>5, Joined
  <2>8. k \in Nat /\ DOMAIN s = 1..k /\ Len(rest) \in Nat /\ DOMAIN rest = 1..Len(rest)
    BY <2>3, <2>5
  <2> HIDE DEF k
  <2>9. ASSUME NEW i \in DOMAIN s PROVE i \in DOMAIN t /\ t[i] = s[i]
    BY <2>7, <2>8
  <2>10. ASSUME NEW i \in DOMAIN rest PROVE k + i \in DOMAIN t /\ t[k + i] = rest[i]
    BY <2>7, <2>8
  <2>11. \A i \in DOMAIN items : \E j \in DOMAIN t : t[j] = items[i]
    <3> SUFFICES ASSUME NEW i \in DOMAIN items PROVE \E j \in DOMAIN t : t[j] = items[i]
      OBVIOUS
    <3>1. CASE i \in places
      BY <2>5, <2>10, <3>1
    <3>2. CASE \E j \in DOMAIN s : s[j] = items[i]
      BY <2>9, <3>2
    <3> QED
      BY <2>6, <3>1, <3>2
  <2>12. ToSet(t) = I
    <3>1. I \subseteq ToSet(t)
      BY <2>11 DEF ToSet
    <3>2. \A i \in DOMAIN t : t[i] \in I
      <4>1. t \in Seq(I)
        BY <2>7
      <4> HIDE DEF I
      <4> QED
        BY <4>1
    <3>3. ToSet(t) \subseteq I
      BY <3>2 DEF ToSet
    <3> QED
      BY <3>1, <3>3
  <2>13. ASSUME NEW j \in DOMAIN t, file[t[j]].parent \in I
         PROVE  \E i \in 1..(j - 1) : t[i] = file[t[j]].parent
    <3>1. CASE j \in DOMAIN s
      <4>1. t[j] = s[j] /\ j \in 1..k
        BY <2>8, <2>9, <3>1
      <4>2. file[s[j]].parent # None
        BY <2>2, <2>13, <4>1, LineFacts DEF None
      <4>3. PICK i \in 1..(j - 1) : s[i] = file[s[j]].parent
        BY <2>3, <3>1, <4>2 DEF Hangs
      <4>4. i \in DOMAIN s
        BY <2>8, <4>1
      <4> QED
        BY <2>9, <4>1, <4>3, <4>4
    <3>2. CASE j \notin DOMAIN s
      <4> DEFINE q == j - k
      <4>1. j \in 1..(k + Len(rest)) /\ ~(j \in 1..k)
        BY <2>7, <2>8, <3>2
      <4>2. q \in DOMAIN rest /\ k + q = j
        BY <2>8, <4>1
      <4> HIDE DEF q
      <4>3. PICK i \in places :
                /\ rest[q] = items[i]
                /\ \A h \in places : h < i => \E l \in 1..(q - 1) : rest[l] = items[h]
        BY <2>5, <4>2
      <4>4. t[j] = items[i] /\ i \in DOMAIN items
        BY <2>4, <2>10, <4>2, <4>3
      <4>5. PICK m \in 1..(i - 1) : items[m] = file[items[i]].parent
        BY <2>13, <4>4 DEF Ordered, Follows
      <4>6. m \in DOMAIN items /\ m < i
        BY <4>4
      <4>7. CASE m \in places
        <5>1. PICK l \in 1..(q - 1) : rest[l] = items[m]
          BY <4>3, <4>6, <4>7
        <5>2. l \in DOMAIN rest /\ k + l \in 1..(j - 1)
          BY <2>8, <4>2
        <5> QED
          BY <2>10, <4>4, <4>5, <5>1, <5>2
      <4>8. CASE \E l \in DOMAIN s : s[l] = items[m]
        <5>1. PICK l \in DOMAIN s : s[l] = items[m]
          BY <4>8
        <5>2. l \in 1..(j - 1)
          BY <2>8, <4>1
        <5> QED
          BY <2>9, <4>4, <4>5, <5>1, <5>2
      <4> QED
        BY <2>6, <4>6, <4>7, <4>8
    <3> QED
      BY <3>1, <3>2
  <2>14. t \in Seq(M)
    BY <2>2, <2>7
  <2> QED
    BY <2>12, <2>13, <2>14 DEF Ordered, Follows
<1> QED
  BY <1>1, <1>2

\* A list whose parts follow what came before them is in order.
LEMMA JoinOrdered ==
  ASSUME FileOK, NEW a \in Seq(Lines), NEW b \in Seq(Lines), NEW ms, NEW t, t = a \o b,
         Follows(a, ToSet(a) \cup ToSet(b)), Follows(b, ms), ToSet(b) \subseteq ms
  PROVE  t \in Seq(Lines) /\ ToSet(t) = ToSet(a) \cup ToSet(b) /\ Ordered(t)
<1> DEFINE k == Len(a)
           I == ToSet(a) \cup ToSet(b)
<1>1. /\ t \in Seq(Lines) /\ DOMAIN t = 1..(k + Len(b))
      /\ \A i \in 1..k : t[i] = a[i]
      /\ \A i \in 1..Len(b) : t[k + i] = b[i]
  BY Joined
<1>2. k \in Nat /\ DOMAIN a = 1..k /\ Len(b) \in Nat /\ DOMAIN b = 1..Len(b)
  OBVIOUS
<1> HIDE DEF k
<1>3. ASSUME NEW i \in DOMAIN a PROVE i \in DOMAIN t /\ t[i] = a[i]
  BY <1>1, <1>2
<1>4. ASSUME NEW i \in DOMAIN b PROVE k + i \in DOMAIN t /\ t[k + i] = b[i]
  BY <1>1, <1>2
<1>5. ASSUME NEW j \in DOMAIN t
      PROVE  \/ j \in DOMAIN a /\ t[j] = a[j]
             \/ \E q \in DOMAIN b : k + q = j /\ t[j] = b[q]
  <2>1. CASE j \in 1..k
    BY <1>1, <1>2, <2>1
  <2>2. CASE j \notin 1..k
    <3> DEFINE q == j - k
    <3>1. j \in 1..(k + Len(b))
      BY <1>1
    <3>2. q \in DOMAIN b /\ k + q = j
      BY <1>2, <2>2, <3>1
    <3> HIDE DEF q
    <3> QED
      BY <1>4, <3>2
  <2> QED
    BY <2>1, <2>2
<1>6. ToSet(t) = I
  <2>1. \A j \in DOMAIN t : t[j] \in I
    BY <1>5 DEF ToSet
  <2>2. \A i \in DOMAIN a : \E j \in DOMAIN t : t[j] = a[i]
    BY <1>3
  <2>3. \A i \in DOMAIN b : \E j \in DOMAIN t : t[j] = b[i]
    BY <1>4
  <2>4. \A n \in I : \E j \in DOMAIN t : t[j] = n
    BY <2>2, <2>3 DEF ToSet
  <2> HIDE DEF I
  <2> QED
    BY <2>1, <2>4 DEF ToSet
<1>7. ASSUME NEW j \in DOMAIN t, file[t[j]].parent \in I
      PROVE  \E i \in 1..(j - 1) : t[i] = file[t[j]].parent
  <2>1. CASE j \in DOMAIN a /\ t[j] = a[j]
    <3>1. PICK i \in 1..(j - 1) : a[i] = file[a[j]].parent
      BY <1>7, <2>1 DEF Follows
    <3>2. i \in DOMAIN a
      BY <1>2, <2>1
    <3> QED
      BY <1>3, <2>1, <3>1, <3>2
  <2>2. CASE \E q \in DOMAIN b : k + q = j /\ t[j] = b[q]
    <3>1. PICK q \in DOMAIN b : k + q = j /\ t[j] = b[q]
      BY <2>2
    <3>2. CASE file[t[j]].parent \in ms
      <4>1. PICK i \in 1..(q - 1) : b[i] = file[b[q]].parent
        BY <3>1, <3>2 DEF Follows
      <4>2. i \in DOMAIN b /\ k + i \in 1..(j - 1)
        BY <1>2, <3>1
      <4> QED
        BY <1>4, <3>1, <4>1, <4>2
    <3>3. CASE file[t[j]].parent \notin ms
      <4>1. PICK i \in DOMAIN a : a[i] = file[t[j]].parent
        BY <1>7, <3>3 DEF ToSet
      <4>2. i \in 1..(j - 1)
        BY <1>2, <3>1
      <4> QED
        BY <1>3, <4>1, <4>2
    <3> QED
      BY <3>2, <3>3
  <2> QED
    BY <1>5, <2>1, <2>2
<1> QED
  BY <1>1, <1>6, <1>7 DEF Ordered, Follows

\* If the last line is the latest it is the active tip of every part that has it.
LEMMA LatestIsTip ==
  ASSUME FileOK, Latest(Len(file)), NEW ms \in SUBSET Lines, Len(file) \in ms
  PROVE  ActiveTip(file, ms) = Len(file)
<1> DEFINE N == Len(file)
           t == ActiveTip(file, ms)
<1>1. t \in Tips(file, ms) /\ \A u \in Tips(file, ms) \ {t} : Beats(ms, t, u)
  BY TipIsLine
<1>2. N \in Tips(file, ms)
  <2>1. \A m \in ms : file[m].parent # N
    BY LineFacts
  <2> QED
    BY <2>1 DEF Tips, ChildrenOf
<1> HIDE DEF t
<1> SUFFICES ASSUME t # N PROVE FALSE
  BY DEF t
<1>3. Beats(ms, t, N) /\ t \in Lines
  BY <1>1, <1>2 DEF Tips
<1>4. file[t].time < file[N].time
  BY <1>3 DEF Latest
<1>5. file[t].time \in Nat /\ file[N].time \in Nat
  BY <1>3, LineFacts
<1> QED
  BY <1>3, <1>4, <1>5 DEF Beats

\* Whenever a client loads and fetches, the parts are put together in order.
LEMMA MergesInOrder ==
  ASSUME FileOK PROVE MergeInOrder
<1> SUFFICES ASSUME NEW k \in Lines
             PROVE  /\ ParentsFirst(Fetched(Loaded(k)))
                    /\ ToSet(Loaded(k)) \subseteq ToSet(Fetched(Loaded(k)))
                    /\ Latest(Len(file)) => Len(file) \in ToSet(Fetched(Loaded(k)))
  BY DEF MergeInOrder
<1> DEFINE N == Len(file)
           a == Loaded(k)
           ms == (Last(a) + 1)..N
           b == Normalized(file, ms)
           joined == a \o b
           items == FirstOnly(joined)
           shown == Fetched(a)
<1>1. 1..k \in SUBSET Lines /\ k \in Nat /\ k # 0 /\ k \in 1..k
  BY LineFacts
<1>2. /\ a \in Seq(1..k) /\ Follows(a, 1..k)
      /\ \A i \in DOMAIN ActiveBranch(file, 1..k) :
            \E j \in DOMAIN a : a[j] = ActiveBranch(file, 1..k)[i]
  BY <1>1, AnswerFacts DEF Loaded
<1>3. a # <<>>
  <2> DEFINE c == ActiveBranch(file, 1..k)
  <2>1. c \in Seq(1..k) /\ c # <<>>
    BY <1>1, BranchFacts
  <2>2. 1 \in DOMAIN c
    <3> HIDE DEF c
    <3> QED
      BY <2>1
  <2>3. \E j \in DOMAIN a : TRUE
    BY <1>2, <2>2
  <2> HIDE DEF a
  <2> QED
    BY <1>2, <2>3
<1> HIDE DEF a
<1>4. a \in Seq(Lines) /\ Last(a) \in Lines /\ Last(a) \in ToSet(a)
  <2>1. a \in Seq(Lines)
    BY <1>1, <1>2
  <2>2. Len(a) \in DOMAIN a /\ Last(a) = a[Len(a)]
    BY <1>3, <2>1 DEF Last
  <2> QED
    BY <2>1, <2>2 DEF ToSet
<1>5. ms \in SUBSET Lines
  BY <1>4, LineFacts
<1>6. /\ b \in Seq(ms) /\ Follows(b, ms)
      /\ \A i \in DOMAIN ActiveBranch(file, ms) :
            \E j \in DOMAIN b : b[j] = ActiveBranch(file, ms)[i]
  <2>1. b = Normalized(file, ms)
    OBVIOUS
  <2> HIDE DEF b, ms
  <2> QED
    BY <1>5, <2>1, AnswerFacts
<1>13. shown = OrderByParentChain(file, items)
  BY DEF Fetched, MergeJSONL
<1> HIDE DEF b, ms
<1>7. b \in Seq(Lines) /\ ToSet(b) \subseteq ms
  BY <1>5, <1>6 DEF ToSet
<1>8. Follows(a, ToSet(a) \cup ToSet(b))
  <2>1. ToSet(a) \cup ToSet(b) \subseteq Lines
    BY <1>4, <1>7 DEF ToSet
  <2>2. ASSUME NEW j \in DOMAIN a, file[a[j]].parent \in Lines
        PROVE  \E i \in 1..(j - 1) : a[i] = file[a[j]].parent
    <3>1. a[j] \in 1..k /\ a[j] \in Lines
      <4> DEFINE K == 1..k
      <4>1. a \in Seq(K) /\ a \in Seq(Lines)
        BY <1>2, <1>4
      <4> HIDE DEF K
      <4>2. a[j] \in K /\ a[j] \in Lines
        BY <2>2, <4>1
      <4> QED
        BY <4>2 DEF K
    <3>2. file[a[j]].parent \in 1..k
      BY <1>1, <2>2, <3>1, LineFacts
    <3> QED
      BY <1>2, <3>2 DEF Follows
  <2> QED
    BY <2>1, <2>2 DEF Follows
<1>9. joined \in Seq(Lines) /\ ToSet(joined) = ToSet(a) \cup ToSet(b) /\ Ordered(joined)
  BY <1>4, <1>6, <1>7, <1>8, JoinOrdered
<1> HIDE DEF joined
<1>10. items \in Seq(Lines) /\ ToSet(items) = ToSet(joined) /\ Ordered(items)
  BY <1>9, FirstOnlyFacts
<1> HIDE DEF items, shown
<1>11. shown \in Seq(Lines) /\ ToSet(shown) = ToSet(items) /\ Ordered(shown)
  BY <1>10, <1>13, OrderFacts
<1>12. ASSUME Latest(N) PROVE N \in ToSet(shown)
  <2>1. CASE Last(a) = N
    BY <1>4, <1>9, <1>10, <1>11, <2>1
  <2>2. CASE Last(a) # N
    <3> DEFINE c == ActiveBranch(file, ms)
    <3>1. N \in ms
      BY <1>4, <2>2, LineFacts DEF ms
    <3>2. c \in Seq(ms) /\ c # <<>> /\ c[Len(c)] = ActiveTip(file, ms)
      BY <1>5, <3>1, BranchFacts
    <3>3. ActiveTip(file, ms) = N
      BY <1>5, <1>12, <3>1, LatestIsTip
    <3>4. Len(c) \in DOMAIN c
      <4> HIDE DEF c
      <4> QED
        BY <3>2
    <3>5. PICK j \in DOMAIN b : b[j] = N
      BY <1>6, <3>2, <3>3, <3>4
    <3>6. N \in ToSet(b)
      BY <3>5 DEF ToSet
    <3> QED
      BY <1>9, <1>10, <1>11, <3>6
  <2> QED
    BY <2>1, <2>2
<1>14. ParentsFirst(shown)
  BY <1>11, OrderedIsParentsFirst
<1>15. ToSet(a) \subseteq ToSet(shown)
  BY <1>9, <1>10, <1>11
<1> QED
  BY <1>12, <1>14, <1>15 DEF a, shown

-----------------------------------------------------------------------------
(* The inductive invariant                                                 *)

\* The first line of a session continues none.
LEMMA FileOKInit == ASSUME Init PROVE FileOK
<1>1. file \in Seq(LineOK) /\ Len(file) = 1 /\ DOMAIN file = 1..1
      /\ file[1] = [parent |-> None, logical |-> None, kind |-> "text", tool |-> None, time |-> 0]
  BY DEF Init, LineOK, None
<1>2. 1 \in 1..MaxLines
  BY ViewAssumption
<1>3. \A n \in Lines : n = 1
  BY <1>1 DEF Lines
<1> QED
  BY <1>1, <1>2, <1>3 DEF FileOK, Lines, None

\* Any line that may come next continues a line there is.
LEMMA NextLineOK ==
  ASSUME FileOK, NEW line \in NextLines
  PROVE  /\ line \in LineOK
         /\ line.parent <= Len(file)
         /\ line.logical = Elsewhere \/ line.logical <= Len(file)
         /\ line.kind = "result" => line.parent # None /\ line.tool = line.parent
<1> DEFINE last  == Len(file)
           calls == {n \in Lines : file[n].kind = "use"}
           open  == {n \in calls : \A r \in Results(file, Lines) : file[r].tool # n}
           forms == {<<p, None, "text", None>> : p \in Lines \ calls}
                    \cup {<<p, None, "use", None>> : p \in (Lines \ calls) \cup (open \cap {last})}
                    \cup {<<t, None, "result", t>> : t \in open}
                    \cup {<<None, l, "boundary", None>> : l \in {Elsewhere, last}}
<1>1. calls \subseteq Lines /\ open \subseteq Lines
  OBVIOUS
<1> HIDE DEF calls, open
<1>2. PICK f \in forms, d \in Delays :
         line = [parent |-> f[1], logical |-> f[2], kind |-> f[3], tool |-> f[4],
                 time |-> file[last].time + d]
  BY DEF NextLines, calls, open
<1>3. /\ line.parent = f[1] /\ line.logical = f[2] /\ line.kind = f[3] /\ line.tool = f[4]
      /\ line.time = file[last].time + d
  BY <1>2
<1>4. last \in Nat /\ last \in Lines /\ file[last].time \in Nat /\ d \in Nat
  <2>1. last \in Lines
    BY LineFacts DEF FileOK
  <2> QED
    BY <2>1, LineFacts, ViewAssumption
<1>5. \A p \in Lines : p \in Nat /\ p <= last /\ p # None
  BY LineFacts DEF None
<1>6. /\ f[1] \in Nat /\ f[1] <= last /\ f[4] \in Nat
      /\ f[2] = Elsewhere \/ (f[2] \in Nat /\ f[2] <= last)
      /\ f[3] \in {"text", "use", "result", "boundary"}
      /\ f[3] = "result" => f[1] # None /\ f[4] = f[1]
  <2> HIDE DEF last
  <2>0. None = 0 /\ None \in Nat /\ None <= last
    BY <1>4 DEF None
  <2>1. CASE f \in {<<p, None, "text", None>> : p \in Lines \ calls}
    BY <1>5, <2>0, <2>1
  <2>2. CASE f \in {<<p, None, "use", None>> : p \in (Lines \ calls) \cup (open \cap {last})}
    BY <1>1, <1>5, <2>0, <2>2
  <2>3. CASE f \in {<<t, None, "result", t>> : t \in open}
    BY <1>1, <1>5, <2>0, <2>3
  <2>4. CASE f \in {<<None, l, "boundary", None>> : l \in {Elsewhere, last}}
    BY <1>4, <2>0, <2>4
  <2> QED
    BY <2>1, <2>2, <2>3, <2>4
<1>7. line.time \in Nat
  BY <1>3, <1>4
<1>8. line \in LineOK
  BY <1>2, <1>3, <1>6, <1>7 DEF LineOK
<1> QED
  BY <1>3, <1>6, <1>8

\* The program that works on the session appends.
LEMMA FileOKWrites ==
  ASSUME FileOK, NEW line \in NextLines, Writes(line)
  PROVE  FileOK'
<1> DEFINE N == Len(file)
<1>1. /\ line \in LineOK /\ line.parent <= N
      /\ line.logical = Elsewhere \/ line.logical <= N
      /\ line.kind = "result" => line.parent # None /\ line.tool = line.parent
  BY NextLineOK
<1>2. file \in Seq(LineOK) /\ N \in Nat /\ N < MaxLines /\ Lines = 1..N /\ MaxLines \in Nat
  BY LineFacts, ViewAssumption DEF FileOK, Writes
<1>3. /\ file' \in Seq(LineOK) /\ Len(file') = N + 1 /\ DOMAIN file' = 1..(N + 1)
      /\ \A n \in 1..N : file'[n] = file[n]
      /\ file'[N + 1] = line
  BY <1>1, <1>2 DEF Writes
<1>4. ASSUME NEW n \in 1..(N + 1)
      PROVE  /\ file'[n].parent < n
             /\ file'[n].logical = Elsewhere \/ file'[n].logical < n
             /\ file'[n].kind = "result" => file'[n].parent # None /\ file'[n].tool = file'[n].parent
  <2>1. CASE n \in 1..N
    <3>1. n \in Lines /\ file'[n] = file[n]
      BY <1>2, <1>3, <2>1
    <3> QED
      BY <3>1 DEF FileOK
  <2>2. CASE n = N + 1
    <3>1. line.parent \in Nat /\ line.logical \in Nat \cup {Elsewhere}
      BY <1>1 DEF LineOK
    <3>2. file'[n] = line
      BY <1>3, <2>2
    <3>3. line.parent < n /\ (line.logical = Elsewhere \/ line.logical < n)
      BY <1>1, <1>2, <2>2, <3>1
    <3> QED
      BY <1>1, <3>2, <3>3
  <2> QED
    BY <1>2, <2>1, <2>2
<1>5. Len(file') \in 1..MaxLines
  BY <1>2, <1>3
<1>6. Lines' = 1..(N + 1)
  BY <1>3 DEF Lines
<1> QED
  BY <1>3, <1>4, <1>5, <1>6 DEF FileOK

\* The client and the server leave the file alone.
LEMMA FileOKKept == ASSUME FileOK, UNCHANGED file PROVE FileOK'
BY DEF FileOK, Lines

\* So every step keeps FileOK.
LEMMA FileOKNext == ASSUME FileOK, [Next]_vars PROVE FileOK'
<1>1. CASE \E line \in NextLines : Writes(line)
  BY <1>1, FileOKWrites
<1>2. CASE \E i \in Served : Reads(i) \/ LoadAnswered(i) \/ FetchAnswered(i) \/ RequestFails(i)
  BY <1>2, FileOKKept DEF Reads, LoadAnswered, FetchAnswered, RequestFails
<1>3. CASE Attaches \/ ChecksFile \/ Reports
  BY <1>3, FileOKKept DEF Attaches, ChecksFile, Reports
<1>4. CASE \E w \in Watchers : NoticeArrives(w)
  BY <1>4, FileOKKept DEF NoticeArrives
<1>5. CASE ThrottleEnds \/ Renders
  BY <1>5, FileOKKept DEF ThrottleEnds, Renders
<1>6. CASE ConnectionLost \/ ConnectionRestored
  BY <1>6, FileOKKept DEF ConnectionLost, ConnectionRestored
<1>7. CASE UNCHANGED vars
  BY <1>7, FileOKKept DEF vars
<1> QED
  BY <1>1, <1>2, <1>3, <1>4, <1>5, <1>6, <1>7 DEF Next

\* In every file the program may write a line continues an earlier one, and a result
\* its call (the session file, appended to).
THEOREM FileAlwaysOK == Spec => []FileOK
<1>1. Init => FileOK
  BY FileOKInit
<1>2. FileOK /\ [Next]_vars => FileOK'
  BY FileOKNext
<1> QED
  BY <1>1, <1>2, PTL DEF Spec

\* So it is when only the program acts.
THEOREM WrittenAlwaysOK == FileSpec => []FileOK
<1>1. Init => FileOK
  BY FileOKInit
<1>2. FileOK /\ [\E line \in NextLines : Writes(line)]_vars => FileOK'
  BY FileOKWrites, FileOKKept DEF vars
<1> QED
  BY <1>1, <1>2, PTL DEF FileSpec

-----------------------------------------------------------------------------
(* Results                                                                 *)

\* A load of the whole session brings the result of every tool call on its active
\* branch (normalizeSession, findSiblingToolResults), of any file the program writes.
THEOREM ResultsAlwaysLoaded == Spec => []ResultsLoaded
<1>1. FileOK => ResultsLoaded
  BY ResultsAreLoaded
<1> QED
  BY <1>1, FileAlwaysOK, PTL

\* Whoever loads any part of a session and then fetches shows parents before children,
\* all he showed before, and the latest line (mergeJSONLMessages, orderByParentChain).
THEOREM AlwaysMergedInOrder == Spec => []MergeInOrder
<1>1. FileOK => MergeInOrder
  BY MergesInOrder
<1> QED
  BY <1>1, FileAlwaysOK, PTL

\* Both hold of the files of the program alone, which is what TLC enumerates.
THEOREM WrittenAlwaysLoaded == FileSpec => [](ResultsLoaded /\ MergeInOrder)
<1>1. FileOK => ResultsLoaded /\ MergeInOrder
  BY ResultsAreLoaded, MergesInOrder
<1> QED
  BY <1>1, WrittenAlwaysOK, PTL
==============================================================================
