------------------------------ MODULE FoldLemmas ------------------------------
(***************************************************************************)
(* Induction over the natural numbers, stated with a set, and what it      *)
(* gives for FoldLeft, which Codec and Messaging use for the loops of the  *)
(* code that go through a text: the values of the accumulator, one after   *)
(* the other.                                                              *)
(***************************************************************************)
EXTENDS Integers, Sequences, SequencesExt, FiniteSetTheorems, TLAPS

\* A set of natural numbers has a least member.
LEMMA LeastNat ==
  ASSUME NEW T \in SUBSET Nat, T # {}
  PROVE  \E x \in T : \A y \in T : x <= y
<1>1. PICK t \in T : TRUE
  OBVIOUS
<1> DEFINE S == 0 .. t
           F == {0 .. y : y \in {z \in T : z <= t}}
<1>2. IsFiniteSet(S)
  BY <1>1, FS_Interval
<1>3. IsWellFoundedOn(StrictSubsetOrdering(S), SUBSET S)
  BY <1>2, FS_StrictSubsetOrderingWellFounded, FS_FiniteSubsetsOfFinite
<1>4. F \subseteq SUBSET S /\ F # {}
  <2>1. t \in {z \in T : z <= t}
    BY <1>1
  <2>2. \A y \in {z \in T : z <= t} : 0 .. y \in SUBSET S
    BY <1>1
  <2> QED
    BY <2>1, <2>2
<1> HIDE DEF F, S
<1>5. PICK I \in F : \A J \in F : ~ (<<J, I>> \in StrictSubsetOrdering(S))
  BY <1>3, <1>4, WFMin
<1>6. PICK x \in T : x <= t /\ I = 0 .. x
  BY <1>5 DEF F
<1>7. ASSUME NEW y \in T, ~ (x <= y) PROVE FALSE
  <2>1. y \in Nat /\ x \in Nat /\ t \in Nat /\ y < x /\ y <= t
    BY <1>1, <1>6, <1>7
  <2>2. 0 .. y \in F
    BY <2>1 DEF F
  <2>3. 0 .. y \subseteq 0 .. x /\ 0 .. y # 0 .. x
    <3>1. x \in 0 .. x /\ x \notin 0 .. y
      BY <2>1
    <3> QED
      BY <2>1, <3>1
  <2>4. <<0 .. y, I>> \in StrictSubsetOrdering(S)
    BY <1>4, <1>5, <1>6, <2>2, <2>3 DEF StrictSubsetOrdering
  <2> QED
    BY <1>5, <2>2, <2>4
<1> QED
  BY <1>7

\* Induction: a set that has 0 and, with each number below n, its successor, has
\* every number up to n.
Inductive(P, n) == 0 \in P /\ \A k \in 0 .. n : k < n /\ k \in P => k + 1 \in P

LEMMA UpTo ==
  ASSUME NEW n \in Nat, NEW P, Inductive(P, n)
  PROVE  n \in P /\ \A k \in 0 .. n : k \in P
<1> USE DEF Inductive
<1> DEFINE T == {k \in 0 .. n : k \notin P}
<1> SUFFICES ASSUME T # {} PROVE FALSE
  <2>1. n \in 0 .. n
    OBVIOUS
  <2> QED
    BY <2>1
<1>1. PICK x \in T : \A y \in T : x <= y
  <2>1. T \in SUBSET Nat
    OBVIOUS
  <2> HIDE DEF T
  <2> QED
    BY <2>1, LeastNat
<1>2. x # 0
  OBVIOUS
<1>3. x - 1 \in 0 .. n /\ x - 1 < n /\ x - 1 \notin T /\ (x - 1) + 1 = x
  BY <1>1, <1>2
<1> QED
  BY <1>3

\* The greatest number of a set, as FoldLeft takes it.
LEMMA MaxTop ==
  ASSUME NEW k \in Nat, NEW s \in SUBSET (1 .. k + 1), k + 1 \in s
  PROVE  Max(s) = k + 1
<1>1. \A y \in s : y \in Int /\ k + 1 >= y
  OBVIOUS
<1>2. Max(s) \in s /\ \A y \in s : Max(s) >= y
  BY <1>1 DEF Max
<1>3. Max(s) \in Int /\ k + 1 >= Max(s) /\ Max(s) >= k + 1
  BY <1>1, <1>2
<1> HIDE DEF Max
<1> QED
  BY <1>3

LEMMA MaxIn ==
  ASSUME NEW n \in Nat, NEW s \in SUBSET (1 .. n), s # {}
  PROVE  Max(s) \in s
<1> DEFINE T == {n - x : x \in s}
<1>1. T \in SUBSET Nat /\ T # {}
  <2>1. \A x \in s : n - x \in Nat
    OBVIOUS
  <2> QED
    BY <2>1
<1>2. PICK y \in T : \A z \in T : y <= z
  <2> HIDE DEF T
  <2> QED
    BY <1>1, LeastNat
<1>3. PICK x \in s : y = n - x
  BY <1>2
<1>4. \A z \in s : x >= z
  <2> TAKE z \in s
  <2>1. y <= n - z
    BY <1>2
  <2> QED
    BY <1>3, <2>1
<1> QED
  BY <1>3, <1>4 DEF Max

LEMMA MinIn ==
  ASSUME NEW T \in SUBSET Nat, T # {}
  PROVE  Min(T) \in T /\ \A x \in T : Min(T) <= x
<1>1. PICK x \in T : \A y \in T : x <= y
  BY LeastNat
<1> QED
  BY <1>1 DEF Min

\* The function that a fold of g over the positions 1 .. n defines, from base, and
\* the accumulators h[0] .. h[n] it goes through.
IsFold(n, base, g, f, h) ==
  /\ \A s \in SUBSET (1 .. n) :
       f[s] = IF s = {} THEN base ELSE g[<<Max(s), f[s \ {Max(s)}]>>]
  /\ h[0] = base
  /\ \A k \in 1 .. n : h[k] = g[<<k, h[k - 1]>>]
  /\ f[1 .. n] = h[n]

LEMMA FoldExists ==
  ASSUME NEW n \in Nat, NEW V, NEW base \in V, NEW g \in [(1 .. n) \X V -> V]
  PROVE  \E f \in [SUBSET (1 .. n) -> V], h \in [0 .. n -> V] : IsFold(n, base, g, f, h)
<1> DEFINE
     Q(k, f, h) ==
       /\ \A s \in SUBSET (1 .. k) :
            f[s] = IF s = {} THEN base ELSE g[<<Max(s), f[s \ {Max(s)}]>>]
       /\ h[0] = base
       /\ \A j \in 1 .. k : h[j] = g[<<j, h[j - 1]>>]
       /\ f[1 .. k] = h[k]
     P == {k \in 0 .. n : \E f \in [SUBSET (1 .. k) -> V], h \in [0 .. k -> V] : Q(k, f, h)}
<1>1. 0 \in P
  <2> DEFINE f == [s \in SUBSET (1 .. 0) |-> base]
             h == [k \in 0 .. 0 |-> base]
  <2>1. 1 .. 0 = {} /\ SUBSET (1 .. 0) = {{}}
    OBVIOUS
  <2>2. f \in [SUBSET (1 .. 0) -> V] /\ h \in [0 .. 0 -> V]
    OBVIOUS
  <2>3. f[{}] = base /\ f[1 .. 0] = base /\ h[0] = base
    BY <2>1
  <2>4. Q(0, f, h)
    <3> HIDE DEF f, h
    <3> QED
      BY <2>1, <2>3
  <2> QED
    <3>1. 0 \in 0 .. n
      OBVIOUS
    <3> HIDE DEF f, h, Q
    <3> QED
      BY <2>2, <2>4, <3>1
<1>2. ASSUME NEW k \in 0 .. n, k < n, k \in P PROVE k + 1 \in P
  <2>1. PICK f \in [SUBSET (1 .. k) -> V], h \in [0 .. k -> V] : Q(k, f, h)
    BY <1>2
  <2> DEFINE f1 == [s \in SUBSET (1 .. k + 1) |->
                      IF k + 1 \in s THEN g[<<k + 1, f[s \ {k + 1}]>>] ELSE f[s]]
             h1 == [j \in 0 .. k + 1 |-> IF j = k + 1 THEN g[<<k + 1, h[k]>>] ELSE h[j]]
  <2>2. k + 1 \in 1 .. n /\ k \in Nat
    BY <1>2
  <2>3. \A s \in SUBSET (1 .. k + 1) :
          /\ s \ {k + 1} \in SUBSET (1 .. k)
          /\ k + 1 \notin s => s \in SUBSET (1 .. k)
    BY <2>2
  <2>4. f1 \in [SUBSET (1 .. k + 1) -> V]
    <3>1. \A v \in V : g[<<k + 1, v>>] \in V
      BY <2>2
    <3>2. \A s \in SUBSET (1 .. k + 1) : k + 1 \in s => f[s \ {k + 1}] \in V
      BY <2>3
    <3>3. \A s \in SUBSET (1 .. k + 1) : k + 1 \notin s => f[s] \in V
      BY <2>3
    <3> QED
      BY <3>1, <3>2, <3>3
  <2>5. h1 \in [0 .. k + 1 -> V]
    <3>1. g[<<k + 1, h[k]>>] \in V
      BY <2>2
    <3>2. \A j \in 0 .. k + 1 : j # k + 1 => h[j] \in V
      BY <2>2
    <3> QED
      BY <3>1, <3>2
  <2>6. ASSUME NEW s \in SUBSET (1 .. k + 1)
        PROVE  f1[s] = IF s = {} THEN base ELSE g[<<Max(s), f1[s \ {Max(s)}]>>]
    <3>1. CASE k + 1 \in s
      <4>1. Max(s) = k + 1
        BY <2>2, <3>1, MaxTop
      <4>2. /\ s \ {k + 1} \in SUBSET (1 .. k + 1)
            /\ f1[s \ {k + 1}] = f[s \ {k + 1}]
        BY <2>3
      <4> QED
        BY <3>1, <4>1, <4>2
    <3>2. CASE k + 1 \notin s
      <4>1. s \in SUBSET (1 .. k) /\ f1[s] = f[s]
        BY <2>3, <3>2
      <4>2. CASE s = {}
        BY <2>1, <4>1, <4>2
      <4>3. CASE s # {}
        <5>1. s \ {Max(s)} \in SUBSET (1 .. k) /\ s \ {Max(s)} \in SUBSET (1 .. k + 1)
          BY <4>1
        <5>2. f1[s \ {Max(s)}] = f[s \ {Max(s)}]
          BY <3>2, <5>1
        <5> QED
          BY <2>1, <4>1, <4>3, <5>2
      <4> QED
        BY <4>2, <4>3
    <3> QED
      BY <3>1, <3>2
  <2>7. h1[0] = base /\ \A j \in 1 .. k + 1 : h1[j] = g[<<j, h1[j - 1]>>]
    <3>1. h1[0] = base /\ h1[k + 1] = g[<<k + 1, h1[k]>>]
      <4>1. 0 \in 0 .. k + 1 /\ k \in 0 .. k + 1 /\ k + 1 \in 0 .. k + 1 /\ 0 # k + 1 /\ k # k + 1
        BY <2>2
      <4>2. h1[0] = h[0] /\ h1[k] = h[k] /\ h1[k + 1] = g[<<k + 1, h[k]>>]
        BY <4>1
      <4> HIDE DEF h1
      <4> QED
        BY <2>1, <4>2
    <3>2. \A j \in 1 .. k : h1[j] = g[<<j, h1[j - 1]>>]
      <4> TAKE j \in 1 .. k
      <4>1. j \in 0 .. k + 1 /\ j - 1 \in 0 .. k + 1 /\ j # k + 1 /\ j - 1 # k + 1
        BY <2>2
      <4>2. h1[j] = h[j] /\ h1[j - 1] = h[j - 1]
        BY <4>1
      <4> QED
        BY <2>1, <4>2
    <3>3. \A j \in 1 .. k + 1 : j \in 1 .. k \/ (j = k + 1 /\ j - 1 = k)
      BY <2>2
    <3> HIDE DEF h1
    <3> QED
      BY <3>1, <3>2, <3>3
  <2>8. f1[1 .. k + 1] = h1[k + 1]
    <3>1. (1 .. k + 1) \ {k + 1} = 1 .. k /\ k + 1 \in 1 .. k + 1 /\ k + 1 \in 0 .. k + 1
      BY <2>2
    <3>2. f1[1 .. k + 1] = g[<<k + 1, f[(1 .. k + 1) \ {k + 1}]>>]
      BY <3>1
    <3>3. h1[k + 1] = g[<<k + 1, h[k]>>]
      BY <3>1
    <3> HIDE DEF f1, h1
    <3> QED
      BY <2>1, <3>1, <3>2, <3>3
  <2> HIDE DEF f1, h1
  <2>9. Q(k + 1, f1, h1)
    BY <2>6, <2>7, <2>8
  <2> HIDE DEF Q
  <2> QED
    BY <2>2, <2>4, <2>5, <2>9
<1>3. n \in P
  <2> HIDE DEF P
  <2> QED
    BY <1>1, <1>2, UpTo DEF Inductive
<1> QED
  BY <1>3 DEF IsFold

\* Two functions that are both made of the empty set's value and of steps alike.
SameSteps(n, f, e) ==
  /\ f = [s \in SUBSET (1 .. n) |-> f[s]] /\ e = [s \in SUBSET (1 .. n) |-> e[s]]
  /\ f[{}] = e[{}]
  /\ \A s \in SUBSET (1 .. n) :
       s # {} /\ f[s \ {Max(s)}] = e[s \ {Max(s)}] => f[s] = e[s]

LEMMA FoldUnique ==
  ASSUME NEW n \in Nat, NEW f, NEW e, SameSteps(n, f, e)
  PROVE  f = e
<1> USE DEF SameSteps
<1> DEFINE P == {k \in 0 .. n : \A s \in SUBSET (1 .. k) : f[s] = e[s]}
<1>1. 0 \in P
  <2>1. \A s \in SUBSET (1 .. 0) : s = {}
    OBVIOUS
  <2>2. \A s \in SUBSET (1 .. 0) : f[s] = e[s]
    BY <2>1
  <2>3. 0 \in 0 .. n
    OBVIOUS
  <2> QED
    BY <2>2, <2>3
<1>2. ASSUME NEW k \in 0 .. n, k < n, k \in P PROVE k + 1 \in P
  <2> SUFFICES ASSUME NEW s \in SUBSET (1 .. k + 1), s # {} PROVE f[s] = e[s]
    <3>1. k + 1 \in 0 .. n
      BY <1>2
    <3> QED
      BY <3>1
  <2>1. s \in SUBSET (1 .. n)
    BY <1>2
  <2>2. s \ {Max(s)} \in SUBSET (1 .. k)
    <3>1. k \in Nat /\ k + 1 \in Nat
      BY <1>2
    <3>2. CASE k + 1 \in s
      BY <3>1, <3>2, MaxTop
    <3>3. CASE k + 1 \notin s
      BY <3>1, <3>3
    <3> QED
      BY <3>2, <3>3
  <2>3. f[s \ {Max(s)}] = e[s \ {Max(s)}]
    BY <1>2, <2>2
  <2> QED
    BY <2>1, <2>3
<1>3. n \in P
  <2> HIDE DEF P
  <2> QED
    BY <1>1, <1>2, UpTo DEF Inductive
<1>4. \A s \in SUBSET (1 .. n) : f[s] = e[s]
  BY <1>3
<1> QED
  BY <1>4

=============================================================================
