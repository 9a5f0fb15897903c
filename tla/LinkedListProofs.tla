--------------------------- MODULE LinkedListProofs ---------------------------
(***************************************************************************)
(* The chain of pointers of LinkedList stays a two-way chain, iterators    *)
(* stay on it, and it implements NodeSequence, however many nodes there    *)
(* are.                                                                    *)
(***************************************************************************)
EXTENDS LinkedList, TLAPS

\* Not EXTENDS: SequencesExt, on which they rest, has a Remove of its own.
Folds == INSTANCE FoldLemmas
Lists == INSTANCE SequenceLemmas

\* The pointers form the chain s, and a running operation stands on it with as
\* many nodes ahead as it is going to visit.  _list_destroy has freed the front.
OnChain(s) ==
  /\ pc \notin {"destroy", "gone"} => IsChain(s)
  /\ pc = "find" => it = NULL \/ \E i \in 1 .. len : it = s[i]
  /\ pc = "at" => \E i \in 1 .. len :
       /\ it = s[i]
       /\ IF backwards THEN count < i ELSE count <= len - i
  /\ pc = "destroy" =>
       /\ count <= len
       /\ it = IF count = 0 THEN NULL ELSE s[len - count + 1]
       /\ \A i \in 1 .. len : next[s[i]] = IF i = len THEN NULL ELSE s[i + 1]
       /\ \A i, j \in 1 .. len : s[i] = s[j] => i = j
       /\ \A n \in Nodes :
            mem[n] = "listed" <=> \E i \in len - count + 1 .. len : n = s[i]
  /\ pc = "gone" => \A n \in Nodes : mem[n] # "listed"

IInv == TypeOK /\ \E s \in [1 .. len -> Nodes] : OnChain(s)

-----------------------------------------------------------------------------
(* What the operations on the ends and in the middle do to a chain.        *)

\* A chain that is not empty begins and ends with nodes of the list.
LEMMA ChainEnds ==
  ASSUME TypeOK, NEW s \in [1 .. len -> Nodes], IsChain(s), len > 0
  PROVE  /\ head = s[1] /\ tail = s[len]
         /\ 1 \in 1 .. len /\ len \in 1 .. len
         /\ head \in Nodes /\ tail \in Nodes
  BY DEF TypeOK, IsChain

\* A node that is not listed is not on the chain.
LEMMA OffChain ==
  ASSUME TypeOK, NEW s \in [1 .. len -> Nodes], IsChain(s),
         NEW n \in Nodes, mem[n] # "listed"
  PROVE  \A i \in 1 .. len : s[i] # n
  BY DEF IsChain

\* What becomes of the chain s: n at its end, n at its front, position k left out.
Appended(r, s, n) ==
  len' = len + 1 /\ r[len + 1] = n /\ \A i \in 1 .. len : r[i] = s[i]

Prepended(r, s, n) ==
  len' = len + 1 /\ r[1] = n /\ \A i \in 1 .. len : r[i + 1] = s[i]

Unlinked(r, s, k) ==
  len' = len - 1 /\ \A i \in 1 .. len - 1 : r[i] = IF i < k THEN s[i] ELSE s[i + 1]

\* _list_rpush appends the node.
LEMMA RPushChain ==
  ASSUME TypeOK, NEW s \in [1 .. len -> Nodes], IsChain(s),
         NEW n \in Nodes, RPush(n)
  PROVE  \E r \in [1 .. len' -> Nodes] : IsChain(r)' /\ Appended(r, s, n)
<1>1. len \in Nat /\ len' = len + 1 /\ tail' = n
  BY DEF TypeOK, RPush
<1> DEFINE f == [i \in 1 .. len + 1 |-> IF i = len + 1 THEN n ELSE s[i]]
<1>2. f \in [1 .. len + 1 -> Nodes] /\ f[len + 1] = n /\ \A i \in 1 .. len : f[i] = s[i]
  BY <1>1
<1> HIDE DEF f
<1>3. PICK r \in [1 .. len + 1 -> Nodes] :
        r[len + 1] = n /\ \A i \in 1 .. len : r[i] = s[i]
  BY <1>2
<1>4. \A i \in 1 .. len : s[i] # n
  BY OffChain DEF RPush
<1>5. head' = r[1]
  <2>1. CASE len = 0
    BY <1>1, <1>3, <2>1 DEF RPush
  <2>2. CASE len > 0
    BY <1>1, <1>3, <2>2, ChainEnds DEF RPush
  <2> QED
    BY <1>1, <2>1, <2>2
<1>6. \A i \in 1 .. len' : /\ next'[r[i]] = IF i = len' THEN NULL ELSE r[i + 1]
                           /\ prev'[r[i]] = IF i = 1 THEN NULL ELSE r[i - 1]
  <2>1. CASE len = 0
    BY <1>1, <1>3, <2>1 DEF RPush, TypeOK
  <2>2. CASE len > 0
    <3>1. /\ next' = [next EXCEPT ![n] = NULL, ![tail] = n]
          /\ prev' = [prev EXCEPT ![n] = tail]
      BY <2>2 DEF RPush
    <3>2. tail = s[len] /\ tail \in Nodes /\ tail # n /\ n # NULL
      BY <1>1, <1>4, <2>2, ChainEnds, LinkedListAssumption
    <3>3. next \in [Nodes -> Pointers] /\ prev \in [Nodes -> Pointers]
      BY DEF TypeOK
    <3>4. /\ next'[n] = NULL /\ next'[tail] = n /\ prev'[n] = tail
          /\ \A m \in Nodes : m # n /\ m # tail => next'[m] = next[m]
          /\ \A m \in Nodes : m # n => prev'[m] = prev[m]
      BY <3>1, <3>2, <3>3
    <3>5. ASSUME NEW i \in 1 .. len
          PROVE  next'[s[i]] = r[i + 1]
      <4>1. CASE i = len
        BY <1>1, <1>3, <3>2, <3>4, <4>1
      <4>2. CASE i # len
        <5>1. s[i] \in Nodes /\ s[i] # n /\ s[i] # tail
          BY <1>1, <1>4, <2>2, <3>2, <4>2 DEF IsChain
        <5>2. next[s[i]] = s[i + 1] /\ i + 1 \in 1 .. len
          BY <1>1, <4>2 DEF IsChain
        <5> QED
          BY <1>3, <3>4, <5>1, <5>2
      <4> QED
        BY <4>1, <4>2
    <3>6. ASSUME NEW i \in 1 .. len
          PROVE  prev'[s[i]] = IF i = 1 THEN NULL ELSE r[i - 1]
      <4>1. s[i] \in Nodes /\ s[i] # n
        BY <1>4
      <4>2. prev[s[i]] = IF i = 1 THEN NULL ELSE s[i - 1]
        BY DEF IsChain
      <4>3. i # 1 => i - 1 \in 1 .. len
        BY <1>1
      <4> QED
        BY <1>3, <3>4, <4>1, <4>2, <4>3
    <3>7. prev'[n] = r[len] /\ len + 1 # 1
      BY <1>1, <1>3, <2>2, <3>2, <3>4
    <3> QED
      <4> SUFFICES ASSUME NEW i \in 1 .. len'
                   PROVE  /\ next'[r[i]] = IF i = len' THEN NULL ELSE r[i + 1]
                          /\ prev'[r[i]] = IF i = 1 THEN NULL ELSE r[i - 1]
        OBVIOUS
      <4>1. CASE i = len + 1
        <5>1. i = len' /\ i # 1 /\ i - 1 = len /\ r[i] = n
          BY <1>1, <1>3, <3>7, <4>1
        <5> QED
          BY <5>1, <3>4, <3>7
      <4>2. CASE i # len + 1
        <5>1. i \in 1 .. len /\ i # len' /\ r[i] = s[i]
          BY <1>1, <1>3, <4>2
        <5> QED
          BY <5>1, <3>5, <3>6
      <4> QED
        BY <4>1, <4>2
  <2>3. len = 0 \/ len > 0
    BY <1>1
  <2> QED
    BY <2>1, <2>2, <2>3
<1>7. \A i, j \in 1 .. len' : r[i] = r[j] => i = j
  BY <1>1, <1>3, <1>4 DEF IsChain
<1>8. \A m \in Nodes : mem'[m] = "listed" <=> \E i \in 1 .. len' : m = r[i]
  <2> SUFFICES ASSUME NEW m \in Nodes
               PROVE  mem'[m] = "listed" <=> \E i \in 1 .. len' : m = r[i]
    OBVIOUS
  <2>1. mem'[m] = IF m = n THEN "listed" ELSE mem[m]
    BY DEF RPush, TypeOK
  <2>2. mem[m] = "listed" <=> \E i \in 1 .. len : m = s[i]
    BY DEF IsChain
  <2>3. (\E i \in 1 .. len' : m = r[i]) <=> m = n \/ \E i \in 1 .. len : m = s[i]
    BY <1>1, <1>3
  <2> QED
    BY <2>1, <2>2, <2>3
<1>9. head' = (IF len' = 0 THEN NULL ELSE r[1]) /\ tail' = (IF len' = 0 THEN NULL ELSE r[len'])
  BY <1>1, <1>3, <1>5
<1>10. IsChain(r)'
  BY <1>6, <1>7, <1>8, <1>9 DEF IsChain
<1>11. Appended(r, s, n)
  BY <1>1, <1>3 DEF Appended
<1> QED
  BY <1>1, <1>10, <1>11

\* _list_lpush prepends the node.
LEMMA LPushChain ==
  ASSUME TypeOK, NEW s \in [1 .. len -> Nodes], IsChain(s),
         NEW n \in Nodes, LPush(n)
  PROVE  \E r \in [1 .. len' -> Nodes] : IsChain(r)' /\ Prepended(r, s, n)
<1>1. len \in Nat /\ len' = len + 1 /\ head' = n
  BY DEF TypeOK, LPush
<1> DEFINE f == [i \in 1 .. len + 1 |-> IF i = 1 THEN n ELSE s[i - 1]]
<1>2. f \in [1 .. len + 1 -> Nodes] /\ f[1] = n /\ \A i \in 1 .. len : f[i + 1] = s[i]
  BY <1>1
<1> HIDE DEF f
<1>3. PICK r \in [1 .. len + 1 -> Nodes] :
        r[1] = n /\ \A i \in 1 .. len : r[i + 1] = s[i]
  BY <1>2
<1>4. \A i \in 1 .. len : s[i] # n
  BY OffChain DEF LPush
<1>5. tail' = r[len + 1]
  <2>1. CASE len = 0
    BY <1>1, <1>3, <2>1 DEF LPush
  <2>2. CASE len > 0
    BY <1>1, <1>3, <2>2, ChainEnds DEF LPush
  <2> QED
    BY <1>1, <2>1, <2>2
<1>6. \A i \in 1 .. len' : /\ next'[r[i]] = IF i = len' THEN NULL ELSE r[i + 1]
                           /\ prev'[r[i]] = IF i = 1 THEN NULL ELSE r[i - 1]
  <2>1. CASE len = 0
    BY <1>1, <1>3, <2>1 DEF LPush, TypeOK
  <2>2. CASE len > 0
    <3>1. /\ next' = [next EXCEPT ![n] = head]
          /\ prev' = [prev EXCEPT ![n] = NULL, ![head] = n]
      BY <2>2 DEF LPush
    <3>2. head = s[1] /\ head \in Nodes /\ head # n
      BY <1>1, <1>4, <2>2, ChainEnds
    <3>3. next \in [Nodes -> Pointers] /\ prev \in [Nodes -> Pointers]
      BY DEF TypeOK
    <3>4. /\ prev'[n] = NULL /\ prev'[head] = n /\ next'[n] = head
          /\ \A m \in Nodes : m # n /\ m # head => prev'[m] = prev[m]
          /\ \A m \in Nodes : m # n => next'[m] = next[m]
      BY <3>1, <3>2, <3>3
    <3>5. ASSUME NEW i \in 1 .. len
          PROVE  prev'[s[i]] = r[i]
      <4>1. CASE i = 1
        BY <1>3, <3>2, <3>4, <4>1
      <4>2. CASE i # 1
        <5>1. s[i] \in Nodes /\ s[i] # n /\ s[i] # head
          BY <1>1, <1>4, <2>2, <3>2, <4>2 DEF IsChain
        <5>2. prev[s[i]] = s[i - 1] /\ i - 1 \in 1 .. len
          BY <1>1, <4>2 DEF IsChain
        <5>3. r[i] = s[i - 1]
          BY <1>1, <1>3, <5>2
        <5> QED
          BY <3>4, <5>1, <5>2, <5>3
      <4> QED
        BY <4>1, <4>2
    <3>6. ASSUME NEW i \in 1 .. len
          PROVE  next'[s[i]] = IF i = len THEN NULL ELSE r[i + 2]
      <4>1. s[i] \in Nodes /\ s[i] # n
        BY <1>4
      <4>2. next[s[i]] = IF i = len THEN NULL ELSE s[i + 1]
        BY DEF IsChain
      <4>3. i # len => i + 1 \in 1 .. len /\ (i + 1) + 1 = i + 2
        BY <1>1
      <4>4. i # len => r[i + 2] = s[i + 1]
        BY <1>3, <4>3
      <4> QED
        BY <3>4, <4>1, <4>2, <4>4
    <3>7. next'[n] = r[2] /\ len + 1 # 1
      <4>1. 1 \in 1 .. len /\ 1 + 1 = 2
        BY <1>1, <2>2
      <4> QED
        BY <1>1, <1>3, <2>2, <3>2, <3>4, <4>1
    <3> QED
      <4> SUFFICES ASSUME NEW i \in 1 .. len'
                   PROVE  /\ next'[r[i]] = IF i = len' THEN NULL ELSE r[i + 1]
                          /\ prev'[r[i]] = IF i = 1 THEN NULL ELSE r[i - 1]
        OBVIOUS
      <4>1. CASE i = 1
        BY <1>1, <1>3, <3>4, <3>7, <4>1
      <4>2. CASE i # 1
        <5>1. PICK j \in 1 .. len : i = j + 1
          BY <1>1, <4>2
        <5>2. r[i] = s[j] /\ (i = len' <=> j = len) /\ i + 1 = j + 2 /\ i - 1 = j
          BY <1>1, <1>3, <5>1
        <5> QED
          BY <4>2, <5>2, <3>5, <3>6
      <4> QED
        BY <4>1, <4>2
  <2>3. len = 0 \/ len > 0
    BY <1>1
  <2> QED
    BY <2>1, <2>2, <2>3
<1>7. \A i, j \in 1 .. len' : r[i] = r[j] => i = j
  <2> SUFFICES ASSUME NEW i \in 1 .. len', NEW j \in 1 .. len', r[i] = r[j]
               PROVE  i = j
    OBVIOUS
  <2>1. ASSUME NEW k \in 1 .. len', k # 1
        PROVE  k - 1 \in 1 .. len /\ r[k] = s[k - 1]
    BY <1>1, <1>3, <2>1
  <2> QED
    BY <1>1, <1>3, <1>4, <2>1 DEF IsChain
<1>8. \A m \in Nodes : mem'[m] = "listed" <=> \E i \in 1 .. len' : m = r[i]
  <2> SUFFICES ASSUME NEW m \in Nodes
               PROVE  mem'[m] = "listed" <=> \E i \in 1 .. len' : m = r[i]
    OBVIOUS
  <2>1. mem'[m] = IF m = n THEN "listed" ELSE mem[m]
    BY DEF LPush, TypeOK
  <2>2. mem[m] = "listed" <=> \E i \in 1 .. len : m = s[i]
    BY DEF IsChain
  <2>3. \A i \in 1 .. len' : i = 1 \/ (i - 1 \in 1 .. len /\ r[i] = s[i - 1])
    BY <1>1, <1>3
  <2>4. \A i \in 1 .. len : i + 1 \in 1 .. len' /\ r[i + 1] = s[i]
    BY <1>1, <1>3
  <2>5. 1 \in 1 .. len'
    BY <1>1
  <2> QED
    BY <1>3, <2>1, <2>2, <2>3, <2>4, <2>5
<1>9. head' = (IF len' = 0 THEN NULL ELSE r[1]) /\ tail' = (IF len' = 0 THEN NULL ELSE r[len'])
  BY <1>1, <1>3, <1>5
<1>10. IsChain(r)'
  BY <1>6, <1>7, <1>8, <1>9 DEF IsChain
<1>11. Prepended(r, s, n)
  BY <1>1, <1>3 DEF Prepended
<1> QED
  BY <1>1, <1>10, <1>11

\* Node k is gone and its neighbours point at each other.
Unlinks(s, k) ==
  /\ len' = len - 1
  /\ head' = IF k = 1 THEN next[s[k]] ELSE head
  /\ tail' = IF k = len THEN prev[s[k]] ELSE tail
  /\ \A m \in Nodes : m # s[k] =>
       /\ next'[m] = IF k > 1 /\ m = s[k - 1] THEN next[s[k]] ELSE next[m]
       /\ prev'[m] = IF k < len /\ m = s[k + 1] THEN prev[s[k]] ELSE prev[m]
  /\ \A m \in Nodes : mem'[m] = "listed" <=> mem[m] = "listed" /\ m # s[k]

\* A chain from which a node is unlinked is a chain.
LEMMA UnlinkChain ==
  ASSUME TypeOK, NEW s \in [1 .. len -> Nodes], IsChain(s),
         NEW k \in 1 .. len, Unlinks(s, k)
  PROVE  \E r \in [1 .. len' -> Nodes] : IsChain(r)' /\ Unlinked(r, s, k)
<1>1. len \in Nat /\ len' = len - 1 /\ len' \in Nat /\ k \in Int
  BY DEF TypeOK, Unlinks
<1> DEFINE f == [i \in 1 .. len - 1 |-> IF i < k THEN s[i] ELSE s[i + 1]]
<1>2. f \in [1 .. len - 1 -> Nodes]
      /\ \A i \in 1 .. len - 1 : f[i] = IF i < k THEN s[i] ELSE s[i + 1]
  BY <1>1
<1> HIDE DEF f
<1>3. PICK r \in [1 .. len - 1 -> Nodes] :
        \A i \in 1 .. len - 1 : r[i] = IF i < k THEN s[i] ELSE s[i + 1]
  BY <1>2
<1>4. \A i, j \in 1 .. len : s[i] = s[j] => i = j
  BY DEF IsChain
<1>5. \A i \in 1 .. len - 1 : r[i] # s[k]
  BY <1>1, <1>3, <1>4
<1>6. ASSUME NEW i \in 1 .. len - 1
      PROVE  next'[r[i]] = IF i = len' THEN NULL ELSE r[i + 1]
  <2>1. r[i] \in Nodes /\ r[i] # s[k]
    BY <1>3, <1>5
  <2>2. next'[r[i]] = IF k > 1 /\ r[i] = s[k - 1] THEN next[s[k]] ELSE next[r[i]]
    BY <2>1 DEF Unlinks
  <2>3. \A j \in 1 .. len : next[s[j]] = IF j = len THEN NULL ELSE s[j + 1]
    BY DEF IsChain
  <2>4. CASE i = k - 1
    <3>1. r[i] = s[k - 1] /\ k > 1
      BY <1>1, <1>3, <2>4
    <3>2. next'[r[i]] = next[s[k]]
      BY <2>2, <3>1
    <3>3. i = len' <=> k = len
      BY <1>1, <2>4
    <3>4. k # len => r[i + 1] = s[k + 1]
      BY <1>1, <1>3, <2>4
    <3> QED
      BY <2>3, <3>2, <3>3, <3>4
  <2>5. CASE i < k - 1
    <3>1. r[i] = s[i] /\ r[i + 1] = s[i + 1] /\ i # len' /\ i # len /\ i \in 1 .. len
      BY <1>1, <1>3, <2>5
    <3>2. s[i] # s[k - 1]
      BY <1>1, <1>4, <2>5
    <3> QED
      BY <2>2, <2>3, <3>1, <3>2
  <2>6. CASE i > k - 1
    <3>1. r[i] = s[i + 1] /\ i + 1 \in 1 .. len
      BY <1>1, <1>3, <2>6
    <3>2. k > 1 => s[i + 1] # s[k - 1]
      BY <1>1, <1>4, <2>6
    <3>3. i = len' <=> i + 1 = len
      BY <1>1
    <3>4. i # len' => r[i + 1] = s[(i + 1) + 1]
      BY <1>1, <1>3, <2>6
    <3> QED
      BY <2>2, <2>3, <3>1, <3>2, <3>3, <3>4
  <2>7. i = k - 1 \/ i < k - 1 \/ i > k - 1
    BY <1>1
  <2> QED
    BY <2>4, <2>5, <2>6, <2>7
<1>7. ASSUME NEW i \in 1 .. len - 1
      PROVE  prev'[r[i]] = IF i = 1 THEN NULL ELSE r[i - 1]
  <2>1. r[i] \in Nodes /\ r[i] # s[k]
    BY <1>3, <1>5
  <2>2. prev'[r[i]] = IF k < len /\ r[i] = s[k + 1] THEN prev[s[k]] ELSE prev[r[i]]
    BY <2>1 DEF Unlinks
  <2>3. \A j \in 1 .. len : prev[s[j]] = IF j = 1 THEN NULL ELSE s[j - 1]
    BY DEF IsChain
  <2>4. CASE i = k
    <3>1. r[i] = s[k + 1] /\ k < len
      BY <1>1, <1>3, <2>4
    <3>2. prev'[r[i]] = prev[s[k]]
      BY <2>2, <3>1
    <3>3. k # 1 => r[i - 1] = s[k - 1]
      BY <1>1, <1>3, <2>4
    <3> QED
      BY <2>3, <2>4, <3>2, <3>3
  <2>5. CASE i < k
    <3>1. r[i] = s[i] /\ i \in 1 .. len
      BY <1>1, <1>3, <2>5
    <3>2. k < len => s[i] # s[k + 1]
      BY <1>1, <1>4, <2>5
    <3>3. i # 1 => r[i - 1] = s[i - 1]
      BY <1>1, <1>3, <2>5
    <3> QED
      BY <2>2, <2>3, <3>1, <3>2, <3>3
  <2>6. CASE i > k
    <3>1. r[i] = s[i + 1] /\ i + 1 \in 1 .. len /\ i # 1
      BY <1>1, <1>3, <2>6
    <3>2. k < len => s[i + 1] # s[k + 1]
      BY <1>1, <1>4, <2>6
    <3>3. r[i - 1] = s[i] /\ (i + 1) - 1 = i /\ i + 1 # 1
      BY <1>1, <1>3, <2>6
    <3> QED
      BY <2>2, <2>3, <3>1, <3>2, <3>3
  <2>7. i = k \/ i < k \/ i > k
    BY <1>1
  <2> QED
    BY <2>4, <2>5, <2>6, <2>7
<1>8. \A i, j \in 1 .. len - 1 : r[i] = r[j] => i = j
  BY <1>1, <1>3, <1>4
<1>9. \A m \in Nodes : mem'[m] = "listed" <=> \E i \in 1 .. len - 1 : m = r[i]
  <2> SUFFICES ASSUME NEW m \in Nodes
               PROVE  mem'[m] = "listed" <=> \E i \in 1 .. len - 1 : m = r[i]
    OBVIOUS
  <2>1. mem'[m] = "listed" <=> m # s[k] /\ \E i \in 1 .. len : m = s[i]
    BY DEF IsChain, Unlinks
  <2>2. ASSUME NEW i \in 1 .. len, i # k
        PROVE  \E j \in 1 .. len - 1 : s[i] = r[j]
    <3>1. CASE i < k
      <4>1. i \in 1 .. len - 1 /\ r[i] = s[i]
        BY <1>1, <1>3, <3>1
      <4> QED
        BY <4>1
    <3>2. CASE i > k
      <4>1. i - 1 \in 1 .. len - 1 /\ r[i - 1] = s[i]
        BY <1>1, <1>3, <3>2
      <4> QED
        BY <4>1
    <3>3. i < k \/ i > k
      BY <1>1, <2>2
    <3> QED
      BY <3>1, <3>2, <3>3
  <2>3. ASSUME NEW j \in 1 .. len - 1
        PROVE  \E i \in 1 .. len : r[j] = s[i]
    <3>1. j \in 1 .. len /\ j + 1 \in 1 .. len
      BY <1>1
    <3> QED
      BY <1>3, <3>1
  <2> QED
    BY <1>5, <2>1, <2>2, <2>3
<1>10. head' = IF len' = 0 THEN NULL ELSE r[1]
  <2>1. head' = IF k = 1 THEN next[s[1]] ELSE s[1]
    BY <1>1 DEF Unlinks, IsChain
  <2>2. next[s[1]] = IF 1 = len THEN NULL ELSE s[2]
    BY <1>1 DEF IsChain
  <2>3. len' # 0 => r[1] = IF k = 1 THEN s[2] ELSE s[1]
    BY <1>1, <1>3
  <2>4. len' = 0 => k = 1 /\ len = 1
    BY <1>1
  <2> QED
    BY <1>1, <2>1, <2>2, <2>3, <2>4
<1>11. tail' = IF len' = 0 THEN NULL ELSE r[len']
  <2>1. tail' = IF k = len THEN prev[s[len]] ELSE s[len]
    BY <1>1 DEF Unlinks, IsChain
  <2>2. prev[s[len]] = IF len = 1 THEN NULL ELSE s[len - 1]
    BY <1>1 DEF IsChain
  <2>3. len' # 0 => r[len'] = IF k = len THEN s[len - 1] ELSE s[len]
    BY <1>1, <1>3
  <2>4. len' = 0 => k = len /\ len = 1
    BY <1>1
  <2> QED
    BY <1>1, <2>1, <2>2, <2>3, <2>4
<1>12. IsChain(r)'
  BY <1>1, <1>6, <1>7, <1>8, <1>9, <1>10, <1>11 DEF IsChain
<1>13. Unlinked(r, s, k)
  BY <1>1, <1>3 DEF Unlinked
<1> QED
  BY <1>1, <1>12, <1>13

\* _list_rpop, _list_lpop and _list_remove unlink a node.
LEMMA RPopChain ==
  ASSUME TypeOK, NEW s \in [1 .. len -> Nodes], IsChain(s), RPop
  PROVE  \E r \in [1 .. len' -> Nodes] : IsChain(r)' /\ Unlinked(r, s, len)
<1>1. len > 0
  BY DEF RPop
<1>2. tail = s[len] /\ len \in 1 .. len /\ tail \in Nodes
  BY <1>1, ChainEnds
<1>3. /\ prev[tail] = IF len = 1 THEN NULL ELSE s[len - 1]
      /\ next[tail] = NULL
  BY <1>2 DEF IsChain
<1>4. len \in Nat /\ next \in [Nodes -> Pointers] /\ prev \in [Nodes -> Pointers]
  BY DEF TypeOK
<1>5. len > 1 => s[len - 1] \in Nodes /\ s[len - 1] # tail
  BY <1>2, <1>4 DEF IsChain
<1>6. Unlinks(s, len)
  <2>1. len' = len - 1 /\ tail' = prev[s[len]]
    BY <1>1, <1>2, <1>3, <1>4 DEF RPop
  <2>2. head' = IF len = 1 THEN next[s[len]] ELSE head
    BY <1>1, <1>2, <1>3, <1>4 DEF RPop
  <2>3. ASSUME NEW m \in Nodes, m # s[len]
        PROVE  /\ next'[m] = IF len > 1 /\ m = s[len - 1] THEN next[s[len]] ELSE next[m]
               /\ prev'[m] = prev[m]
    <3>1. prev'[m] = prev[m]
      BY <1>2, <1>4, <2>3 DEF RPop
    <3>2. CASE len > 1
      <4>1. next' = [next EXCEPT ![s[len - 1]] = NULL, ![tail] = NULL]
        BY <1>3, <1>4, <3>2 DEF RPop
      <4> QED
        BY <1>2, <1>3, <1>4, <1>5, <2>3, <3>1, <3>2, <4>1
    <3>3. CASE ~(len > 1)
      <4>1. next' = [next EXCEPT ![tail] = NULL]
        BY <3>3 DEF RPop
      <4> QED
        BY <1>2, <1>4, <2>3, <3>1, <3>3, <4>1
    <3> QED
      BY <3>2, <3>3
  <2>4. \A m \in Nodes : mem'[m] = "listed" <=> mem[m] = "listed" /\ m # s[len]
    BY <1>2 DEF RPop, TypeOK
  <2> QED
    BY <1>4, <2>1, <2>2, <2>3, <2>4 DEF Unlinks
<1> QED
  BY <1>2, <1>6, UnlinkChain

LEMMA LPopChain ==
  ASSUME TypeOK, NEW s \in [1 .. len -> Nodes], IsChain(s), LPop
  PROVE  \E r \in [1 .. len' -> Nodes] : IsChain(r)' /\ Unlinked(r, s, 1)
<1>1. len > 0
  BY DEF LPop
<1>2. head = s[1] /\ 1 \in 1 .. len /\ head \in Nodes
  BY <1>1, ChainEnds
<1>3. /\ next[head] = IF 1 = len THEN NULL ELSE s[1 + 1]
      /\ prev[head] = NULL
  BY <1>2 DEF IsChain
<1>4. len \in Nat /\ next \in [Nodes -> Pointers] /\ prev \in [Nodes -> Pointers]
  BY DEF TypeOK
<1>5. len > 1 => s[1 + 1] \in Nodes /\ s[1 + 1] # head
  BY <1>2, <1>4 DEF IsChain
<1>6. Unlinks(s, 1)
  <2>1. len' = len - 1 /\ head' = next[s[1]]
    BY <1>1, <1>2, <1>3, <1>4 DEF LPop
  <2>2. tail' = IF 1 = len THEN prev[s[1]] ELSE tail
    BY <1>1, <1>2, <1>3, <1>4 DEF LPop
  <2>3. ASSUME NEW m \in Nodes, m # s[1]
        PROVE  /\ prev'[m] = IF 1 < len /\ m = s[1 + 1] THEN prev[s[1]] ELSE prev[m]
               /\ next'[m] = next[m]
    <3>1. next'[m] = next[m]
      BY <1>2, <1>4, <2>3 DEF LPop
    <3>2. CASE len > 1
      <4>1. prev' = [prev EXCEPT ![s[1 + 1]] = NULL, ![head] = NULL]
        BY <1>3, <1>4, <3>2 DEF LPop
      <4> QED
        BY <1>2, <1>3, <1>4, <1>5, <2>3, <3>1, <3>2, <4>1
    <3>3. CASE ~(len > 1)
      <4>1. prev' = [prev EXCEPT ![head] = NULL]
        BY <3>3 DEF LPop
      <4> QED
        BY <1>2, <1>4, <2>3, <3>1, <3>3, <4>1
    <3> QED
      BY <3>2, <3>3
  <2>4. \A m \in Nodes : mem'[m] = "listed" <=> mem[m] = "listed" /\ m # s[1]
    BY <1>2 DEF LPop, TypeOK
  <2> QED
    BY <1>4, <2>1, <2>2, <2>3, <2>4 DEF Unlinks
<1> QED
  BY <1>2, <1>6, UnlinkChain

LEMMA RemoveChain ==
  ASSUME TypeOK, NEW s \in [1 .. len -> Nodes], IsChain(s),
         NEW n \in Nodes, Remove(n)
  PROVE  \E k \in 1 .. len, r \in [1 .. len' -> Nodes] :
            n = s[k] /\ IsChain(r)' /\ Unlinked(r, s, k)
<1>1. PICK k \in 1 .. len : n = s[k]
  BY DEF Remove, IsChain
<1>2. len \in Nat /\ next \in [Nodes -> Pointers] /\ prev \in [Nodes -> Pointers]
  BY DEF TypeOK
<1>3. /\ next[n] = IF k = len THEN NULL ELSE s[k + 1]
      /\ prev[n] = IF k = 1 THEN NULL ELSE s[k - 1]
  BY <1>1 DEF IsChain
<1>4. /\ k # len => k < len /\ s[k + 1] \in Nodes
      /\ k # 1 => k > 1 /\ s[k - 1] \in Nodes
  BY <1>1, <1>2
<1>5. (prev[n] # NULL <=> k # 1) /\ (next[n] # NULL <=> k # len)
  BY <1>3, <1>4, LinkedListAssumption
<1>6. Unlinks(s, k)
  <2>1. /\ len' = len - 1
        /\ head' = IF k = 1 THEN next[s[k]] ELSE head
        /\ tail' = IF k = len THEN prev[s[k]] ELSE tail
    BY <1>1, <1>5 DEF Remove
  <2>2. ASSUME NEW m \in Nodes, m # s[k]
        PROVE  next'[m] = IF k > 1 /\ m = s[k - 1] THEN next[s[k]] ELSE next[m]
    <3>1. CASE k = 1
      BY <1>5, <3>1 DEF Remove
    <3>2. CASE k # 1
      <4>1. next' = [next EXCEPT ![s[k - 1]] = next[n]]
        BY <1>3, <1>5, <3>2 DEF Remove
      <4> QED
        BY <1>1, <1>2, <1>4, <3>2, <4>1
    <3> QED
      BY <3>1, <3>2
  <2>3. ASSUME NEW m \in Nodes, m # s[k]
        PROVE  prev'[m] = IF k < len /\ m = s[k + 1] THEN prev[s[k]] ELSE prev[m]
    <3>1. CASE k = len
      BY <1>5, <3>1 DEF Remove
    <3>2. CASE k # len
      <4>1. prev' = [prev EXCEPT ![s[k + 1]] = prev[n]]
        BY <1>3, <1>5, <3>2 DEF Remove
      <4> QED
        BY <1>1, <1>2, <1>4, <3>2, <4>1
    <3> QED
      BY <3>1, <3>2
  <2>4. \A m \in Nodes : mem'[m] = "listed" <=> mem[m] = "listed" /\ m # s[k]
    BY <1>1 DEF Remove, TypeOK
  <2> QED
    BY <2>1, <2>2, <2>3, <2>4 DEF Unlinks
<1> QED
  BY <1>1, <1>6, UnlinkChain

\* Making or freeing a node that is not listed leaves the chain alone.
LEMMA NodeNewChain ==
  ASSUME TypeOK, NEW s \in [1 .. len -> Nodes], IsChain(s),
         NEW n \in Nodes, NEW v \in Vals, NodeNew(n, v)
  PROVE  len' = len /\ IsChain(s)'
<1>1. \A i \in 1 .. len : s[i] \in Nodes /\ s[i] # n
  BY OffChain DEF NodeNew
<1>2. head' = head /\ tail' = tail /\ len' = len
  BY DEF NodeNew
<1>3. \A m \in Nodes : m # n => next'[m] = next[m] /\ prev'[m] = prev[m]
  BY DEF NodeNew, TypeOK
<1>4. \A m \in Nodes : mem'[m] = "listed" <=> mem[m] = "listed"
  BY DEF NodeNew, TypeOK
<1> QED
  BY <1>1, <1>2, <1>3, <1>4 DEF IsChain

-----------------------------------------------------------------------------
(* The invariant.                                                          *)

\* An operation of one step that leaves a chain behind keeps the invariant.
LEMMA ChainSuffices ==
  ASSUME pc' = "idle", \E r \in [1 .. len' -> Nodes] : IsChain(r)'
  PROVE  \E r \in [1 .. len' -> Nodes] : OnChain(r)'
<1>1. PICK r \in [1 .. len' -> Nodes] : IsChain(r)'
  OBVIOUS
<1>2. OnChain(r)'
  BY <1>1 DEF OnChain
<1> QED
  BY <1>2

\* A lookup that ends, or that neither ends nor begins, does not touch the chain.
LEMMA ChainKept ==
  ASSUME NEW s, IsChain(s), UNCHANGED <<fields, mem>>
  PROVE  len' = len /\ IsChain(s)'
  BY DEF IsChain, fields

LEMMA InitChain == Init => IInv
<1> SUFFICES ASSUME Init PROVE IInv
  OBVIOUS
<1>1. TypeOK
  BY DEF Init, TypeOK, Nothing, Pointers
<1> DEFINE s == [i \in 1 .. 0 |-> NULL]
<1>2. s \in [1 .. len -> Nodes]
  BY DEF Init
<1>3. IsChain(s)
  BY DEF Init, IsChain
<1>4. OnChain(s)
  BY <1>3 DEF Init, OnChain
<1> QED
  BY <1>1, <1>2, <1>4 DEF IInv

\* Operations of one step keep the types.
LEMMA StepTypes ==
  ASSUME IInv,
         \/ \E n \in Nodes, v \in Vals : NodeNew(n, v)
         \/ \E n \in Nodes : NodeFree(n) \/ RPush(n) \/ LPush(n) \/ Remove(n)
         \/ RPop \/ LPop
  PROVE  TypeOK'
<1>1. TypeOK /\ NULL \in Pointers /\ \A n \in Nodes : n \in Pointers
  BY DEF IInv, Pointers
<1>2. ASSUME NEW n \in Nodes, NEW v \in Vals, NodeNew(n, v)
      PROVE  TypeOK'
  BY <1>1, <1>2 DEF NodeNew, TypeOK, Nothing, iterator
<1>3. ASSUME NEW n \in Nodes, NodeFree(n)
      PROVE  TypeOK'
  BY <1>1, <1>3 DEF NodeFree, TypeOK, fields, iterator
<1>4. ASSUME NEW n \in Nodes, RPush(n)
      PROVE  TypeOK'
  BY <1>1, <1>4 DEF RPush, TypeOK, Nothing, iterator
<1>5. ASSUME NEW n \in Nodes, LPush(n)
      PROVE  TypeOK'
  BY <1>1, <1>5 DEF LPush, TypeOK, Nothing, iterator
<1>6. ASSUME pc = "idle"
      PROVE  \E s \in [1 .. len -> Nodes] : IsChain(s)
  BY <1>6 DEF IInv, OnChain
<1>7. ASSUME NEW n \in Nodes, Remove(n)
      PROVE  TypeOK'
  <2>1. PICK s \in [1 .. len -> Nodes] : IsChain(s)
    BY <1>6, <1>7 DEF Remove
  <2>2. \E k \in 1 .. len : n = s[k]
    BY <1>7, <2>1 DEF Remove, IsChain
  <2>3. len > 0 /\ len - 1 \in Nat
    BY <1>1, <2>2 DEF TypeOK
  <2> QED
    BY <1>1, <1>7, <2>3 DEF Remove, TypeOK, Nothing, iterator
<1>8. CASE RPop
  <2>1. PICK s \in [1 .. len -> Nodes] : IsChain(s)
    BY <1>6, <1>8 DEF RPop
  <2>2. tail \in Nodes /\ len - 1 \in Nat
    BY <1>1, <1>8, <2>1, ChainEnds DEF RPop, TypeOK
  <2> QED
    BY <1>1, <1>8, <2>2 DEF RPop, TypeOK, iterator
<1>9. CASE LPop
  <2>1. PICK s \in [1 .. len -> Nodes] : IsChain(s)
    BY <1>6, <1>9 DEF LPop
  <2>2. head \in Nodes /\ len - 1 \in Nat
    BY <1>1, <1>9, <2>1, ChainEnds DEF LPop, TypeOK
  <2> QED
    BY <1>1, <1>9, <2>2 DEF LPop, TypeOK, iterator
<1> QED
  BY <1>2, <1>3, <1>4, <1>5, <1>7, <1>8, <1>9

\* Lookups keep the invariant.
LEMMA FindStepOnChain ==
  ASSUME TypeOK, NEW s \in [1 .. len -> Nodes], OnChain(s), FindStep
  PROVE  TypeOK' /\ len' = len /\ OnChain(s)'
<1>1. pc = "find" /\ IsChain(s) /\ len \in Nat
  BY DEF FindStep, OnChain, TypeOK
<1>2. len' = len /\ IsChain(s)'
  BY <1>1, ChainKept DEF FindStep
<1>3. it = NULL \/ \E i \in 1 .. len : it = s[i]
  BY <1>1 DEF OnChain
<1>4. it' = IF it = NULL THEN NULL ELSE IF backwards THEN prev[it] ELSE next[it]
  BY DEF FindStep, Moves
<1>5. it' = NULL \/ \E i \in 1 .. len : it' = s[i]
  <2>1. CASE it = NULL
    BY <1>4, <2>1
  <2>2. CASE it # NULL
    <3>1. PICK i \in 1 .. len : it = s[i]
      BY <1>3, <2>2
    <3>2. next[it] = NULL \/ (i + 1 \in 1 .. len /\ next[it] = s[i + 1])
      BY <1>1, <3>1 DEF IsChain
    <3>3. prev[it] = NULL \/ (i - 1 \in 1 .. len /\ prev[it] = s[i - 1])
      BY <1>1, <3>1 DEF IsChain
    <3> QED
      BY <1>4, <2>2, <3>2, <3>3
  <2> QED
    BY <2>1, <2>2
<1>6. it' \in Pointers
  BY <1>5 DEF Pointers
<1>7. pc' \in {"find", "idle"}
  BY <1>1 DEF FindStep, Answers
<1>8. OnChain(s)'
  <2>1. pc' = "find" => it' = NULL \/ \E i \in 1 .. len' : it' = s[i]
    BY <1>2, <1>5
  <2> QED
    BY <1>2, <1>7, <2>1 DEF OnChain
<1>9. TypeOK'
  BY <1>6 DEF TypeOK, FindStep, Answers, fields, Pointers
<1> QED
  BY <1>2, <1>8, <1>9

LEMMA AtStartOnChain ==
  ASSUME TypeOK, NEW s \in [1 .. len -> Nodes], OnChain(s), NEW k \in Indices, AtStart(k)
  PROVE  TypeOK' /\ len' = len /\ OnChain(s)'
<1> DEFINE index == IF k < 0 THEN Complement(k) ELSE k
<1>1. pc = "idle" /\ IsChain(s) /\ len \in Nat
  BY DEF AtStart, OnChain, TypeOK
<1>2. len' = len /\ IsChain(s)'
  BY <1>1, ChainKept DEF AtStart
<1>3. k \in Int
  BY DEF Indices
<1>4. index \in Nat
  BY <1>3 DEF Complement
<1>5. CASE index < len
  <2>1. /\ pc' = "at" /\ count' = index /\ backwards' = (k < 0)
        /\ it' = IF k < 0 THEN tail ELSE head
        /\ arg' = k /\ last' = last
    BY <1>5 DEF AtStart
  <2>2. /\ head = s[1] /\ tail = s[len] /\ head \in Nodes /\ tail \in Nodes
        /\ 1 \in 1 .. len /\ len \in 1 .. len
    BY <1>1, <1>4, <1>5, ChainEnds
  <2>3. TypeOK'
    BY <1>4, <2>1, <2>2 DEF TypeOK, AtStart, fields, Pointers
  <2>4. \E i \in 1 .. len' : it' = s[i] /\ IF backwards' THEN count' < i ELSE count' <= len' - i
    <3> HIDE DEF index
    <3>1. CASE k < 0
      <4>1. it' = s[len] /\ backwards' /\ count' < len
        BY <1>5, <2>1, <2>2, <3>1
      <4> QED
        BY <1>2, <2>2, <4>1
    <3>2. CASE ~(k < 0)
      <4>1. it' = s[1] /\ ~backwards'
        BY <2>1, <2>2, <3>2
      <4>2. count' <= len - 1
        BY <1>1, <1>4, <1>5, <2>1
      <4> QED
        BY <1>2, <2>2, <4>1, <4>2
    <3> QED
      BY <3>1, <3>2
  <2> QED
    BY <1>2, <2>1, <2>3, <2>4 DEF OnChain
<1>6. CASE ~(index < len)
  <2>1. /\ pc' = "idle" /\ UNCHANGED iterator
        /\ last' = [op |-> "at", arg |-> k, node |-> NULL]
    BY <1>6 DEF AtStart, Answers
  <2>2. TypeOK'
    BY <2>1 DEF TypeOK, AtStart, fields, iterator, Pointers
  <2> QED
    BY <1>2, <2>1, <2>2 DEF OnChain
<1> QED
  BY <1>5, <1>6

LEMMA AtStepOnChain ==
  ASSUME TypeOK, NEW s \in [1 .. len -> Nodes], OnChain(s), AtStep
  PROVE  TypeOK' /\ len' = len /\ OnChain(s)'
<1>1. pc = "at" /\ IsChain(s) /\ len \in Nat /\ count \in Nat
  BY DEF AtStep, OnChain, TypeOK
<1>2. len' = len /\ IsChain(s)'
  BY <1>1, ChainKept DEF AtStep
<1>3. PICK i \in 1 .. len : it = s[i] /\ IF backwards THEN count < i ELSE count <= len - i
  BY <1>1 DEF OnChain
<1>4. it \in Nodes /\ it # NULL
  BY <1>3, LinkedListAssumption
<1>5. it' = IF backwards THEN prev[it] ELSE next[it]
  BY <1>4 DEF AtStep, Moves
<1>6. it' \in Pointers
  BY <1>4, <1>5 DEF TypeOK
<1>7. TypeOK'
  <2>1. CASE count = 0
    <3>1. pc' = "idle" /\ count' = count /\ arg' = NULL
          /\ last' = [op |-> "at", arg |-> arg, node |-> it]
      BY <2>1 DEF AtStep, Answers
    <3> QED
      BY <1>6, <3>1 DEF TypeOK, AtStep, fields
  <2>2. CASE count # 0
    <3>1. pc' = pc /\ count' = count - 1 /\ arg' = arg /\ last' = last
      BY <2>2 DEF AtStep
    <3>2. count' \in Nat
      BY <1>1, <2>2, <3>1
    <3> QED
      BY <1>6, <3>1, <3>2 DEF TypeOK, AtStep, fields
  <2> QED
    BY <2>1, <2>2
<1>8. OnChain(s)'
  <2>1. CASE count = 0
    <3>1. pc' = "idle"
      BY <2>1 DEF AtStep, Answers
    <3> QED
      BY <1>2, <3>1 DEF OnChain
  <2>2. CASE count # 0
    <3>1. pc' = "at" /\ count' = count - 1 /\ backwards' = backwards
      BY <1>1, <2>2 DEF AtStep
    <3>2. CASE backwards
      <4>1. i - 1 \in 1 .. len /\ count - 1 < i - 1 /\ i # 1
        BY <1>1, <1>3, <2>2, <3>2
      <4>2. it' = s[i - 1]
        BY <1>1, <1>3, <1>5, <3>2, <4>1 DEF IsChain
      <4> QED
        BY <1>2, <3>1, <3>2, <4>1, <4>2 DEF OnChain
    <3>3. CASE ~backwards
      <4>1. i + 1 \in 1 .. len /\ count - 1 <= len - (i + 1) /\ i # len
        BY <1>1, <1>3, <2>2, <3>3
      <4>2. it' = s[i + 1]
        BY <1>1, <1>3, <1>5, <3>3, <4>1 DEF IsChain
      <4> QED
        BY <1>2, <3>1, <3>3, <4>1, <4>2 DEF OnChain
    <3> QED
      BY <3>2, <3>3
  <2> QED
    BY <2>1, <2>2
<1> QED
  BY <1>2, <1>7, <1>8

\* _list_destroy starts at the head and frees the node in front each time.
LEMMA DestroyStartOnChain ==
  ASSUME TypeOK, NEW s \in [1 .. len -> Nodes], OnChain(s), DestroyStart
  PROVE  TypeOK' /\ len' = len /\ OnChain(s)'
<1>1. /\ pc = "idle" /\ IsChain(s) /\ len \in Nat
      /\ pc' = "destroy" /\ it' = head /\ count' = len /\ len' = len
      /\ next' = next /\ mem' = mem
  BY DEF DestroyStart, OnChain, TypeOK, fields
<1>2. TypeOK'
  BY <1>1 DEF TypeOK, DestroyStart, fields
<1>3. len' - count' + 1 = 1 /\ count' <= len'
  BY <1>1
<1>4. it' = IF count' = 0 THEN NULL ELSE s[len' - count' + 1]
  BY <1>1, <1>3 DEF IsChain
<1>5. \A n \in Nodes :
        mem'[n] = "listed" <=> \E i \in len' - count' + 1 .. len' : n = s[i]
  BY <1>1, <1>3 DEF IsChain
<1>6. /\ \A i \in 1 .. len' : next'[s[i]] = IF i = len' THEN NULL ELSE s[i + 1]
      /\ \A i, j \in 1 .. len' : s[i] = s[j] => i = j
  BY <1>1 DEF IsChain
<1>7. OnChain(s)'
  BY <1>1, <1>3, <1>4, <1>5, <1>6 DEF OnChain
<1> QED
  BY <1>1, <1>2, <1>7

LEMMA DestroyStepOnChain ==
  ASSUME TypeOK, NEW s \in [1 .. len -> Nodes], OnChain(s), DestroyStep
  PROVE  TypeOK' /\ len' = len /\ OnChain(s)'
<1>1. /\ pc = "destroy" /\ len \in Nat /\ count \in Nat /\ count <= len
      /\ it = IF count = 0 THEN NULL ELSE s[len - count + 1]
      /\ \A i \in 1 .. len : next[s[i]] = IF i = len THEN NULL ELSE s[i + 1]
      /\ \A i, j \in 1 .. len : s[i] = s[j] => i = j
      /\ \A n \in Nodes :
           mem[n] = "listed" <=> \E i \in len - count + 1 .. len : n = s[i]
  BY DEF DestroyStep, OnChain, TypeOK
<1>2. len' = len /\ next' = next
  BY DEF DestroyStep, fields
<1>3. CASE count > 0
  <2>1. /\ mem' = [mem EXCEPT ![it] = "free"] /\ it' = next[it]
        /\ count' = count - 1 /\ pc' = "destroy"
    BY <1>1, <1>3 DEF DestroyStep
  <2> DEFINE k == len - count + 1
  <2>2. k \in 1 .. len /\ it = s[k] /\ it \in Nodes /\ len - count' + 1 = k + 1
    BY <1>1, <1>3, <2>1
  <2>3. count' \in Nat /\ count' <= len /\ (count' = 0 <=> k = len)
    BY <1>1, <1>3, <2>1
  <2> HIDE DEF k
  <2>4. it' = IF count' = 0 THEN NULL ELSE s[len' - count' + 1]
    BY <1>1, <1>2, <2>1, <2>2, <2>3
  <2>5. TypeOK'
    <3>1. it' \in Pointers
      BY <2>1, <2>2 DEF TypeOK
    <3> QED
      BY <2>1, <2>3, <3>1 DEF TypeOK, DestroyStep, fields
  <2>6. \A n \in Nodes :
          mem'[n] = "listed" <=> \E i \in len' - count' + 1 .. len' : n = s[i]
    <3> SUFFICES ASSUME NEW n \in Nodes
                 PROVE  mem'[n] = "listed" <=> \E i \in k + 1 .. len : n = s[i]
      BY <1>2, <2>2
    <3>1. mem'[n] = "listed" <=> mem[n] = "listed" /\ n # s[k]
      BY <2>1, <2>2 DEF TypeOK
    <3>2. mem[n] = "listed" <=> \E i \in k .. len : n = s[i]
      BY <1>1 DEF k
    <3>3. \A i \in k .. len : i = k \/ i \in k + 1 .. len
      BY <1>1, <2>2
    <3>4. \A i \in k + 1 .. len : i \in k .. len /\ i \in 1 .. len /\ i # k
      BY <1>1, <2>2
    <3> QED
      BY <1>1, <2>2, <3>1, <3>2, <3>3, <3>4
  <2>7. OnChain(s)'
    BY <1>1, <1>2, <2>1, <2>3, <2>4, <2>6 DEF OnChain
  <2> QED
    BY <1>2, <2>5, <2>7
<1>4. CASE ~(count > 0)
  <2>1. pc' = "gone" /\ UNCHANGED <<mem, it, count>>
    BY <1>4 DEF DestroyStep
  <2>2. TypeOK'
    BY <2>1 DEF TypeOK, DestroyStep, fields
  <2>3. \A n \in Nodes : mem'[n] # "listed"
    BY <1>1, <1>4, <2>1
  <2> QED
    BY <1>2, <2>1, <2>2, <2>3 DEF OnChain
<1> QED
  BY <1>3, <1>4

\* Freeing a node of one's own disturbs nobody, not even a running operation.
LEMMA NodeFreeOnChain ==
  ASSUME TypeOK, NEW s \in [1 .. len -> Nodes], OnChain(s), NEW n \in Nodes, NodeFree(n)
  PROVE  len' = len /\ OnChain(s)'
<1>1. UNCHANGED <<head, tail, len, prev, next, pc, it, count, backwards>>
  BY DEF NodeFree, fields, iterator
<1>2. \A m \in Nodes : mem'[m] = "listed" <=> mem[m] = "listed"
  BY DEF NodeFree, TypeOK
<1>3. IsChain(s) => IsChain(s)'
  BY <1>1, <1>2 DEF IsChain
<1>4. (pc' = "gone" => \A m \in Nodes : mem'[m] # "listed")
  BY <1>1, <1>2 DEF OnChain
<1>5. pc' = "destroy" => \A m \in Nodes :
        mem'[m] = "listed" <=> \E i \in len' - count' + 1 .. len' : m = s[i]
  BY <1>1, <1>2 DEF OnChain
<1> QED
  BY <1>1, <1>3, <1>4, <1>5 DEF OnChain

LEMMA NextChain == IInv /\ [Next]_vars => IInv'
<1> SUFFICES ASSUME IInv, [Next]_vars PROVE IInv'
  OBVIOUS
<1>1. TypeOK
  BY DEF IInv
<1>2. PICK s \in [1 .. len -> Nodes] : OnChain(s)
  BY DEF IInv
<1>3. pc = "idle" => IsChain(s)
  BY <1>2 DEF OnChain
<1>4. ASSUME len' = len, OnChain(s)', TypeOK'
      PROVE  IInv'
  BY <1>4 DEF IInv
<1>5. ASSUME pc' = "idle", \E r \in [1 .. len' -> Nodes] : IsChain(r)', TypeOK'
      PROVE  IInv'
  BY <1>5, ChainSuffices DEF IInv
<1>6. ASSUME NEW n \in Nodes, NEW v \in Vals, NodeNew(n, v)
      PROVE  IInv'
  <2>1. pc = "idle" /\ pc' = "idle"
    BY <1>6 DEF NodeNew
  <2> QED
    BY <1>1, <1>2, <1>3, <1>5, <1>6, <2>1, NodeNewChain, StepTypes
<1>7. ASSUME NEW n \in Nodes, NodeFree(n)
      PROVE  IInv'
  BY <1>1, <1>2, <1>4, <1>7, NodeFreeOnChain, StepTypes
<1>8. ASSUME NEW n \in Nodes, RPush(n)
      PROVE  IInv'
  <2>1. pc = "idle" /\ pc' = "idle"
    BY <1>8 DEF RPush
  <2> QED
    BY <1>1, <1>3, <1>5, <1>8, <2>1, RPushChain, StepTypes
<1>9. ASSUME NEW n \in Nodes, LPush(n)
      PROVE  IInv'
  <2>1. pc = "idle" /\ pc' = "idle"
    BY <1>9 DEF LPush
  <2> QED
    BY <1>1, <1>3, <1>5, <1>9, <2>1, LPushChain, StepTypes
<1>10. ASSUME NEW n \in Nodes, Remove(n)
       PROVE  IInv'
  <2>1. pc = "idle" /\ pc' = "idle"
    BY <1>10 DEF Remove
  <2> QED
    BY <1>1, <1>3, <1>5, <1>10, <2>1, RemoveChain, StepTypes
<1>11. CASE RPop
  <2>1. pc = "idle" /\ pc' = "idle"
    BY <1>11 DEF RPop
  <2> QED
    BY <1>1, <1>3, <1>5, <1>11, <2>1, RPopChain, StepTypes
<1>12. CASE LPop
  <2>1. pc = "idle" /\ pc' = "idle"
    BY <1>12 DEF LPop
  <2> QED
    BY <1>1, <1>3, <1>5, <1>12, <2>1, LPopChain, StepTypes
<1>13. ASSUME \/ \E op \in {"rpop", "lpop"} : PopNothing(op)
              \/ NoIterator
       PROVE  IInv'
  <2>1. /\ UNCHANGED <<head, tail, len, prev, next, val, mem, pc, it, arg, count, backwards>>
        /\ \E op \in {"rpop", "lpop", "no_memory"} : last' = [op |-> op, arg |-> NULL, node |-> NULL]
    BY <1>13 DEF PopNothing, NoIterator, fields, iterator
  <2>2. TypeOK'
    BY <1>1, <2>1 DEF TypeOK, Pointers
  <2>3. OnChain(s)'
    BY <1>2, <2>1 DEF OnChain, IsChain
  <2> QED
    BY <1>4, <2>1, <2>2, <2>3
<1>14. ASSUME NEW v \in Vals, FindStart(v)
       PROVE  IInv'
  <2>1. pc = "idle" /\ pc' = "find" /\ it' = head /\ head \in Pointers
    BY <1>1, <1>14 DEF FindStart, TypeOK
  <2>2. len' = len /\ IsChain(s)'
    BY <1>3, <1>14, <2>1, ChainKept DEF FindStart
  <2>3. it' = NULL \/ \E i \in 1 .. len' : it' = s[i]
    BY <1>1, <1>3, <2>1, <2>2 DEF IsChain, TypeOK
  <2>4. OnChain(s)'
    BY <2>1, <2>2, <2>3 DEF OnChain
  <2>5. TypeOK'
    BY <1>1, <1>14, <2>1 DEF FindStart, TypeOK, fields
  <2> QED
    BY <1>4, <2>2, <2>4, <2>5
<1>15. CASE FindStep
  BY <1>1, <1>2, <1>4, <1>15, FindStepOnChain
<1>16. ASSUME NEW k \in Indices, AtStart(k)
       PROVE  IInv'
  BY <1>1, <1>2, <1>4, <1>16, AtStartOnChain
<1>17. CASE AtStep
  BY <1>1, <1>2, <1>4, <1>17, AtStepOnChain
<1>18. CASE DestroyStart
  BY <1>1, <1>2, <1>4, <1>18, DestroyStartOnChain
<1>19. CASE DestroyStep
  BY <1>1, <1>2, <1>4, <1>19, DestroyStepOnChain
<1>20. CASE UNCHANGED vars
  <2>1. UNCHANGED <<head, tail, len, prev, next, val, mem, pc, it, arg, count, backwards, last>>
    BY <1>20 DEF vars, fields, iterator
  <2>2. TypeOK' /\ OnChain(s)'
    BY <1>1, <1>2, <2>1 DEF TypeOK, OnChain, IsChain
  <2> QED
    BY <1>4, <2>1, <2>2
<1> QED
  BY <1>6, <1>7, <1>8, <1>9, <1>10, <1>11, <1>12, <1>14, <1>15, <1>16, <1>17,
     <1>18, <1>19, <1>20, <1>13 DEF Next

\* What the invariant says of the properties.
LEMMA ChainIsEnough == IInv => TypeOK /\ TwoWayChain /\ IteratorIsLive
<1> SUFFICES ASSUME IInv PROVE TypeOK /\ TwoWayChain /\ IteratorIsLive
  OBVIOUS
<1>1. TypeOK
  BY DEF IInv
<1>2. PICK s \in [1 .. len -> Nodes] : OnChain(s)
  BY DEF IInv
<1>3. TwoWayChain
  BY <1>2 DEF OnChain, TwoWayChain
<1>4. pc \in {"find", "at"} => (it = NULL \/ mem[it] = "listed")
  BY <1>2 DEF OnChain, IsChain
<1>5. pc = "at" => it # NULL
  BY <1>2, LinkedListAssumption DEF OnChain
<1>6. pc = "destroy" => /\ it = NULL \/ mem[it] = "listed"
                        /\ count = 0 <=> it = NULL
  <2> SUFFICES ASSUME pc = "destroy"
               PROVE  /\ it = NULL \/ mem[it] = "listed"
                      /\ count = 0 <=> it = NULL
    OBVIOUS
  <2>1. CASE count = 0
    BY <1>2, <2>1 DEF OnChain
  <2>2. CASE count # 0
    <3>1. len - count + 1 \in 1 .. len /\ len - count + 1 \in len - count + 1 .. len
      BY <1>1, <1>2, <2>2 DEF OnChain, TypeOK
    <3>2. it = s[len - count + 1] /\ it \in Nodes
      BY <1>2, <2>2, <3>1 DEF OnChain
    <3>3. mem[it] = "listed"
      BY <1>2, <3>1, <3>2 DEF OnChain
    <3> QED
      BY <2>2, <3>2, <3>3, LinkedListAssumption
  <2> QED
    BY <2>1, <2>2
<1>7. pc = "gone" => \A n \in Nodes : mem[n] # "listed"
  BY <1>2 DEF OnChain
<1> QED
  BY <1>1, <1>3, <1>4, <1>5, <1>6, <1>7 DEF IteratorIsLive

LEMMA ChainInvariant == Spec => []IInv
  BY InitChain, NextChain, PTL DEF Spec

\* Every variable of the list keeps its type, however many nodes there are.
THEOREM ListTypes == Spec => []TypeOK
  BY ChainInvariant, ChainIsEnough, PTL

\* After any sequence of pushes, pops, removals and lookups the chain along next
\* is the chain along prev backwards, and holds exactly the nodes listed.
THEOREM ListIsTwoWayChain == Spec => []TwoWayChain
  BY ChainInvariant, ChainIsEnough, PTL

\* No lookup and no _list_destroy ever stands on a node that was freed.
THEOREM IteratorsAreLive == Spec => []IteratorIsLive
  BY ChainInvariant, ChainIsEnough, PTL

-----------------------------------------------------------------------------
(* The chain as a sequence.                                                *)

\* Forward, for a head h, pointers nx and a length n.
Along(h, nx, n) ==
  LET at[i \in 1 .. n] == IF i = 1 THEN h
                          ELSE IF at[i - 1] = NULL THEN NULL ELSE nx[at[i - 1]]
  IN  [i \in 1 .. n |-> at[i]]

\* Whoever follows a chain from its head meets its nodes in order.
LEMMA AlongChain ==
  ASSUME NEW h, NEW nx, NEW n \in Nat, NEW s \in [1 .. n -> Nodes],
         n > 0 => h = s[1],
         \A i \in 1 .. n : i # n => nx[s[i]] = s[i + 1]
  PROVE  Along(h, nx, n) = s
<1> DEFINE Step(e, i) == IF i = 1 THEN h
                         ELSE IF e[i - 1] = NULL THEN NULL ELSE nx[e[i - 1]]
           Is(e) == e = [i \in 1 .. n |-> Step(e, i)]
<1>1. \A i \in 1 .. n : s[i] = Step(s, i)
  <2> TAKE i \in 1 .. n
  <2>1. CASE i = 1
    BY <2>1
  <2>2. CASE i # 1
    <3>1. i - 1 \in 1 .. n /\ i - 1 # n /\ (i - 1) + 1 = i
      BY <2>2
    <3>2. s[i - 1] # NULL /\ nx[s[i - 1]] = s[i]
      BY <3>1, LinkedListAssumption
    <3> QED
      BY <2>2, <3>2
  <2> QED
    BY <2>1, <2>2
<1>2. Is(s)
  <2>1. s = [i \in 1 .. n |-> s[i]]
    OBVIOUS
  <2> HIDE DEF Step
  <2> QED
    BY <1>1, <2>1
<1>3. ASSUME NEW e, Is(e) PROVE e = s
  <2>1. e = [i \in 1 .. n |-> e[i]] /\ \A i \in 1 .. n : e[i] = Step(e, i)
    <3> HIDE DEF Step
    <3> QED
      BY <1>3
  <2> DEFINE P == {k \in 0 .. n : k > 0 => e[k] = s[k]}
  <2>2. 0 \in P
    OBVIOUS
  <2>3. ASSUME NEW k \in 0 .. n, k < n, k \in P PROVE k + 1 \in P
    <3>1. k + 1 \in 1 .. n /\ (k + 1) - 1 = k /\ (k + 1 = 1 <=> k = 0)
      BY <2>3
    <3>2. e[k + 1] = Step(e, k + 1) /\ s[k + 1] = Step(s, k + 1)
      BY <1>1, <2>1, <3>1
    <3>3. Step(e, k + 1) = Step(s, k + 1)
      BY <2>3, <3>1
    <3> HIDE DEF Step
    <3> QED
      BY <3>1, <3>2, <3>3
  <2>4. \A k \in 0 .. n : k \in P
    <3> HIDE DEF P
    <3>1. Folds!Inductive(P, n)
      BY <2>2, <2>3 DEF Folds!Inductive
    <3> QED
      BY <3>1, Folds!UpTo
  <2>5. \A i \in 1 .. n : e[i] = s[i]
    <3> TAKE i \in 1 .. n
    <3>1. i \in 0 .. n /\ i > 0
      OBVIOUS
    <3> QED
      BY <2>4, <3>1
  <2>6. s = [i \in 1 .. n |-> s[i]]
    OBVIOUS
  <2> QED
    BY <2>1, <2>5, <2>6
<1>4. Along(h, nx, n) = [i \in 1 .. n |-> (CHOOSE e : Is(e))[i]]
  BY DEF Along
<1>5. (CHOOSE e : Is(e)) = s
  <2> HIDE DEF Is
  <2> QED
    BY <1>2, <1>3
<1>6. s = [i \in 1 .. n |-> s[i]]
  OBVIOUS
<1> HIDE DEF Is
<1> QED
  BY <1>4, <1>5, <1>6

LEMMA ForwardIs ==
  ASSUME TypeOK, NEW s \in [1 .. len -> Nodes], IsChain(s)
  PROVE  Forward = s
<1>1. Forward = Along(head, next, len)
  BY DEF Forward, Along
<1>2. /\ len \in Nat /\ (len > 0 => head = s[1])
      /\ \A i \in 1 .. len : i # len => next[s[i]] = s[i + 1]
  BY DEF TypeOK, IsChain
<1> QED
  BY <1>1, <1>2, AlongChain

LEMMA ForwardBecomes ==
  ASSUME TypeOK', NEW s \in [1 .. len' -> Nodes], IsChain(s)'
  PROVE  Forward' = s
<1>1. Forward' = Along(head', next', len')
  BY DEF Forward, Along
<1>2. /\ len' \in Nat /\ (len' > 0 => head' = s[1])
      /\ \A i \in 1 .. len' : i # len' => next'[s[i]] = s[i + 1]
  BY DEF TypeOK, IsChain
<1> QED
  BY <1>1, <1>2, AlongChain

\* Nothing that the chain is read from has changed.
LEMMA ForwardStays ==
  ASSUME UNCHANGED <<head, next, len>>
  PROVE  Forward' = Forward
<1>1. Forward = Along(head, next, len) /\ Forward' = Along(head', next', len')
  BY DEF Forward, Along
<1> QED
  BY <1>1

\* How far a lookup has come: _list_find has met no node with the value yet, and
\* _list_at has count nodes to go to the one it is asked for.
Looks(s) ==
  /\ pc = "find" =>
       /\ arg \in Vals /\ ~ backwards
       /\ \/ \E i \in 1 .. len : it = s[i] /\ \A j \in 1 .. i - 1 : val[s[j]] # arg
          \/ it = NULL /\ \A j \in 1 .. len : val[s[j]] # arg
  /\ pc = "at" =>
       /\ arg \in Indices /\ (backwards <=> arg < 0)
       /\ \E i \in 1 .. len :
            /\ it = s[i]
            /\ IF backwards THEN i - count = len + arg + 1 ELSE i + count = arg + 1

LookupsOnTheirWay == pc \in {"find", "at"} => Looks(Forward)

\* A finite function from 1 is a sequence.
LEMMA ChainIsSeq ==
  ASSUME NEW n \in Nat, NEW s \in [1 .. n -> Nodes]
  PROVE  s \in Seq(Nodes) /\ Len(s) = n /\ DOMAIN s = 1 .. n
  OBVIOUS

\* Two sequences are the same when they have the same length and nodes.
LEMMA SameSequence ==
  ASSUME NEW n \in Nat, NEW r \in [1 .. n -> Nodes], NEW t \in Seq(Nodes),
         Len(t) = n, \A i \in 1 .. n : t[i] = r[i]
  PROVE  t = r
<1>1. t \in [1 .. n -> Nodes]
  OBVIOUS
<1> QED
  BY <1>1

\* The chains that the operations leave, as sequences.
LEMMA AppendedIs ==
  ASSUME len \in Nat, NEW s \in [1 .. len -> Nodes], NEW r \in [1 .. len' -> Nodes],
         NEW n \in Nodes, Appended(r, s, n)
  PROVE  r = Append(s, n)
<1>1. len' = len + 1 /\ r[len + 1] = n /\ \A i \in 1 .. len : r[i] = s[i]
  BY DEF Appended
<1>2. s \in Seq(Nodes) /\ Len(s) = len
  BY ChainIsSeq
<1>3. /\ Append(s, n) \in Seq(Nodes) /\ Len(Append(s, n)) = len + 1
      /\ Append(s, n)[len + 1] = n
      /\ \A i \in 1 .. len : Append(s, n)[i] = s[i]
  BY <1>2
<1>4. \A i \in 1 .. len + 1 : Append(s, n)[i] = r[i]
  BY <1>1, <1>3
<1> QED
  BY <1>1, <1>3, <1>4, SameSequence

LEMMA PrependedIs ==
  ASSUME len \in Nat, NEW s \in [1 .. len -> Nodes], NEW r \in [1 .. len' -> Nodes],
         NEW n \in Nodes, Prepended(r, s, n)
  PROVE  r = <<n>> \o s
<1>1. len' = len + 1 /\ r[1] = n /\ \A i \in 1 .. len : r[i + 1] = s[i]
  BY DEF Prepended
<1>2. s \in Seq(Nodes) /\ Len(s) = len
  BY ChainIsSeq
<1> DEFINE t == <<n>> \o s
<1>3. /\ t \in Seq(Nodes) /\ Len(t) = len + 1 /\ t[1] = n
      /\ \A i \in 1 .. len : t[i + 1] = s[i]
  BY <1>2
<1> HIDE DEF t
<1>4. ASSUME NEW i \in 1 .. len + 1 PROVE t[i] = r[i]
  <2>1. CASE i = 1
    BY <1>1, <1>3, <2>1
  <2>2. CASE i # 1
    <3>1. i - 1 \in 1 .. len /\ (i - 1) + 1 = i
      BY <2>2
    <3> QED
      BY <1>1, <1>3, <3>1
  <2> QED
    BY <2>1, <2>2
<1>5. t = r
  BY <1>1, <1>3, <1>4, SameSequence
<1> QED
  BY <1>5 DEF t

LEMMA UnlinkedIs ==
  ASSUME len \in Nat, NEW s \in [1 .. len -> Nodes], NEW r \in [1 .. len' -> Nodes],
         NEW k \in 1 .. len, Unlinked(r, s, k)
  PROVE  /\ r = Abstract!RemoveAt(s, k)
         /\ k = 1 => r = Tail(s)
         /\ k = len => r = Abstract!Front(s)
<1>1. /\ len' = len - 1 /\ len - 1 \in Nat
      /\ \A i \in 1 .. len - 1 : r[i] = IF i < k THEN s[i] ELSE s[i + 1]
  BY DEF Unlinked
<1>2. s \in Seq(Nodes) /\ Len(s) = len
  BY ChainIsSeq
<1>3. r = Abstract!RemoveAt(s, k)
  <2> DEFINE t == Lists!RemoveAt(s, k)
  <2>1. /\ t \in Seq(Nodes) /\ Len(t) = len - 1
        /\ \A i \in 1 .. len - 1 : t[i] = IF i < k THEN s[i] ELSE s[i + 1]
    BY <1>2, Lists!RemoveAtProperties
  <2>2. t = Abstract!RemoveAt(s, k)
    BY DEF Abstract!RemoveAt, Lists!RemoveAt
  <2> HIDE DEF t
  <2>3. t = r
    BY <1>1, <2>1, SameSequence
  <2> QED
    BY <2>2, <2>3
<1>4. ASSUME k = 1 PROVE r = Tail(s)
  <2>1. /\ Tail(s) \in Seq(Nodes) /\ Len(Tail(s)) = len - 1
        /\ \A i \in 1 .. len - 1 : Tail(s)[i] = s[i + 1]
    BY <1>2
  <2>2. \A i \in 1 .. len - 1 : Tail(s)[i] = r[i]
    BY <1>1, <1>4, <2>1
  <2> QED
    BY <1>1, <2>1, <2>2, SameSequence
<1>5. ASSUME k = len PROVE r = Abstract!Front(s)
  <2> DEFINE t == SubSeq(s, 1, len - 1)
  <2>1. /\ t \in Seq(Nodes) /\ Len(t) = len - 1
        /\ \A i \in 1 .. len - 1 : t[i] = s[i]
    BY <1>1, <1>2
  <2>2. t = Abstract!Front(s)
    BY <1>2 DEF Abstract!Front
  <2> HIDE DEF t
  <2>3. \A i \in 1 .. len - 1 : t[i] = r[i]
    BY <1>1, <1>5, <2>1
  <2> QED
    BY <1>1, <2>1, <2>2, <2>3, SameSequence
<1> QED
  BY <1>3, <1>4, <1>5

\* What NodeSequence sees of the list.
Contents == IF pc \in {"destroy", "gone"} THEN <<>> ELSE Forward

LEMMA ContentsAre ==
  ASSUME TypeOK, NEW s \in [1 .. len -> Nodes], IsChain(s), pc \notin {"destroy", "gone"}
  PROVE  Contents = s /\ s \in Seq(Nodes) /\ Len(s) = len /\ DOMAIN s = 1 .. len
<1>1. len \in Nat
  BY DEF TypeOK
<1> QED
  BY <1>1, ForwardIs, ChainIsSeq DEF Contents

LEMMA ContentsBecome ==
  ASSUME TypeOK', NEW s \in [1 .. len' -> Nodes], IsChain(s)', pc' \notin {"destroy", "gone"}
  PROVE  Contents' = s
  BY ForwardBecomes DEF Contents

\* _list_node_new takes a node that is not on the list.
LEMMA NodeNewMakes ==
  ASSUME TypeOK, TypeOK', NEW s \in [1 .. len -> Nodes], IsChain(s),
         NEW n \in Nodes, NEW v \in Vals, NodeNew(n, v)
  PROVE  Abstract!MakeNode(n, v)
<1>1. pc = "idle" /\ pc' = "idle" /\ mem[n] # "listed"
  BY DEF NodeNew
<1>2. Contents = s /\ DOMAIN s = 1 .. len
  BY <1>1, ContentsAre
<1>3. len' = len /\ IsChain(s)'
  BY NodeNewChain
<1>4. Contents' = s
  BY <1>1, <1>3, ContentsBecome
<1>5. n \notin Abstract!ToSet(s)
  BY <1>1, <1>2, OffChain DEF Abstract!ToSet
<1> QED
  BY <1>2, <1>4, <1>5
  DEF Contents, NodeNew, Nothing, Abstract!MakeNode, Abstract!Nothing, Abstract!Answer

LEMMA RPushAppends ==
  ASSUME TypeOK, TypeOK', NEW s \in [1 .. len -> Nodes], IsChain(s),
         NEW n \in Nodes, RPush(n)
  PROVE  Abstract!PushRight(n)
<1>1. pc = "idle" /\ pc' = "idle" /\ mem[n] # "listed" /\ len \in Nat
  BY DEF RPush, TypeOK
<1>2. Contents = s /\ DOMAIN s = 1 .. len
  BY <1>1, ContentsAre
<1>3. PICK r \in [1 .. len' -> Nodes] : IsChain(r)' /\ Appended(r, s, n)
  BY RPushChain
<1>4. Contents' = Append(s, n)
  BY <1>1, <1>3, ContentsBecome, AppendedIs
<1>5. n \notin Abstract!ToSet(s)
  BY <1>1, <1>2, OffChain DEF Abstract!ToSet
<1> QED
  BY <1>2, <1>4, <1>5
  DEF Contents, RPush, Nothing, Abstract!PushRight, Abstract!Nothing, Abstract!Answer

LEMMA LPushPrepends ==
  ASSUME TypeOK, TypeOK', NEW s \in [1 .. len -> Nodes], IsChain(s),
         NEW n \in Nodes, LPush(n)
  PROVE  Abstract!PushLeft(n)
<1>1. pc = "idle" /\ pc' = "idle" /\ mem[n] # "listed" /\ len \in Nat
  BY DEF LPush, TypeOK
<1>2. Contents = s /\ DOMAIN s = 1 .. len
  BY <1>1, ContentsAre
<1>3. PICK r \in [1 .. len' -> Nodes] : IsChain(r)' /\ Prepended(r, s, n)
  BY LPushChain
<1>4. Contents' = <<n>> \o s
  BY <1>1, <1>3, ContentsBecome, PrependedIs
<1>5. n \notin Abstract!ToSet(s)
  BY <1>1, <1>2, OffChain DEF Abstract!ToSet
<1> QED
  BY <1>2, <1>4, <1>5
  DEF Contents, LPush, Nothing, Abstract!PushLeft, Abstract!Nothing, Abstract!Answer

LEMMA RPopTakesLast ==
  ASSUME TypeOK, TypeOK', NEW s \in [1 .. len -> Nodes], IsChain(s), RPop
  PROVE  Abstract!PopRight
<1>1. pc = "idle" /\ pc' = "idle" /\ len \in Nat /\ len > 0 /\ len \in 1 .. len
  BY DEF RPop, TypeOK
<1>2. Contents = s /\ Len(s) = len
  BY <1>1, ContentsAre
<1>3. PICK r \in [1 .. len' -> Nodes] : IsChain(r)' /\ Unlinked(r, s, len)
  BY RPopChain
<1>4. Contents' = Abstract!Front(s)
  BY <1>1, <1>3, ContentsBecome, UnlinkedIs
<1>5. s # <<>> /\ tail = Abstract!Last(s)
  BY <1>1, <1>2, ChainEnds DEF Abstract!Last
<1> QED
  BY <1>2, <1>4, <1>5 DEF Contents, RPop, Abstract!PopRight, Abstract!Answer

LEMMA LPopTakesHead ==
  ASSUME TypeOK, TypeOK', NEW s \in [1 .. len -> Nodes], IsChain(s), LPop
  PROVE  Abstract!PopLeft
<1>1. pc = "idle" /\ pc' = "idle" /\ len \in Nat /\ len > 0 /\ 1 \in 1 .. len
  BY DEF LPop, TypeOK
<1>2. Contents = s /\ Len(s) = len
  BY <1>1, ContentsAre
<1>3. PICK r \in [1 .. len' -> Nodes] : IsChain(r)' /\ Unlinked(r, s, 1)
  BY LPopChain
<1>4. Contents' = Tail(s)
  BY <1>1, <1>3, ContentsBecome, UnlinkedIs
<1>5. s # <<>> /\ head = Head(s)
  BY <1>1, <1>2, ChainEnds
<1> QED
  BY <1>2, <1>4, <1>5 DEF Contents, LPop, Abstract!PopLeft, Abstract!Answer

LEMMA RemoveTakes ==
  ASSUME TypeOK, TypeOK', NEW s \in [1 .. len -> Nodes], IsChain(s),
         NEW n \in Nodes, Remove(n)
  PROVE  \E i \in DOMAIN Contents : Abstract!Take(i)
<1>1. pc = "idle" /\ pc' = "idle" /\ len \in Nat
  BY DEF Remove, TypeOK
<1>2. Contents = s /\ DOMAIN s = 1 .. len
  BY <1>1, ContentsAre
<1>3. PICK k \in 1 .. len, r \in [1 .. len' -> Nodes] :
        n = s[k] /\ IsChain(r)' /\ Unlinked(r, s, k)
  BY RemoveChain
<1>4. Contents' = Abstract!RemoveAt(s, k)
  BY <1>1, <1>3, ContentsBecome, UnlinkedIs
<1>5. Abstract!Take(k)
  BY <1>2, <1>4 DEF Contents, Remove, Nothing, Abstract!Take, Abstract!Nothing, Abstract!Answer
<1> QED
  BY <1>2, <1>5

\* _list_find starts at the head, with nothing behind it.
LEMMA FindStartLooks ==
  ASSUME TypeOK, NEW s \in [1 .. len -> Nodes], IsChain(s), NEW v \in Vals, FindStart(v)
  PROVE  Looks(s)'
<1>1. /\ pc' = "find" /\ arg' = v /\ it' = head /\ backwards' = FALSE
      /\ len' = len /\ val' = val /\ len \in Nat
  BY DEF FindStart, TypeOK, fields
<1>2. CASE len = 0
  <2>1. it' = NULL /\ \A j \in 1 .. len : val[s[j]] # v
    BY <1>1, <1>2 DEF IsChain
  <2> QED
    BY <1>1, <2>1 DEF Looks
<1>3. CASE len > 0
  <2>1. it' = s[1] /\ 1 \in 1 .. len /\ \A j \in 1 .. 1 - 1 : val[s[j]] # v
    BY <1>1, <1>3, ChainEnds
  <2>2. \E i \in 1 .. len' : it' = s[i] /\ \A j \in 1 .. i - 1 : val'[s[j]] # arg'
    BY <1>1, <2>1
  <2> QED
    BY <1>1, <2>2 DEF Looks
<1> QED
  BY <1>1, <1>2, <1>3

\* A step of _list_find leaves one more node behind, or comes to the end.
LEMMA FindStepLooks ==
  ASSUME TypeOK, NEW s \in [1 .. len -> Nodes], IsChain(s), Looks(s), FindStep,
         pc' = "find"
  PROVE  Looks(s)'
<1>1. /\ pc = "find" /\ arg \in Vals /\ ~ backwards
      /\ len' = len /\ val' = val /\ backwards' = backwards /\ len \in Nat
  BY DEF FindStep, Looks, TypeOK, fields
<1>2. it # NULL /\ val[it] # arg /\ arg' = arg
  BY DEF FindStep, Answers
<1>3. it' = next[it]
  BY <1>1, <1>2 DEF FindStep, Moves
<1>4. PICK i \in 1 .. len : it = s[i] /\ \A j \in 1 .. i - 1 : val[s[j]] # arg
  BY <1>1, <1>2 DEF Looks
<1>5. it' = IF i = len THEN NULL ELSE s[i + 1]
  BY <1>3, <1>4 DEF IsChain
<1>6. \A j \in 1 .. i : val[s[j]] # arg
  BY <1>1, <1>2, <1>4
<1>7. CASE i = len
  <2>1. it' = NULL /\ \A j \in 1 .. len' : val'[s[j]] # arg'
    BY <1>1, <1>2, <1>5, <1>6, <1>7
  <2> QED
    BY <1>1, <1>2, <2>1 DEF Looks
<1>8. CASE i # len
  <2>1. i + 1 \in 1 .. len' /\ (i + 1) - 1 = i /\ it' = s[i + 1]
    BY <1>1, <1>5, <1>8
  <2>2. \E k \in 1 .. len' : it' = s[k] /\ \A j \in 1 .. k - 1 : val'[s[j]] # arg'
    BY <1>1, <1>2, <1>6, <2>1
  <2> QED
    BY <1>1, <1>2, <2>2 DEF Looks
<1> QED
  BY <1>7, <1>8

\* _list_at starts at the end the index is counted from.
LEMMA AtStartLooks ==
  ASSUME TypeOK, NEW s \in [1 .. len -> Nodes], IsChain(s), NEW k \in Indices, AtStart(k),
         pc' = "at"
  PROVE  Looks(s)'
<1> DEFINE index == IF k < 0 THEN Complement(k) ELSE k
<1>1. index \in Nat /\ k \in Int /\ len \in Nat /\ (k < 0 => index = - k - 1)
  BY DEF Indices, Complement, TypeOK
<1>2. /\ index < len /\ count' = index /\ (backwards' <=> k < 0) /\ arg' = k
      /\ it' = IF k < 0 THEN tail ELSE head
      /\ len' = len
  BY DEF AtStart, Answers, fields
<1>3. len > 0 /\ head = s[1] /\ tail = s[len] /\ 1 \in 1 .. len' /\ len \in 1 .. len'
  BY <1>1, <1>2, ChainEnds
<1>4. CASE k < 0
  BY <1>1, <1>2, <1>3, <1>4 DEF Looks
<1>5. CASE ~ (k < 0)
  BY <1>1, <1>2, <1>3, <1>5 DEF Looks
<1> QED
  BY <1>4, <1>5

\* A step of _list_at is one node nearer, and count knows it.
LEMMA AtStepLooks ==
  ASSUME TypeOK, NEW s \in [1 .. len -> Nodes], OnChain(s), Looks(s), AtStep,
         pc' = "at"
  PROVE  Looks(s)'
<1>1. /\ pc = "at" /\ arg \in Indices /\ (backwards <=> arg < 0) /\ arg \in Int
      /\ len' = len /\ backwards' = backwards /\ len \in Nat /\ count \in Nat
      /\ IsChain(s)
  BY DEF AtStep, Looks, OnChain, TypeOK, fields, Indices
<1>2. count # 0 /\ count' = count - 1 /\ arg' = arg
  BY DEF AtStep, Answers
<1>3. PICK i \in 1 .. len :
        it = s[i] /\ IF backwards THEN i - count = len + arg + 1 ELSE i + count = arg + 1
  BY <1>1 DEF Looks
<1>4. IF backwards THEN count < i ELSE count <= len - i
  <2>1. PICK j \in 1 .. len : it = s[j] /\ IF backwards THEN count < j ELSE count <= len - j
    BY <1>1 DEF OnChain
  <2>2. \A a, b \in 1 .. len : s[a] = s[b] => a = b
    BY <1>1 DEF IsChain
  <2>3. i = j
    BY <1>3, <2>1, <2>2
  <2> QED
    BY <2>1, <2>3
<1>5. it # NULL /\ it' = IF backwards THEN prev[it] ELSE next[it]
  BY <1>3, LinkedListAssumption DEF AtStep, Moves
<1>6. CASE backwards
  <2>1. i - 1 \in 1 .. len' /\ it' = s[i - 1]
    BY <1>1, <1>2, <1>3, <1>4, <1>5, <1>6 DEF IsChain
  <2>2. (i - 1) - count' = len' + arg' + 1
    BY <1>1, <1>2, <1>3, <1>6
  <2> QED
    BY <1>1, <1>2, <1>6, <2>1, <2>2 DEF Looks
<1>7. CASE ~ backwards
  <2>1. i + 1 \in 1 .. len' /\ it' = s[i + 1]
    BY <1>1, <1>2, <1>3, <1>4, <1>5, <1>7 DEF IsChain
  <2>2. (i + 1) + count' = arg' + 1
    BY <1>1, <1>2, <1>3, <1>7
  <2> QED
    BY <1>1, <1>2, <1>7, <2>1, <2>2 DEF Looks
<1> QED
  BY <1>6, <1>7

LEMMA LooksKept ==
  ASSUME IInv, IInv', LookupsOnTheirWay, [Next]_vars
  PROVE  LookupsOnTheirWay'
<1> SUFFICES ASSUME pc' \in {"find", "at"} PROVE Looks(Forward)'
  BY DEF LookupsOnTheirWay
<1>1. PICK s \in [1 .. len -> Nodes] : OnChain(s)
  BY DEF IInv
<1>2. TypeOK /\ TypeOK'
  BY DEF IInv
<1>3. ASSUME UNCHANGED <<head, next, len>>, IsChain(s), Looks(s)' PROVE Looks(Forward)'
  <2>1. Forward = s /\ Forward' = Forward
    BY <1>2, <1>3, ForwardIs, ForwardStays
  <2> QED
    BY <1>3, <2>1 DEF Looks
<1>4. ASSUME pc \in {"find", "at"} PROVE IsChain(s) /\ Looks(s)
  <2>1. IsChain(s)
    BY <1>1, <1>4 DEF OnChain
  <2> QED
    BY <1>2, <1>4, <2>1, ForwardIs DEF LookupsOnTheirWay
<1>5. ASSUME UNCHANGED <<head, next, len, val, pc, it, arg, count, backwards>>
      PROVE  Looks(Forward)'
  <2>1. IsChain(s) /\ Looks(s)
    BY <1>4, <1>5
  <2>2. Looks(s)'
    BY <1>5, <2>1 DEF Looks
  <2> QED
    BY <1>3, <1>5, <2>1, <2>2
<1>6. ASSUME NEW n \in Nodes, NodeFree(n) PROVE Looks(Forward)'
  BY <1>5, <1>6 DEF NodeFree, fields, iterator
<1>7. ASSUME NEW v \in Vals, FindStart(v) PROVE Looks(Forward)'
  <2>1. IsChain(s) /\ UNCHANGED <<head, next, len>>
    BY <1>1, <1>7 DEF FindStart, OnChain, fields
  <2> QED
    BY <1>2, <1>3, <1>7, <2>1, FindStartLooks
<1>8. ASSUME FindStep PROVE Looks(Forward)'
  <2>1. IsChain(s) /\ Looks(s) /\ UNCHANGED <<head, next, len>> /\ pc' = "find"
    BY <1>4, <1>8 DEF FindStep, Answers, fields
  <2> QED
    BY <1>2, <1>3, <1>8, <2>1, FindStepLooks
<1>9. ASSUME NEW k \in Indices, AtStart(k) PROVE Looks(Forward)'
  <2>1. IsChain(s) /\ UNCHANGED <<head, next, len>> /\ pc' = "at"
    BY <1>1, <1>9 DEF AtStart, Answers, OnChain, fields
  <2> QED
    BY <1>2, <1>3, <1>9, <2>1, AtStartLooks
<1>10. ASSUME AtStep PROVE Looks(Forward)'
  <2>1. IsChain(s) /\ Looks(s) /\ UNCHANGED <<head, next, len>> /\ pc' = "at"
    BY <1>4, <1>10 DEF AtStep, Answers, fields
  <2> QED
    BY <1>1, <1>2, <1>3, <1>10, <2>1, AtStepLooks
<1>11. ASSUME UNCHANGED vars PROVE Looks(Forward)'
  BY <1>5, <1>11 DEF vars, fields, iterator
<1>12. ASSUME NEW n \in Nodes, NEW v \in Vals, NodeNew(n, v) PROVE FALSE
  BY <1>12 DEF NodeNew
<1>13. ASSUME NEW n \in Nodes, RPush(n) \/ LPush(n) \/ Remove(n) PROVE FALSE
  BY <1>13 DEF RPush, LPush, Remove
<1>14. ASSUME \/ RPop \/ LPop \/ \E op \in {"rpop", "lpop"} : PopNothing(op)
              \/ NoIterator \/ DestroyStart
       PROVE  FALSE
  BY <1>14 DEF RPop, LPop, PopNothing, NoIterator, DestroyStart
<1>15. ASSUME DestroyStep PROVE FALSE
  BY <1>15 DEF DestroyStep
<1> QED
  BY <1>6, <1>7, <1>8, <1>9, <1>10, <1>11, <1>12, <1>13, <1>14, <1>15 DEF Next

LEMMA LookupsInvariant == Spec => [](IInv /\ LookupsOnTheirWay)
<1>1. Init => LookupsOnTheirWay
  BY DEF Init, LookupsOnTheirWay
<1>2. IInv /\ LookupsOnTheirWay /\ [Next]_vars => (IInv /\ LookupsOnTheirWay)'
  BY NextChain, LooksKept
<1> QED
  BY <1>1, <1>2, InitChain, PTL DEF Spec

\* A step that leaves the chain, the values and the answer alone is none to a user.
LEMMA QuietStep ==
  ASSUME UNCHANGED <<head, next, len, val, last>>,
         pc \in {"destroy", "gone"} <=> pc' \in {"destroy", "gone"}
  PROVE  UNCHANGED Abstract!vars
<1>1. Forward' = Forward
  BY ForwardStays
<1> QED
  BY <1>1 DEF Abstract!vars

\* A lookup that answers leaves the sequence as it is.
LEMMA AnswerKeeps ==
  ASSUME UNCHANGED <<head, next, len, val>>,
         pc \notin {"destroy", "gone"}, pc' \notin {"destroy", "gone"}
  PROVE  Contents' = Contents /\ val' = val
<1>1. Forward' = Forward
  BY ForwardStays
<1> QED
  BY <1>1 DEF Contents

\* _list_rpop and _list_lpop of an empty list.
LEMMA PopNothingIs ==
  ASSUME TypeOK, NEW s \in [1 .. len -> Nodes], IsChain(s), NEW op, PopNothing(op)
  PROVE  Abstract!PopNothing(op)
<1>1. pc = "idle" /\ pc' = "idle" /\ len = 0 /\ UNCHANGED <<head, next, len, val>>
  BY DEF PopNothing, fields
<1>2. Contents = s /\ s \in Seq(Nodes) /\ Len(s) = 0
  BY <1>1, ContentsAre
<1>3. Contents = <<>> /\ Contents' = Contents
  BY <1>1, <1>2, AnswerKeeps
<1> QED
  BY <1>1, <1>3 DEF Contents, PopNothing, Abstract!PopNothing, Abstract!Answer

LEMMA NoIteratorFails == NoIterator => Abstract!LookupFails
<1> SUFFICES ASSUME NoIterator PROVE Abstract!LookupFails
  OBVIOUS
<1>1. pc = "idle" /\ pc' = "idle" /\ UNCHANGED <<head, next, len, val>>
  BY DEF NoIterator, fields
<1>2. Contents' = Contents
  BY <1>1, AnswerKeeps
<1> QED
  BY <1>1, <1>2 DEF Contents, NoIterator, Abstract!LookupFails, Abstract!Answer

\* _list_find answers with the first node that has the value.
LEMMA FindStepFinds ==
  ASSUME TypeOK, NEW s \in [1 .. len -> Nodes], IsChain(s), Looks(s), FindStep
  PROVE  \/ UNCHANGED Abstract!vars
         \/ \E v \in Vals : Abstract!Find(v)
<1>1. pc = "find" /\ arg \in Vals /\ len \in Nat /\ UNCHANGED <<head, next, len, val>>
  BY DEF FindStep, Looks, TypeOK, fields
<1>2. CASE ~ (it = NULL \/ val[it] = arg)
  <2>1. UNCHANGED <<pc, last>>
    BY <1>2 DEF FindStep
  <2> QED
    BY <1>1, <2>1, QuietStep
<1>3. CASE it = NULL \/ val[it] = arg
  <2>1. pc' = "idle" /\ last' = Abstract!Answer("find", arg, it)
    BY <1>3 DEF FindStep, Answers, Abstract!Answer
  <2>2. Contents = s /\ DOMAIN s = 1 .. len /\ Contents' = Contents
    BY <1>1, <2>1, ContentsAre, AnswerKeeps
  <2> DEFINE holders == {i \in DOMAIN s : val[s[i]] = arg}
  <2>3. it = IF holders = {} THEN NULL ELSE s[Abstract!Min(holders)]
    <3>1. CASE \E i \in 1 .. len : it = s[i] /\ \A j \in 1 .. i - 1 : val[s[j]] # arg
      <4>1. PICK i \in 1 .. len : it = s[i] /\ \A j \in 1 .. i - 1 : val[s[j]] # arg
        BY <3>1
      <4>2. val[s[i]] = arg
        BY <1>3, <4>1, LinkedListAssumption
      <4>3. i \in holders /\ \A j \in holders : i <= j
        BY <1>1, <2>2, <4>1, <4>2
      <4>4. \A j \in holders : j \in Int
        BY <1>1, <2>2
      <4> HIDE DEF holders
      <4>5. \A x \in holders : (\A y \in holders : x =< y) => x = i
        BY <4>3, <4>4
      <4>6. (CHOOSE x \in holders : \A y \in holders : x =< y) = i
        BY <4>3, <4>5
      <4>7. Abstract!Min(holders) = i
        BY <4>6 DEF Abstract!Min
      <4> QED
        BY <4>1, <4>3, <4>7
    <3>2. CASE it = NULL /\ \A j \in 1 .. len : val[s[j]] # arg
      BY <2>2, <3>2
    <3> QED
      BY <1>1, <3>1, <3>2 DEF Looks
  <2>4. Abstract!Find(arg)
    BY <1>1, <2>1, <2>2, <2>3 DEF Contents, Abstract!Find
  <2> QED
    BY <1>1, <2>4
<1> QED
  BY <1>2, <1>3

\* _list_at of a position beyond the end answers NULL.
LEMMA AtStartAnswers ==
  ASSUME TypeOK, NEW s \in [1 .. len -> Nodes], IsChain(s), NEW k \in Indices, AtStart(k)
  PROVE  UNCHANGED Abstract!vars \/ Abstract!At(k)
<1> DEFINE index == IF k < 0 THEN Complement(k) ELSE k
<1>1. /\ pc = "idle" /\ len \in Nat /\ k \in Int /\ (k < 0 => index = - k - 1)
      /\ UNCHANGED <<head, next, len, val>>
  BY DEF AtStart, TypeOK, fields, Indices, Complement
<1>2. CASE index < len
  <2>1. pc' = "at" /\ UNCHANGED last
    BY <1>2 DEF AtStart
  <2> QED
    BY <1>1, <2>1, QuietStep
<1>3. CASE ~ (index < len)
  <2>1. pc' = "idle" /\ last' = Abstract!Answer("at", k, NULL)
    BY <1>3 DEF AtStart, Answers, Abstract!Answer
  <2>2. Contents = s /\ DOMAIN s = 1 .. len /\ Len(s) = len /\ Contents' = Contents
    BY <1>1, <2>1, ContentsAre, AnswerKeeps
  <2>3. (IF k < 0 THEN Len(s) + k + 1 ELSE k + 1) \notin DOMAIN s
    BY <1>1, <1>3, <2>2
  <2>4. Abstract!At(k)
    BY <1>1, <2>1, <2>2, <2>3 DEF Contents, Abstract!At
  <2> QED
    BY <2>4
<1> QED
  BY <1>2, <1>3

\* _list_at answers with the node at the position.
LEMMA AtStepAnswers ==
  ASSUME TypeOK, NEW s \in [1 .. len -> Nodes], IsChain(s), Looks(s), AtStep
  PROVE  \/ UNCHANGED Abstract!vars
         \/ \E k \in Indices : Abstract!At(k)
<1>1. /\ pc = "at" /\ len \in Nat /\ arg \in Indices /\ arg \in Int
      /\ (backwards <=> arg < 0) /\ UNCHANGED <<head, next, len, val>>
  BY DEF AtStep, Looks, TypeOK, fields, Indices
<1>2. CASE count # 0
  <2>1. UNCHANGED <<pc, last>>
    BY <1>2 DEF AtStep
  <2> QED
    BY <1>1, <2>1, QuietStep
<1>3. CASE count = 0
  <2>1. pc' = "idle" /\ last' = Abstract!Answer("at", arg, it)
    BY <1>3 DEF AtStep, Answers, Abstract!Answer
  <2>2. Contents = s /\ DOMAIN s = 1 .. len /\ Len(s) = len /\ Contents' = Contents
    BY <1>1, <2>1, ContentsAre, AnswerKeeps
  <2>3. PICK i \in 1 .. len :
          it = s[i] /\ IF backwards THEN i - count = len + arg + 1 ELSE i + count = arg + 1
    BY <1>1 DEF Looks
  <2>4. i = (IF arg < 0 THEN Len(s) + arg + 1 ELSE arg + 1) /\ i \in DOMAIN s
    BY <1>1, <1>3, <2>2, <2>3
  <2>5. Abstract!At(arg)
    BY <1>1, <2>1, <2>2, <2>3, <2>4 DEF Contents, Abstract!At
  <2> QED
    BY <1>1, <2>5
<1> QED
  BY <1>2, <1>3

\* To its users a list is gone when _list_destroy begins.
LEMMA DestroyIs ==
  /\ DestroyStart => Abstract!Destroy
  /\ DestroyStep => UNCHANGED Abstract!vars
<1>1. ASSUME DestroyStart PROVE Abstract!Destroy
  <2>1. pc' = "destroy" /\ val' = val /\ last' = last
    BY <1>1 DEF DestroyStart
  <2>2. Contents' = <<>>
    BY <2>1 DEF Contents
  <2> QED
    BY <2>1, <2>2 DEF Contents, Abstract!Destroy
<1>2. ASSUME DestroyStep PROVE UNCHANGED Abstract!vars
  <2>1. UNCHANGED <<head, next, len, val, last>>
    BY <1>2 DEF DestroyStep, fields
  <2>2. pc = "destroy" /\ pc' \in {"destroy", "gone"}
    BY <1>2 DEF DestroyStep
  <2> QED
    BY <2>1, <2>2, QuietStep
<1> QED
  BY <1>1, <1>2

\* The positions asked for are those of NodeSequence.
LEMMA IndicesAreThose ==
  Indices = -Abstract!Cardinality(Nodes) - 1 .. Abstract!Cardinality(Nodes)
<1>1. Cardinality(Nodes) = Abstract!Cardinality(Nodes)
  BY DEF Cardinality, Abstract!Cardinality
<1> QED
  BY <1>1 DEF Indices

\* Every step of the chain of pointers is a step of the sequence or none.
LEMMA StepImplements ==
  ASSUME IInv, IInv', LookupsOnTheirWay, [Next]_vars
  PROVE  [Abstract!Next]_(Abstract!vars)
<1>1. TypeOK /\ TypeOK'
  BY DEF IInv
<1>2. PICK s \in [1 .. len -> Nodes] : OnChain(s)
  BY DEF IInv
<1>3. pc \notin {"destroy", "gone"} => IsChain(s)
  BY <1>2 DEF OnChain
<1>4. pc \in {"find", "at"} => Looks(s)
  BY <1>1, <1>3, ForwardIs DEF LookupsOnTheirWay
<1>5. ASSUME NEW n \in Nodes, NEW v \in Vals, NodeNew(n, v) PROVE Abstract!Next
  <2>1. IsChain(s)
    BY <1>3, <1>5 DEF NodeNew
  <2>2. Abstract!MakeNode(n, v)
    BY <1>1, <1>5, <2>1, NodeNewMakes
  <2> QED
    BY <2>2 DEF Abstract!Next
<1>6. ASSUME NEW n \in Nodes, NodeFree(n) PROVE UNCHANGED Abstract!vars
  BY <1>6, QuietStep DEF NodeFree, fields
<1>7. ASSUME NEW n \in Nodes, RPush(n) PROVE Abstract!Next
  <2>1. IsChain(s)
    BY <1>3, <1>7 DEF RPush
  <2>2. Abstract!PushRight(n)
    BY <1>1, <1>7, <2>1, RPushAppends
  <2> QED
    BY <2>2 DEF Abstract!Next
<1>8. ASSUME NEW n \in Nodes, LPush(n) PROVE Abstract!Next
  <2>1. IsChain(s)
    BY <1>3, <1>8 DEF LPush
  <2>2. Abstract!PushLeft(n)
    BY <1>1, <1>8, <2>1, LPushPrepends
  <2> QED
    BY <2>2 DEF Abstract!Next
<1>9. ASSUME NEW n \in Nodes, Remove(n) PROVE Abstract!Next
  <2>1. IsChain(s)
    BY <1>3, <1>9 DEF Remove
  <2>2. \E i \in DOMAIN Contents : Abstract!Take(i)
    BY <1>1, <1>9, <2>1, RemoveTakes
  <2> QED
    BY <2>2 DEF Contents, Abstract!Next
<1>10. ASSUME RPop PROVE Abstract!Next
  <2>1. IsChain(s)
    BY <1>3, <1>10 DEF RPop
  <2>2. Abstract!PopRight
    BY <1>1, <1>10, <2>1, RPopTakesLast
  <2> QED
    BY <2>2 DEF Abstract!Next
<1>11. ASSUME LPop PROVE Abstract!Next
  <2>1. IsChain(s)
    BY <1>3, <1>11 DEF LPop
  <2>2. Abstract!PopLeft
    BY <1>1, <1>11, <2>1, LPopTakesHead
  <2> QED
    BY <2>2 DEF Abstract!Next
<1>12. ASSUME NEW op \in {"rpop", "lpop"}, PopNothing(op) PROVE Abstract!Next
  <2>1. IsChain(s)
    BY <1>3, <1>12 DEF PopNothing
  <2>2. Abstract!PopNothing(op)
    BY <1>1, <1>12, <2>1, PopNothingIs
  <2> QED
    BY <2>2 DEF Abstract!Next
<1>13. ASSUME NoIterator PROVE Abstract!Next
  BY <1>13, NoIteratorFails DEF Abstract!Next
<1>14. ASSUME NEW v \in Vals, FindStart(v) PROVE UNCHANGED Abstract!vars
  BY <1>14, QuietStep DEF FindStart, fields
<1>15. ASSUME FindStep PROVE Abstract!Next \/ UNCHANGED Abstract!vars
  <2>1. IsChain(s) /\ Looks(s)
    BY <1>3, <1>4, <1>15 DEF FindStep
  <2>2. UNCHANGED Abstract!vars \/ \E v \in Vals : Abstract!Find(v)
    BY <1>1, <1>15, <2>1, FindStepFinds
  <2> QED
    BY <2>2 DEF Abstract!Next
<1>16. ASSUME NEW k \in Indices, AtStart(k) PROVE Abstract!Next \/ UNCHANGED Abstract!vars
  <2>1. IsChain(s)
    BY <1>3, <1>16 DEF AtStart
  <2>2. UNCHANGED Abstract!vars \/ Abstract!At(k)
    BY <1>1, <1>16, <2>1, AtStartAnswers
  <2> QED
    BY <1>16, <2>2, IndicesAreThose DEF Abstract!Next
<1>17. ASSUME AtStep PROVE Abstract!Next \/ UNCHANGED Abstract!vars
  <2>1. IsChain(s) /\ Looks(s)
    BY <1>3, <1>4, <1>17 DEF AtStep
  <2>2. UNCHANGED Abstract!vars \/ \E k \in Indices : Abstract!At(k)
    BY <1>1, <1>17, <2>1, AtStepAnswers
  <2> QED
    BY <2>2, IndicesAreThose DEF Abstract!Next
<1>18. ASSUME DestroyStart PROVE Abstract!Next
  BY <1>18, DestroyIs DEF Abstract!Next
<1>19. ASSUME DestroyStep PROVE UNCHANGED Abstract!vars
  BY <1>19, DestroyIs
<1>20. ASSUME UNCHANGED vars PROVE UNCHANGED Abstract!vars
  BY <1>20, QuietStep DEF vars, fields
<1> HIDE DEF Abstract!Next, Abstract!vars
<1> QED
  BY <1>5, <1>6, <1>7, <1>8, <1>9, <1>10, <1>11, <1>12, <1>13, <1>14, <1>15,
     <1>16, <1>17, <1>18, <1>19, <1>20 DEF Next

\* A new list is an empty sequence.
LEMMA InitImplements == Init => Abstract!Init
<1> SUFFICES ASSUME Init PROVE Abstract!Init
  OBVIOUS
<1>1. PICK s \in [1 .. len -> Nodes] : OnChain(s)
  BY InitChain DEF IInv
<1>2. TypeOK /\ pc = "idle" /\ len = 0 /\ IsChain(s)
  BY <1>1, InitChain DEF IInv, Init, OnChain
<1>3. Contents = s /\ s \in Seq(Nodes) /\ Len(s) = 0
  BY <1>2, ContentsAre
<1>4. Contents = <<>>
  BY <1>3
<1> QED
  BY <1>4 DEF Contents, Init, Nothing, Abstract!Init, Abstract!Nothing, Abstract!Answer

\* To its users the chain of pointers is the sequence NodeSequence describes: what
\* they push, pop, remove and look up by value or position, from either end, comes
\* out as from a sequence, however many nodes there are.
THEOREM ListIsSequence == Spec => IsSequence
<1>1. (IInv /\ LookupsOnTheirWay) /\ (IInv /\ LookupsOnTheirWay)' /\ [Next]_vars
      => [Abstract!Next]_(Abstract!vars)
  BY StepImplements
<1> QED
  BY <1>1, InitImplements, LookupsInvariant, PTL DEF Spec, IsSequence, Abstract!Spec

=============================================================================
