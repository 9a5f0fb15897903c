---------------------------- MODULE SequenceLemmas ----------------------------
(***************************************************************************)
(* What the proofs need to know of the sequences that stand for the lists  *)
(* of utils_list.c in SyncCall and SubdevSession: the effect of            *)
(* _list_remove (RemoveAt) and of _list_rpush (Append), position by        *)
(* position, and on the set of what is listed.                             *)
(***************************************************************************)
EXTENDS Integers, Sequences, SequencesExt, SequenceTheorems, TLAPS

\* Unlinking position i of a list leaves the entries before and after it, in
\* order (the effect of _list_remove on the sequence the list stands for).
LEMMA RemoveAtProperties ==
  ASSUME NEW S, NEW s \in Seq(S), NEW i \in 1 .. Len(s)
  PROVE  /\ RemoveAt(s, i) \in Seq(S)
         /\ Len(RemoveAt(s, i)) = Len(s) - 1
         /\ \A j \in 1 .. Len(s) - 1 :
              RemoveAt(s, i)[j] = IF j < i THEN s[j] ELSE s[j + 1]
<1> DEFINE l == SubSeq(s, 1, i - 1)
           r == SubSeq(s, i + 1, Len(s))
<1>0. Len(s) \in Nat /\ i \in Nat
  OBVIOUS
<1>1. /\ l \in Seq(S) /\ Len(l) = i - 1
      /\ \A j \in 1 .. i - 1 : l[j] = s[j]
  BY <1>0
<1>2. /\ r \in Seq(S) /\ Len(r) = Len(s) - i
      /\ \A j \in 1 .. Len(s) - i : r[j] = s[i + j]
  BY <1>0
<1>3. RemoveAt(s, i) = l \o r
  BY DEF RemoveAt
<1> HIDE DEF l, r
<1>4. /\ l \o r \in Seq(S)
      /\ Len(l \o r) = Len(l) + Len(r)
      /\ \A j \in 1 .. Len(l) + Len(r) :
           (l \o r)[j] = IF j <= Len(l) THEN l[j] ELSE r[j - Len(l)]
  BY <1>1, <1>2, ConcatProperties
<1>5. /\ Len(l \o r) = Len(s) - 1
      /\ \A j \in 1 .. Len(s) - 1 :
           (l \o r)[j] = IF j < i THEN s[j] ELSE s[j + 1]
  BY <1>0, <1>1, <1>2, <1>4
<1> QED
  BY <1>3, <1>4, <1>5

\* No entry is listed twice.
NoRepeats(s) == \A i, j \in DOMAIN s : s[i] = s[j] => i = j

\* Pushing an entry lists it beside those listed before, and none twice if it
\* is new.
LEMMA AppendSet ==
  ASSUME NEW S, NEW s \in Seq(S), NEW e \in S
  PROVE  /\ Append(s, e) \in Seq(S)
         /\ ToSet(Append(s, e)) = ToSet(s) \union {e}
         /\ NoRepeats(s) /\ e \notin ToSet(s) => NoRepeats(Append(s, e))
<1>1. /\ Append(s, e) \in Seq(S)
      /\ DOMAIN s = 1 .. Len(s) /\ Len(s) \in Nat
      /\ DOMAIN Append(s, e) = 1 .. Len(s) + 1
      /\ \A i \in 1 .. Len(s) : Append(s, e)[i] = s[i]
      /\ Append(s, e)[Len(s) + 1] = e
  BY AppendProperties
<1> DEFINE r == Append(s, e)
<1> HIDE DEF r
<1>2. /\ DOMAIN r = 1 .. Len(s) + 1
      /\ \A i \in 1 .. Len(s) : r[i] = s[i]
      /\ r[Len(s) + 1] = e
  BY <1>1 DEF r
<1>3. ToSet(r) = ToSet(s) \union {e}
  <2>1. \A x \in ToSet(r) : x \in ToSet(s) \union {e}
    BY <1>1, <1>2 DEF ToSet
  <2>2. \A x \in ToSet(s) \union {e} : x \in ToSet(r)
    <3>1. \A i \in 1 .. Len(s) + 1 : r[i] \in ToSet(r)
      BY <1>2 DEF ToSet
    <3>2. Len(s) + 1 \in 1 .. Len(s) + 1 /\ 1 .. Len(s) \subseteq 1 .. Len(s) + 1
      BY <1>1
    <3> QED
      BY <1>1, <1>2, <3>1, <3>2 DEF ToSet
  <2> QED
    BY <2>1, <2>2
<1>4. NoRepeats(s) /\ e \notin ToSet(s) => NoRepeats(r)
  BY <1>1, <1>2 DEF NoRepeats, ToSet
<1> QED
  BY <1>1, <1>3, <1>4 DEF r

\* Unlinking lists nothing new.
LEMMA RemoveSubset ==
  ASSUME NEW S, NEW s \in Seq(S), NEW i \in 1 .. Len(s)
  PROVE  ToSet(RemoveAt(s, i)) \subseteq ToSet(s)
<1> DEFINE r == RemoveAt(s, i)
<1>1. /\ r \in Seq(S) /\ Len(r) = Len(s) - 1
      /\ \A j \in 1 .. Len(s) - 1 : r[j] = IF j < i THEN s[j] ELSE s[j + 1]
  BY RemoveAtProperties
<1> HIDE DEF r
<1>2. /\ Len(s) \in Nat /\ i \in 1 .. Len(s)
      /\ DOMAIN s = 1 .. Len(s) /\ DOMAIN r = 1 .. Len(s) - 1
  BY <1>1
<1>3. \A j \in 1 .. Len(s) - 1 : \E k \in 1 .. Len(s) : r[j] = s[k]
  <2> SUFFICES ASSUME NEW j \in 1 .. Len(s) - 1
               PROVE  \E k \in 1 .. Len(s) : r[j] = s[k]
    OBVIOUS
  <2>1. j \in 1 .. Len(s) /\ j + 1 \in 1 .. Len(s)
    BY <1>2
  <2> QED
    BY <1>1, <2>1
<1>4. ToSet(r) \subseteq ToSet(s)
  BY <1>2, <1>3 DEF ToSet
<1> QED
  BY <1>4 DEF r

\* Unlinking one entry of a list without repetitions unlists that entry only.
LEMMA RemoveSet ==
  ASSUME NEW S, NEW s \in Seq(S), NEW i \in 1 .. Len(s), NoRepeats(s)
  PROVE  /\ RemoveAt(s, i) \in Seq(S)
         /\ ToSet(RemoveAt(s, i)) = ToSet(s) \ {s[i]}
         /\ NoRepeats(RemoveAt(s, i))
<1> DEFINE r == RemoveAt(s, i)
<1>1. /\ r \in Seq(S) /\ Len(r) = Len(s) - 1
      /\ \A j \in 1 .. Len(s) - 1 : r[j] = IF j < i THEN s[j] ELSE s[j + 1]
  BY RemoveAtProperties
<1> HIDE DEF r
<1>2. /\ Len(s) \in Nat /\ i \in Nat /\ i <= Len(s) /\ 1 <= i
      /\ DOMAIN s = 1 .. Len(s) /\ DOMAIN r = 1 .. Len(s) - 1
  BY <1>1
<1>3. ASSUME NEW x \in ToSet(r) PROVE x \in ToSet(s) \ {s[i]}
  <2>1. PICK j \in 1 .. Len(s) - 1 : x = r[j]
    BY <1>2, <1>3 DEF ToSet
  <2>2. \E k \in 1 .. Len(s) : k # i /\ x = s[k]
    <3>1. CASE j < i
      BY <1>1, <1>2, <2>1, <3>1
    <3>2. CASE ~ (j < i)
      BY <1>1, <1>2, <2>1, <3>2
    <3> QED
      BY <3>1, <3>2
  <2> QED
    BY <1>2, <2>2 DEF ToSet, NoRepeats
<1>4. ASSUME NEW x \in ToSet(s) \ {s[i]} PROVE x \in ToSet(r)
  <2>1. PICK k \in 1 .. Len(s) : x = s[k] /\ k # i
    BY <1>2, <1>4 DEF ToSet
  <2>2. \E j \in 1 .. Len(s) - 1 : x = r[j]
    <3>1. CASE k < i
      BY <1>1, <1>2, <2>1, <3>1
    <3>2. CASE i < k
      <4>1. k - 1 \in 1 .. Len(s) - 1 /\ ~ (k - 1 < i) /\ (k - 1) + 1 = k
        BY <1>2, <3>2
      <4> QED
        BY <1>1, <2>1, <4>1
    <3> QED
      BY <1>2, <2>1, <3>1, <3>2
  <2> QED
    BY <1>2, <2>2 DEF ToSet
<1>5. NoRepeats(r)
  <2> SUFFICES ASSUME NEW j \in 1 .. Len(s) - 1, NEW k \in 1 .. Len(s) - 1, j # k
               PROVE  r[j] # r[k]
    BY <1>2 DEF NoRepeats
  <2>1. \A a \in 1 .. Len(s), b \in 1 .. Len(s) : a # b => s[a] # s[b]
    BY <1>2 DEF NoRepeats
  <2> QED
    BY <1>1, <1>2, <2>1
<1> QED
  BY <1>1, <1>3, <1>4, <1>5 DEF r

\* What is listed are the entries at its positions.
LEMMA ListedAt ==
  ASSUME NEW S, NEW s \in Seq(S)
  PROVE  /\ ToSet(s) \subseteq S
         /\ \A i \in 1 .. Len(s) : s[i] \in ToSet(s) /\ s[i] \in S
         /\ \A x \in ToSet(s) : \E i \in 1 .. Len(s) : s[i] = x
BY DEF ToSet

=============================================================================
