---------------------------- MODULE MessagingProofs ----------------------------
(***************************************************************************)
(* What Messaging promises, for messages, topics and buffers of any        *)
(* length.                                                                 *)
(***************************************************************************)
EXTENDS Messaging, CodecProofs

(***************************************************************************)
(* Lengths.                                                                *)
(***************************************************************************)

LEMMA EntryLengths == EntryBufLen \in Nat
  BY MessagingAssumption

\* h[k] is the length of the first k of the n pieces of s.
TextLenIs(h, n, s) ==
  /\ h[0] = 0
  /\ \A k \in 1 .. n : h[k] = h[k - 1] + PieceLen(s[k])
  /\ TextLen(s) = h[n]

LEMMA TextLenSteps ==
  ASSUME NEW S, NEW s \in Seq(S)
  PROVE  \E h \in [0 .. Len(s) -> Int] : TextLenIs(h, Len(s), s)
<1> DEFINE n == Len(s)
           step(v, p) == v + PieceLen(p)
           g == [x \in (1 .. n) \X Int |-> step(x[2], s[x[1]])]
<1>1. n \in Nat /\ DOMAIN s = 1 .. n /\ 0 \in Int
  OBVIOUS
<1>2. \A k \in 1 .. n, v \in Int : step(v, s[k]) \in Int
  BY DEF PieceLen
<1> HIDE DEF n, step
<1>3. g \in [(1 .. n) \X Int -> Int] /\ \A k \in 1 .. n, v \in Int : g[<<k, v>>] = step(v, s[k])
  BY <1>2
<1> HIDE DEF g
<1>4. PICK f \in [SUBSET (1 .. n) -> Int], h \in [0 .. n -> Int] :
           /\ \A T \in SUBSET (1 .. n) :
                f[T] = IF T = {} THEN 0 ELSE g[<<Max(T), f[T \ {Max(T)}]>>]
           /\ h[0] = 0
           /\ \A k \in 1 .. n : h[k] = g[<<k, h[k - 1]>>]
           /\ f[1 .. n] = h[n]
  <2>1. PICK f \in [SUBSET (1 .. n) -> Int], h \in [0 .. n -> Int] : IsFold(n, 0, g, f, h)
    BY <1>1, <1>3, FoldExists
  <2> QED
    BY <2>1 DEF IsFold
<1> DEFINE Folds(e) == e = [T \in SUBSET (1 .. n) |->
                              IF T = {} THEN 0 ELSE step(e[T \ {Max(T)}], s[Max(T)])]
<1>5. Folds(f)
  <2>1. ASSUME NEW T \in SUBSET (1 .. n), T # {}
        PROVE  f[T] = step(f[T \ {Max(T)}], s[Max(T)])
    <3>1. Max(T) \in 1 .. n /\ f[T \ {Max(T)}] \in Int
      BY <1>1, <2>1, MaxIn
    <3> QED
      BY <1>3, <1>4, <2>1, <3>1
  <2>2. f = [T \in SUBSET (1 .. n) |-> f[T]]
    OBVIOUS
  <2> QED
    BY <1>4, <2>1, <2>2
<1>6. \A e : Folds(e) => e = f
  <2> SUFFICES ASSUME NEW e, Folds(e) PROVE e = f
    OBVIOUS
  <2>1. \A T \in SUBSET (1 .. n) :
          /\ e[T] = IF T = {} THEN 0 ELSE step(e[T \ {Max(T)}], s[Max(T)])
          /\ f[T] = IF T = {} THEN 0 ELSE step(f[T \ {Max(T)}], s[Max(T)])
    BY <1>5
  <2>2. {} \in SUBSET (1 .. n)
    OBVIOUS
  <2>3. e = [T \in SUBSET (1 .. n) |-> e[T]] /\ f = [T \in SUBSET (1 .. n) |-> f[T]]
    OBVIOUS
  <2> HIDE DEF Folds
  <2>4. f[{}] = e[{}]
    BY <2>1, <2>2
  <2>5. \A T \in SUBSET (1 .. n) :
          T # {} /\ f[T \ {Max(T)}] = e[T \ {Max(T)}] => f[T] = e[T]
    BY <2>1
  <2>6. SameSteps(n, f, e)
    BY <2>3, <2>4, <2>5, Zenon DEF SameSteps
  <2> QED
    BY <1>1, <2>6, FoldUnique
<1>7. TextLen(s) = (CHOOSE e : Folds(e))[1 .. n]
  BY <1>1 DEF TextLen, FoldLeft, MapThenFoldSet, step
<1>8. TextLen(s) = h[n]
  <2> HIDE DEF Folds
  <2> QED
    BY <1>4, <1>5, <1>6, <1>7
<1>9. \A k \in 1 .. n : h[k] = step(h[k - 1], s[k])
  <2> TAKE k \in 1 .. n
  <2>1. h[k - 1] \in Int
    BY <1>1
  <2> QED
    BY <1>3, <1>4, <2>1
<1>10. TextLenIs(h, n, s)
  BY <1>4, <1>8, <1>9, Zenon DEF TextLenIs, step
<1> QED
  BY <1>10 DEF n

\* h[k] is the length of device_list_msg after k of the n entries of s.
EntriesLenIs(h, n, s) ==
  /\ h[0] = 0
  /\ \A k \in 1 .. n : h[k] = h[k - 1] + (IF h[k - 1] = 0 THEN 0 ELSE 1)
                                       + (IF s[k] < EntryBufLen THEN s[k] ELSE EntryBufLen - 1)
  /\ EntriesLen(s) = h[n]

LEMMA EntriesLenSteps ==
  ASSUME NEW s \in Seq(Nat)
  PROVE  \E h \in [0 .. Len(s) -> Int] : EntriesLenIs(h, Len(s), s)
<1> DEFINE n == Len(s)
           step(v, p) == v + (IF v = 0 THEN 0 ELSE 1)
                            + (IF p < EntryBufLen THEN p ELSE EntryBufLen - 1)
           g == [x \in (1 .. n) \X Int |-> step(x[2], s[x[1]])]
<1>1. n \in Nat /\ DOMAIN s = 1 .. n /\ 0 \in Int
  OBVIOUS
<1>2. \A k \in 1 .. n, v \in Int : step(v, s[k]) \in Int
  BY EntryLengths
<1> HIDE DEF n, step
<1>3. g \in [(1 .. n) \X Int -> Int] /\ \A k \in 1 .. n, v \in Int : g[<<k, v>>] = step(v, s[k])
  BY <1>2
<1> HIDE DEF g
<1>4. PICK f \in [SUBSET (1 .. n) -> Int], h \in [0 .. n -> Int] :
           /\ \A T \in SUBSET (1 .. n) :
                f[T] = IF T = {} THEN 0 ELSE g[<<Max(T), f[T \ {Max(T)}]>>]
           /\ h[0] = 0
           /\ \A k \in 1 .. n : h[k] = g[<<k, h[k - 1]>>]
           /\ f[1 .. n] = h[n]
  <2>1. PICK f \in [SUBSET (1 .. n) -> Int], h \in [0 .. n -> Int] : IsFold(n, 0, g, f, h)
    BY <1>1, <1>3, FoldExists
  <2> QED
    BY <2>1 DEF IsFold
<1> DEFINE Folds(e) == e = [T \in SUBSET (1 .. n) |->
                              IF T = {} THEN 0 ELSE step(e[T \ {Max(T)}], s[Max(T)])]
<1>5. Folds(f)
  <2>1. ASSUME NEW T \in SUBSET (1 .. n), T # {}
        PROVE  f[T] = step(f[T \ {Max(T)}], s[Max(T)])
    <3>1. Max(T) \in 1 .. n /\ f[T \ {Max(T)}] \in Int
      BY <1>1, <2>1, MaxIn
    <3> QED
      BY <1>3, <1>4, <2>1, <3>1
  <2>2. f = [T \in SUBSET (1 .. n) |-> f[T]]
    OBVIOUS
  <2> QED
    BY <1>4, <2>1, <2>2
<1>6. \A e : Folds(e) => e = f
  <2> SUFFICES ASSUME NEW e, Folds(e) PROVE e = f
    OBVIOUS
  <2>1. \A T \in SUBSET (1 .. n) :
          /\ e[T] = IF T = {} THEN 0 ELSE step(e[T \ {Max(T)}], s[Max(T)])
          /\ f[T] = IF T = {} THEN 0 ELSE step(f[T \ {Max(T)}], s[Max(T)])
    BY <1>5
  <2>2. {} \in SUBSET (1 .. n)
    OBVIOUS
  <2>3. e = [T \in SUBSET (1 .. n) |-> e[T]] /\ f = [T \in SUBSET (1 .. n) |-> f[T]]
    OBVIOUS
  <2> HIDE DEF Folds
  <2>4. f[{}] = e[{}]
    BY <2>1, <2>2
  <2>5. \A T \in SUBSET (1 .. n) :
          T # {} /\ f[T \ {Max(T)}] = e[T \ {Max(T)}] => f[T] = e[T]
    BY <2>1
  <2>6. SameSteps(n, f, e)
    BY <2>3, <2>4, <2>5, Zenon DEF SameSteps
  <2> QED
    BY <1>1, <2>6, FoldUnique
<1>7. EntriesLen(s) = (CHOOSE e : Folds(e))[1 .. n]
  BY <1>1 DEF EntriesLen, FoldLeft, MapThenFoldSet, step
<1>8. EntriesLen(s) = h[n]
  <2> HIDE DEF Folds
  <2> QED
    BY <1>4, <1>5, <1>6, <1>7
<1>9. \A k \in 1 .. n : h[k] = step(h[k - 1], s[k])
  <2> TAKE k \in 1 .. n
  <2>1. h[k - 1] \in Int
    BY <1>1
  <2> QED
    BY <1>3, <1>4, <2>1
<1>10. EntriesLenIs(h, n, s)
  BY <1>4, <1>8, <1>9, Zenon DEF EntriesLenIs, step
<1> QED
  BY <1>10 DEF n

LEMMA TextLenNat ==
  ASSUME NEW S, NEW s \in Seq(S)
  PROVE  TextLen(s) \in Nat
<1>1. PICK n \in Nat : n = Len(s)
  OBVIOUS
<1>2. PICK h \in [0 .. n -> Int] : TextLenIs(h, n, s)
  BY <1>1, TextLenSteps
<1> DEFINE P == {k \in 0 .. n : h[k] >= 0}
<1>3. 0 \in P
  BY <1>2 DEF TextLenIs
<1>4. ASSUME NEW k \in 0 .. n, k < n, k \in P PROVE k + 1 \in P
  <2>1. k + 1 \in 1 .. n /\ k + 1 \in 0 .. n /\ (k + 1) - 1 = k /\ h[k] \in Int
    BY <1>4
  <2>2. h[k + 1] = h[k] + PieceLen(s[k + 1])
    BY <1>2, <2>1 DEF TextLenIs
  <2> QED
    BY <1>4, <2>1, <2>2 DEF PieceLen
<1>5. n \in P
  <2> HIDE DEF P
  <2> QED
    BY <1>3, <1>4, UpTo DEF Inductive
<1>6. TextLen(s) = h[n] /\ h[n] \in Int
  BY <1>2 DEF TextLenIs
<1> QED
  BY <1>5, <1>6

LEMMA SevenEighths ==
  ASSUME NEW u \in Int, NEW v \in Int, NEW x \in Int, NEW y \in Int,
         7 * u <= 8 * v, 7 * x <= 8 * y
  PROVE  7 * (u + x) <= 8 * (v + y)
  OBVIOUS

\* The topic of a response is longer than that of its request by a seventh at most.
LEMMA ResponseLength ==
  ASSUME NEW S, "response" \in S, NEW s \in Seq(S)
  PROVE  7 * TextLen(_replace_str(s, "request", <<"response">>)) <= 8 * TextLen(s)
<1>1. PICK n \in Nat : n = Len(s)
  OBVIOUS
<1> DEFINE r == [i \in 1 .. n |-> IF s[i] = "request" THEN "response" ELSE s[i]]
<1>2. _replace_str(s, "request", <<"response">>) = r
  BY <1>1, ReplaceOne
<1>9. \A p : PieceLen(p) \in Int
  BY DEF PieceLen
<1>3. r \in Seq(S) /\ Len(r) = n
  <2>1. \A i \in 1 .. n : r[i] \in S
    BY <1>1
  <2> QED
    BY <1>1, <2>1
<1>10. \A i \in 1 .. n : 7 * PieceLen(r[i]) <= 8 * PieceLen(s[i])
  <2> TAKE i \in 1 .. n
  <2>1. CASE s[i] = "request"
    <3>1. r[i] = "response"
      BY <2>1
    <3> QED
      BY <2>1, <3>1 DEF PieceLen
  <2>2. CASE s[i] # "request"
    <3>1. r[i] = s[i]
      BY <2>2
    <3> HIDE DEF r
    <3>2. PieceLen(s[i]) \in {1, 8}
      BY <2>2 DEF PieceLen
    <3> QED
      BY <3>1, <3>2
  <2> QED
    BY <2>1, <2>2
<1> HIDE DEF r
<1>4. PICK h \in [0 .. n -> Int] : TextLenIs(h, n, s)
  BY <1>1, TextLenSteps
<1>5. PICK g \in [0 .. n -> Int] : TextLenIs(g, n, r)
  BY <1>3, TextLenSteps
<1> DEFINE P == {k \in 0 .. n : 7 * g[k] <= 8 * h[k]}
<1>6. 0 \in P
  BY <1>4, <1>5 DEF TextLenIs
<1>7. ASSUME NEW k \in 0 .. n, k < n, k \in P PROVE k + 1 \in P
  <2>1. k + 1 \in 1 .. n /\ k + 1 \in 0 .. n /\ (k + 1) - 1 = k /\ h[k] \in Int /\ g[k] \in Int
    BY <1>7
  <2>2. h[k + 1] = h[k] + PieceLen(s[k + 1]) /\ g[k + 1] = g[k] + PieceLen(r[k + 1])
    BY <1>4, <1>5, <2>1 DEF TextLenIs
  <2>3. PICK x \in Int, y \in Int : x = PieceLen(r[k + 1]) /\ y = PieceLen(s[k + 1]) /\ 7 * x <= 8 * y
    BY <1>9, <1>10, <2>1
  <2>4. PICK u \in Int, v \in Int : u = g[k] /\ v = h[k] /\ 7 * u <= 8 * v
    BY <1>7, <2>1
  <2>5. 7 * (u + x) <= 8 * (v + y)
    BY <2>3, <2>4, SevenEighths
  <2> QED
    BY <2>1, <2>2, <2>3, <2>4, <2>5
<1>8. n \in P
  <2> HIDE DEF P
  <2> QED
    BY <1>6, <1>7, UpTo DEF Inductive
<1> QED
  BY <1>2, <1>4, <1>5, <1>8 DEF TextLenIs

\* A list of devices takes EntryBufLen characters for each, its comma included,
\* and at least what the quotes of its entries take.
LEMMA EntriesLength ==
  ASSUME NEW s \in Seq(Nat \ 0 .. EntryQuotes),
         \A i \in DOMAIN s : s[i] < EntryBufLen
  PROVE  /\ EntriesLen(s) \in Nat
         /\ EntriesLen(s) >= EntryQuotes * Len(s)
         /\ EntriesLen(s) <= EntryBufLen * Len(s)
         /\ Len(s) > 0 => EntriesLen(s) < EntryBufLen * Len(s)
<1>1. PICK n \in Nat : n = Len(s)
  OBVIOUS
<1>2. EntryBufLen \in Nat /\ EntryQuotes \in Nat /\ s \in Seq(Nat)
  BY MessagingAssumption
<1>3. PICK h \in [0 .. n -> Int] : EntriesLenIs(h, n, s)
  BY <1>1, <1>2, EntriesLenSteps
<1> DEFINE P == {k \in 0 .. n : /\ h[k] >= EntryQuotes * k /\ h[k] >= k
                                /\ h[k] <= EntryBufLen * k
                                /\ k > 0 => h[k] < EntryBufLen * k}
<1>4. 0 \in P
  <2>1. EntryQuotes * 0 = 0 /\ EntryBufLen * 0 = 0
    BY <1>2
  <2> QED
    BY <1>3, <2>1 DEF EntriesLenIs
<1>5. ASSUME NEW k \in 0 .. n, k < n, k \in P PROVE k + 1 \in P
  <2>1. k + 1 \in 1 .. n /\ k + 1 \in 0 .. n /\ (k + 1) - 1 = k /\ h[k] \in Int /\ k + 1 \in DOMAIN s
    BY <1>1, <1>5
  <2>2. PICK e \in Nat : e = s[k + 1] /\ e > EntryQuotes /\ e < EntryBufLen
    BY <1>2, <2>1
  <2>3. h[k + 1] = h[k] + (IF h[k] = 0 THEN 0 ELSE 1) + e
    BY <1>3, <2>1, <2>2 DEF EntriesLenIs
  <2>4. PICK a \in Int, b \in Int : a = EntryQuotes * k /\ b = EntryBufLen * k
    BY <1>2
  <2>5. EntryQuotes * (k + 1) = a + EntryQuotes /\ EntryBufLen * (k + 1) = b + EntryBufLen
    BY <1>2, <2>4
  <2>6. PICK v \in Int : v = h[k] /\ v >= a /\ v >= k /\ v <= b /\ (k > 0 => v < b)
    BY <1>5, <2>1, <2>4
  <2>7. PICK w \in Int : w = h[k + 1] /\ w = v + (IF v = 0 THEN 0 ELSE 1) + e
    BY <2>2, <2>3, <2>6
  <2>8. w >= a + EntryQuotes /\ w >= k + 1 /\ w < b + EntryBufLen
    <3>1. CASE k = 0
      <4>1. a = 0 /\ b = 0 /\ v = 0
        BY <1>2, <1>3, <2>4, <2>6, <3>1 DEF EntriesLenIs
      <4>2. w = e
        BY <2>7, <4>1
      <4> QED
        BY <1>2, <2>2, <3>1, <4>1, <4>2
    <3>2. CASE k > 0
      <4>1. w = v + 1 + e
        BY <2>6, <2>7, <3>2
      <4>2. v >= a /\ v >= k /\ v < b /\ e > EntryQuotes /\ e + 1 <= EntryBufLen /\ e >= 0
        BY <1>2, <2>2, <2>6, <3>2, SMTT(20)
      <4>3. w >= a + EntryQuotes
        BY <1>2, <4>1, <4>2
      <4>4. w >= k + 1
        BY <4>1, <4>2
      <4>5. w < b + EntryBufLen
        BY <1>2, <4>1, <4>2
      <4> QED
        BY <4>3, <4>4, <4>5
    <3> QED
      BY <3>1, <3>2
  <2>9. h[k + 1] >= EntryQuotes * (k + 1) /\ h[k + 1] < EntryBufLen * (k + 1) /\ h[k + 1] \in Int
    BY <2>1, <2>5, <2>7, <2>8
  <2>10. h[k + 1] <= EntryBufLen * (k + 1)
    BY <1>2, <2>1, <2>9
  <2> QED
    BY <2>1, <2>7, <2>8, <2>9, <2>10
<1>6. n \in P
  <2> HIDE DEF P
  <2> QED
    BY <1>4, <1>5, UpTo DEF Inductive
<1>7. EntriesLen(s) = h[n] /\ h[n] \in Int
  BY <1>3 DEF EntriesLenIs
<1> QED
  BY <1>1, <1>6, <1>7

(***************************************************************************)
(* Texts that fit.                                                         *)
(***************************************************************************)

\* A C function sees the first characters of a text, all of them if none is NUL.
LEMMA CTextIs ==
  ASSUME NEW S, NEW s \in Seq(S)
  PROVE  /\ \E k \in 0 .. Len(s) : CText(s) = SubSeq(s, 1, k)
         /\ (\A i \in 1 .. Len(s) : s[i] # 0) => CText(s) = s
<1> DEFINE I == {i \in 1 .. Len(s) : s[i] = 0}
<1>1. CText(s) = IF (IF I # {} THEN Min(I) ELSE 0) = 0 THEN s
                 ELSE SubSeq(s, 1, (IF I # {} THEN Min(I) ELSE 0) - 1)
  BY Zenon DEF CText, SelectInSeq
<1>2. Len(s) \in Nat /\ SubSeq(s, 1, Len(s)) = s
  BY SubSeqFull
<1>3. CASE I = {}
  BY <1>1, <1>2, <1>3
<1>4. CASE I # {}
  <2>1. I \in SUBSET Nat
    OBVIOUS
  <2>2. PICK m \in I : m = Min(I)
    BY <1>4, <2>1, MinIn
  <2>3. m \in 1 .. Len(s) /\ s[m] = 0
    BY <2>2
  <2> HIDE DEF I
  <2>4. CText(s) = SubSeq(s, 1, m - 1)
    BY <1>1, <1>4, <2>2, <2>3
  <2>5. m - 1 \in 0 .. Len(s)
    BY <1>2, <2>3
  <2> QED
    BY <2>3, <2>4, <2>5
<1> QED
  BY <1>3, <1>4

\* What snprintf leaves of what a C function sees: the first characters.
LEMMA CutIs ==
  ASSUME NEW S, NEW s \in Seq(S)
  PROVE  \E k \in 0 .. Len(s) : Cut(CText(s)) = SubSeq(s, 1, k)
<1>1. PICK j \in 0 .. Len(s) : CText(s) = SubSeq(s, 1, j)
  BY CTextIs
<1>2. Len(s) \in Nat /\ j \in Nat /\ j <= Len(s) /\ BufLen \in Nat
  BY MessagingAssumption
<1>3. \A i \in 1 .. j : s[i] \in S
  BY <1>2
<1>4. SubSeq(s, 1, j) \in Seq(S) /\ Len(SubSeq(s, 1, j)) = j
        /\ \A i \in 1 .. j : SubSeq(s, 1, j)[i] = s[i]
  BY <1>2, <1>3
<1>5. PICK t \in Seq(S) : t = SubSeq(s, 1, j) /\ Len(t) = j /\ \A i \in 1 .. j : t[i] = s[i]
  BY <1>4
<1>6. CASE j < BufLen
  <2>1. Cut(t) = SubSeq(t, 1, j) /\ SubSeq(t, 1, j) = t
    BY <1>5, <1>6, SubSeqFull DEF Cut
  <2> QED
    BY <1>1, <1>5, <2>1
<1>7. CASE ~ j < BufLen /\ BufLen > 0
  <2>1. Cut(t) = SubSeq(t, 1, BufLen - 1)
    BY <1>5, <1>7 DEF Cut
  <2>2. BufLen - 1 \in 0 .. j
    BY <1>2, <1>7
  <2>3. SubSeq(t, 1, BufLen - 1) = SubSeq(s, 1, BufLen - 1)
    <3>1. PICK b \in 0 .. j : b = BufLen - 1
      BY <2>2
    <3> DEFINE l == SubSeq(t, 1, b)
               r == SubSeq(s, 1, b)
    <3>2. l \in Seq(S) /\ r \in Seq(S) /\ Len(l) = b /\ Len(r) = b
      BY <1>2, <1>5
    <3>3. \A i \in 1 .. b : l[i] = r[i]
      BY <1>2, <1>5
    <3>4. Len(l) = Len(r) /\ \A i \in 1 .. Len(l) : l[i] = r[i]
      BY <3>2, <3>3
    <3> HIDE DEF l, r
    <3>5. l = r
      BY <3>2, <3>4, SeqEqual
    <3> QED
      BY <3>1, <3>5 DEF l, r
  <2> QED
    BY <1>1, <1>2, <1>5, <2>1, <2>2, <2>3
<1>8. CASE ~ j < BufLen /\ BufLen = 0
  <2>1. Cut(t) = SubSeq(t, 1, -1)
    BY <1>5, <1>8 DEF Cut
  <2>2. SubSeq(t, 1, -1) = <<>> /\ SubSeq(s, 1, 0) = <<>>
    BY SubSeqEmpty
  <2> QED
    BY <1>1, <1>2, <1>5, <2>1, <2>2
<1> QED
  BY <1>2, <1>6, <1>7, <1>8

\* A log line fits if it, with a character for each quote in it, is shorter than
\* the buffer.
LEMMA EscapedFits ==
  ASSUME NEW S, Quote \in S, Backslash \in S, NEW s \in Seq(S),
         NEW q, CountsQuotes(q, Len(s), s), NEW B \in Int, \A k \in 0 .. Len(s) : q[k] <= B
  PROVE  Len(Escaped(s)) <= Len(s) + B
<1>1. PICK k \in 0 .. Len(s) : Cut(CText(s)) = SubSeq(s, 1, k)
  BY CutIs
<1>2. k \in Nat /\ Len(s) \in Nat /\ k <= Len(s)
  OBVIOUS
<1>3. PICK t \in Seq(S) : t = SubSeq(s, 1, k) /\ Len(t) = k /\ \A i \in 1 .. k : t[i] = s[i]
  <2>1. \A i \in 1 .. k : s[i] \in S
    BY <1>2
  <2>2. SubSeq(s, 1, k) \in Seq(S) /\ Len(SubSeq(s, 1, k)) = k
          /\ \A i \in 1 .. k : SubSeq(s, 1, k)[i] = s[i]
    BY <1>2, <2>1
  <2> QED
    BY <2>2
<1> DEFINE r == [j \in 0 .. k |-> q[j]]
<1>4. CountsQuotes(r, k, t)
  <2>1. \A j \in 0 .. Len(s) - 1 : q[j] <= q[j + 1] /\ (s[j + 1] = Quote => q[j] < q[j + 1])
    BY DEF CountsQuotes
  <2>2. q \in [0 .. Len(s) -> Nat]
    BY DEF CountsQuotes
  <2>3. r \in [0 .. k -> Nat]
    BY <1>2, <2>2
  <2>4. ASSUME NEW j \in 0 .. k - 1
        PROVE  r[j] <= r[j + 1] /\ (t[j + 1] = Quote => r[j] < r[j + 1])
    <3>1. j \in 0 .. Len(s) - 1 /\ j \in 0 .. k /\ j + 1 \in 0 .. k /\ j + 1 \in 1 .. k
      BY <1>2
    <3>2. r[j] = q[j] /\ r[j + 1] = q[j + 1] /\ t[j + 1] = s[j + 1]
      BY <1>3, <3>1
    <3> HIDE DEF r
    <3> QED
      BY <2>1, <3>1, <3>2
  <2> HIDE DEF r
  <2> QED
    BY <2>3, <2>4 DEF CountsQuotes
<1>5. r[k] = q[k] /\ q[k] <= B /\ q[k] \in Nat
  <2>1. q \in [0 .. Len(s) -> Nat]
    BY DEF CountsQuotes
  <2> QED
    BY <1>2, <2>1
<1> HIDE DEF r
<1>6. Len(_replace_str(t, Quote, <<Backslash, Quote>>)) <= k + r[k]
  BY <1>3, <1>4, EscapedLength
<1>7. Escaped(s) = _replace_str(t, Quote, <<Backslash, Quote>>)
  BY <1>1, <1>3 DEF Escaped
<1>8. Len(Escaped(s)) \in Int
  <2>1. <<Backslash, Quote>> \in Seq(S)
    OBVIOUS
  <2>2. PICK h \in [0 .. Len(t) -> Seq(S)] : ReplaceIs(h, Len(t), t, Quote, <<Backslash, Quote>>)
    BY <2>1, ReplaceSteps
  <2>3. h[Len(t)] \in Seq(S)
    OBVIOUS
  <2> QED
    BY <1>7, <2>2, <2>3 DEF ReplaceIs
<1> QED
  BY <1>2, <1>5, <1>6, <1>7, <1>8

LEMMA OtherIs ==
  ASSUME NEW n \in Nat
  PROVE  Other(n) \in Seq(Int) /\ Len(Other(n)) = n /\ \A i \in 1 .. n : Other(n)[i] # Quote
  BY DEF Other, Quote

LEMMA EscapedIn ==
  ASSUME NEW S, Quote \in S, Backslash \in S, NEW s \in Seq(S)
  PROVE  Escaped(s) \in Seq(S)
<1>1. PICK k \in 0 .. Len(s) : Cut(CText(s)) = SubSeq(s, 1, k)
  BY CutIs
<1>2. k \in Nat /\ Len(s) \in Nat /\ k <= Len(s) /\ \A i \in 1 .. k : s[i] \in S
  OBVIOUS
<1>3. PICK t \in Seq(S) : t = SubSeq(s, 1, k)
  <2>1. SubSeq(s, 1, k) \in Seq(S)
    BY <1>2
  <2> QED
    BY <2>1
<1>4. <<Backslash, Quote>> \in Seq(S)
  OBVIOUS
<1>5. PICK h \in [0 .. Len(t) -> Seq(S)] : ReplaceIs(h, Len(t), t, Quote, <<Backslash, Quote>>)
  BY <1>4, ReplaceSteps
<1>6. h[Len(t)] \in Seq(S)
  OBVIOUS
<1> QED
  BY <1>1, <1>3, <1>5, <1>6 DEF Escaped, ReplaceIs

LEMMA EscapedSeq ==
  ASSUME NEW s \in Seq(Int)
  PROVE  Len(Escaped(Other(LogLen) \o s)) \in Int
<1>1. Quote \in Int /\ Backslash \in Int
  BY DEF Quote, Backslash
<1>2. PICK o \in Seq(Int) : o = Other(LogLen)
  BY OtherIs, MessagingAssumption
<1>3. o \o s \in Seq(Int)
  BY LenConcat
<1>4. Escaped(o \o s) \in Seq(Int)
  BY <1>1, <1>3, EscapedIn
<1> QED
  BY <1>2, <1>4

\* No count of q up to n is more than B.
AtMostQuotes(q, n, B) == \A k \in 0 .. n : q[k] <= B

\* The length of a log line that quotes the text s, which has at most B quotes.
LEMMA LogLine ==
  ASSUME NEW s \in Seq(Int), NEW q, CountsQuotes(q, Len(s), s),
         NEW B \in Int, AtMostQuotes(q, Len(s), B)
  PROVE  Len(Escaped(Other(LogLen) \o s)) <= LogLen + Len(s) + B
<1>1. PICK a \in Nat : a = LogLen
  BY MessagingAssumption
<1>2. PICK n \in Nat : n = Len(s)
  OBVIOUS
<1>3. PICK o \in Seq(Int) : o = Other(LogLen) /\ Len(o) = a /\ \A i \in 1 .. a : o[i] # Quote
  BY <1>1, OtherIs
<1>4. PICK l \in Seq(Int) : l = o \o s /\ Len(l) = a + n
                            /\ \A i \in 1 .. a + n : l[i] = IF i <= a THEN o[i] ELSE s[i - a]
  <2>1. /\ o \o s \in Seq(Int) /\ Len(o \o s) = Len(o) + Len(s)
        /\ \A i \in 1 .. Len(o) + Len(s) :
             (o \o s)[i] = IF i <= Len(o) THEN o[i] ELSE s[i - Len(o)]
    BY ConcatProperties
  <2> QED
    BY <1>2, <1>3, <2>1
<1> DEFINE r == [j \in 0 .. a + n |-> IF j <= a THEN 0 ELSE q[j - a]]
<1>5. /\ q \in [0 .. n -> Nat]
      /\ \A j \in 0 .. n - 1 : q[j] <= q[j + 1] /\ (s[j + 1] = Quote => q[j] < q[j + 1])
  BY <1>2 DEF CountsQuotes
<1>6. CountsQuotes(r, a + n, l)
  <2>1. r \in [0 .. a + n -> Nat]
    <3>1. \A j \in 0 .. a + n : ~ j <= a => j - a \in 0 .. n
      BY <1>1, <1>2
    <3> QED
      BY <1>5, <3>1
  <2>2. ASSUME NEW j \in 0 .. (a + n) - 1
        PROVE  r[j] <= r[j + 1] /\ (l[j + 1] = Quote => r[j] < r[j + 1])
    <3>1. j \in 0 .. a + n /\ j + 1 \in 0 .. a + n /\ j + 1 \in 1 .. a + n /\ j \in Nat
      BY <1>1, <1>2
    <3>2. CASE j < a
      <4>1. r[j] = 0 /\ r[j + 1] = 0 /\ l[j + 1] # Quote
        <5>1. j <= a /\ j + 1 <= a /\ j + 1 \in 1 .. a
          BY <3>1, <3>2
        <5> QED
          BY <1>3, <1>4, <3>1, <5>1
      <4> HIDE DEF r
      <4> QED
        BY <4>1
    <3>3. CASE j >= a
      <4>1. PICK i \in 0 .. n - 1 : i = j - a
        BY <3>1, <3>3
      <4>2. r[j + 1] = q[i + 1] /\ l[j + 1] = s[i + 1]
        <5>1. ~ j + 1 <= a /\ (j + 1) - a = i + 1
          BY <3>1, <3>3, <4>1
        <5> QED
          BY <1>4, <3>1, <5>1
      <4>3. r[j] = q[i] \/ r[j] = 0
        BY <3>1, <3>3, <4>1
      <4>4. q[i] \in Nat /\ q[i + 1] \in Nat
        <5>1. i \in 0 .. n /\ i + 1 \in 0 .. n
          OBVIOUS
        <5> QED
          BY <1>5, <5>1
      <4>5. q[i] <= q[i + 1] /\ (s[i + 1] = Quote => q[i] < q[i + 1])
        BY <1>5
      <4> HIDE DEF r
      <4> QED
        BY <4>2, <4>3, <4>4, <4>5
    <3> QED
      BY <3>1, <3>2, <3>3
  <2> HIDE DEF r
  <2> QED
    BY <2>1, <2>2 DEF CountsQuotes
<1>9. \A k \in 0 .. n : q[k] <= B
  BY <1>2 DEF AtMostQuotes
<1>7. \A j \in 0 .. a + n : r[j] <= B
  <2>1. q[0] <= B /\ q[0] \in Nat
    <3>1. 0 \in 0 .. Len(s) /\ 0 \in 0 .. n
      BY <1>2
    <3> QED
      BY <1>5, <1>9, <3>1
  <2> TAKE j \in 0 .. a + n
  <2>2. CASE j <= a
    BY <2>1, <2>2
  <2>3. CASE ~ j <= a
    <3>1. j - a \in 0 .. n
      BY <2>3
    <3> QED
      BY <1>9, <2>3, <3>1
  <2> QED
    BY <2>2, <2>3
<1> HIDE DEF r
<1>8. Len(Escaped(l)) <= Len(l) + B
  <2>1. Quote \in Int /\ Backslash \in Int
    BY DEF Quote, Backslash
  <2> QED
    BY <1>4, <1>6, <1>7, <2>1, EscapedFits
<1> QED
  BY <1>1, <1>2, <1>3, <1>4, <1>8

\* One that quotes a text of any characters.
LEMMA LogFitsAny ==
  ASSUME NEW s \in Seq(Int), LogLen + 2 * Len(s) < BufLen
  PROVE  LogFits(s)
<1>1. PICK n \in Nat : n = Len(s)
  OBVIOUS
<1> DEFINE q == [j \in 0 .. n |-> j]
<1>2. CountsQuotes(q, n, s)
  BY <1>1 DEF CountsQuotes
<1>3. \A j \in 0 .. n : q[j] <= n
  OBVIOUS
<1> HIDE DEF q
<1>4. Len(Escaped(Other(LogLen) \o s)) <= LogLen + n + n
  BY <1>1, <1>2, <1>3, LogLine DEF AtMostQuotes
<1> QED
  BY <1>1, <1>4, MessagingAssumption DEF LogFits

LEMMA QuotesIs ==
  ASSUME NEW n \in Nat
  PROVE  LET f == [i \in 1 .. n |-> Quote]
         IN f \in Seq(Int) /\ Len(f) = n /\ \A i \in 1 .. n : f[i] = Quote
  BY DEF Quote

\* One that quotes a frame.
LEMMA LogFitsFrame ==
  ASSUME NEW topic, NEW text, TextLen(topic) \in Nat, Len(text) \in Nat,
         LogLen + FrameLen + FrameQuotes + TextLen(topic) + Len(text) < BufLen
  PROVE  LogFits(FrameText(topic, text))
<1>1. /\ LogLen \in Nat /\ BufLen \in Nat /\ FrameLen \in Nat
      /\ FrameQuotes \in 1 .. FrameLen
  BY MessagingAssumption
<1>2. PICK a \in Nat : a = FrameQuotes - 1
  BY <1>1
<1>3. PICK w \in Nat : w = FrameLen - FrameQuotes + TextLen(topic) + Len(text)
  BY <1>1
<1>4. PICK u \in Seq(Int) : u = [i \in 1 .. FrameQuotes - 1 |-> Quote] /\ Len(u) = a
  BY <1>2, QuotesIs
<1>5. PICK v \in Seq(Int) : v = Other(w) /\ Len(v) = w /\ \A i \in 1 .. w : v[i] # Quote
  BY OtherIs
<1>6. PICK z \in Seq(Int) : z = <<Quote>> /\ Len(z) = 1
  <2>1. <<Quote>> \in Seq(Int) /\ Len(<<Quote>>) = 1
    BY DEF Quote
  <2> QED
    BY <2>1
<1>7. PICK y \in Seq(Int) : y = u \o v /\ Len(y) = a + w
                            /\ \A i \in 1 .. a + w : i > a => y[i] # Quote
  <2>1. /\ u \o v \in Seq(Int) /\ Len(u \o v) = Len(u) + Len(v)
        /\ \A i \in 1 .. Len(u) + Len(v) :
             (u \o v)[i] = IF i <= Len(u) THEN u[i] ELSE v[i - Len(u)]
    BY ConcatProperties
  <2>2. ASSUME NEW i \in 1 .. a + w, i > a PROVE (u \o v)[i] # Quote
    <3>1. i - a \in 1 .. w /\ ~ i <= a
      BY <2>2
    <3> QED
      BY <1>4, <1>5, <2>1, <3>1
  <2> QED
    BY <1>4, <1>5, <2>1, <2>2
<1>8. PICK s \in Seq(Int) : s = y \o z /\ Len(s) = a + w + 1
                            /\ \A i \in 1 .. a + w : i > a => s[i] # Quote
  <2>1. /\ y \o z \in Seq(Int) /\ Len(y \o z) = Len(y) + Len(z)
        /\ \A i \in 1 .. Len(y) + Len(z) :
             (y \o z)[i] = IF i <= Len(y) THEN y[i] ELSE z[i - Len(y)]
    BY ConcatProperties
  <2>2. ASSUME NEW i \in 1 .. a + w, i > a PROVE (y \o z)[i] # Quote
    <3>1. i \in 1 .. a + w + 1 /\ i <= a + w
      BY <2>2
    <3> QED
      BY <1>6, <1>7, <2>1, <2>2, <3>1
  <2> QED
    BY <1>6, <1>7, <2>1, <2>2
<1>9. FrameText(topic, text) = s
  BY <1>3, <1>4, <1>5, <1>6, <1>7, <1>8, Zenon DEF FrameText
<1>13. PICK n \in Nat : n = a + w + 1 /\ n = Len(s)
  BY <1>8
<1> DEFINE q == [j \in 0 .. n |-> IF j <= a THEN j ELSE IF j <= a + w THEN a ELSE a + 1]
<1>10. CountsQuotes(q, n, s)
  <2>1. q \in [0 .. n -> Nat]
    OBVIOUS
  <2>2. ASSUME NEW j \in 0 .. n - 1
        PROVE  q[j] <= q[j + 1] /\ (s[j + 1] = Quote => q[j] < q[j + 1])
    <3>1. j \in 0 .. n /\ j + 1 \in 0 .. n /\ j + 1 \in 1 .. n
            /\ (j < a \/ (j >= a /\ j < a + w) \/ j = a + w)
      BY <1>13
    <3>2. CASE j < a
      <4>1. q[j] = j /\ q[j + 1] = j + 1
        BY <3>1, <3>2
      <4> HIDE DEF q
      <4> QED
        BY <4>1
    <3>3. CASE j >= a /\ j < a + w
      <4>1. s[j + 1] # Quote
        BY <1>8, <3>3
      <4>2. q[j] = a /\ q[j + 1] = a
        BY <3>1, <3>3
      <4> HIDE DEF q
      <4> QED
        BY <4>1, <4>2
    <3>4. CASE j = a + w
      <4>1. q[j] = a /\ q[j + 1] = a + 1
        BY <3>1, <3>4
      <4> HIDE DEF q
      <4> QED
        BY <4>1
    <3> QED
      BY <3>1, <3>2, <3>3, <3>4
  <2> HIDE DEF q
  <2> QED
    BY <2>1, <2>2 DEF CountsQuotes
<1>11. \A j \in 0 .. n : q[j] <= a + 1
  OBVIOUS
<1> HIDE DEF q
<1>12. Len(Escaped(Other(LogLen) \o s)) <= LogLen + n + (a + 1)
  <2>1. Len(Escaped(Other(LogLen) \o s)) <= LogLen + Len(s) + (a + 1)
    <3>1. a + 1 \in Int /\ n = Len(s)
      BY <1>13
    <3>2. CountsQuotes(q, Len(s), s) /\ AtMostQuotes(q, Len(s), a + 1)
      BY <1>10, <1>11, <3>1, Zenon DEF AtMostQuotes
    <3> QED
      BY <3>1, <3>2, LogLine
  <2> QED
    BY <1>13, <2>1
<1>14. LogLen + n + (a + 1) < BufLen
  <2>1. PICK t \in Nat, l \in Nat, f \in Nat, c \in Nat, g \in Nat, b \in Nat :
           t = TextLen(topic) /\ l = Len(text) /\ f = FrameLen /\ c = FrameQuotes
             /\ g = LogLen /\ b = BufLen
    BY <1>1
  <2>2. g + f + c + t + l < b /\ a = c - 1 /\ w = f - c + t + l
    BY <1>2, <1>3, <2>1
  <2>3. g + n + (a + 1) < b
    BY <1>13, <2>2
  <2> QED
    BY <2>1, <2>3
<1>15. Len(Escaped(Other(LogLen) \o s)) \in Int
  BY EscapedSeq
<1> QED
  BY <1>1, <1>9, <1>12, <1>14, <1>15 DEF LogFits

\* One that quotes a report.
LEMMA LogFitsReport ==
  ASSUME NEW entries, NEW m \in Nat, m = FrameQuotes + EntryQuotes * Len(entries),
         EntriesLen(entries) \in Nat, m <= FrameLen + EntriesLen(entries),
         LogLen + FrameLen + EntriesLen(entries) + m < BufLen
  PROVE  LogFits(ReportText(entries))
<1>1. LogLen \in Nat /\ BufLen \in Nat /\ FrameLen \in Nat
  BY MessagingAssumption
<1>2. PICK w \in Nat : w = FrameLen + EntriesLen(entries) - m
  BY <1>1
<1>3. PICK u \in Seq(Int) : u = [i \in 1 .. m |-> Quote] /\ Len(u) = m
  BY QuotesIs
<1>4. PICK v \in Seq(Int) : v = Other(w) /\ Len(v) = w /\ \A i \in 1 .. w : v[i] # Quote
  BY OtherIs
<1>5. PICK s \in Seq(Int) : s = u \o v /\ Len(s) = m + w
                            /\ \A i \in 1 .. m + w : i > m => s[i] # Quote
  <2>1. /\ u \o v \in Seq(Int) /\ Len(u \o v) = Len(u) + Len(v)
        /\ \A i \in 1 .. Len(u) + Len(v) :
             (u \o v)[i] = IF i <= Len(u) THEN u[i] ELSE v[i - Len(u)]
    BY ConcatProperties
  <2>2. ASSUME NEW i \in 1 .. m + w, i > m PROVE (u \o v)[i] # Quote
    <3>1. i - m \in 1 .. w /\ ~ i <= m
      BY <2>2
    <3> QED
      BY <1>3, <1>4, <2>1, <3>1
  <2> QED
    BY <1>3, <1>4, <2>1, <2>2
<1>6. ReportText(entries) = s
  BY <1>2, <1>3, <1>4, <1>5, Zenon DEF ReportText
<1>10. PICK n \in Nat : n = m + w /\ n = Len(s)
  BY <1>5
<1> DEFINE q == [j \in 0 .. n |-> IF j <= m THEN j ELSE m]
<1>7. CountsQuotes(q, n, s)
  <2>1. q \in [0 .. n -> Nat]
    OBVIOUS
  <2>2. ASSUME NEW j \in 0 .. n - 1
        PROVE  q[j] <= q[j + 1] /\ (s[j + 1] = Quote => q[j] < q[j + 1])
    <3>1. j \in 0 .. n /\ j + 1 \in 0 .. n /\ j + 1 \in 1 .. n
      OBVIOUS
    <3>2. CASE j < m
      <4>1. q[j] = j /\ q[j + 1] = j + 1
        BY <3>1, <3>2
      <4> HIDE DEF q
      <4> QED
        BY <4>1
    <3>3. CASE j >= m
      <4>1. s[j + 1] # Quote
        <5>1. j + 1 \in 1 .. m + w /\ j + 1 > m
          BY <1>10, <3>1, <3>3
        <5> QED
          BY <1>5, <5>1
      <4>2. q[j] = m /\ q[j + 1] = m
        BY <3>1, <3>3
      <4> HIDE DEF q
      <4> QED
        BY <4>1, <4>2
    <3> QED
      BY <3>1, <3>2, <3>3
  <2> HIDE DEF q
  <2> QED
    BY <2>1, <2>2 DEF CountsQuotes
<1>8. \A j \in 0 .. n : q[j] <= m
  OBVIOUS
<1> HIDE DEF q
<1>9. Len(Escaped(Other(LogLen) \o s)) <= LogLen + n + m
  <2>1. Len(Escaped(Other(LogLen) \o s)) <= LogLen + Len(s) + m
    <3>1. CountsQuotes(q, Len(s), s) /\ AtMostQuotes(q, Len(s), m)
      BY <1>7, <1>8, <1>10 DEF AtMostQuotes
    <3>2. m \in Int
      OBVIOUS
    <3> QED
      BY <3>1, <3>2, LogLine
  <2> QED
    BY <1>10, <2>1
<1>11. LogLen + n + m < BufLen
  <2>1. PICK e \in Nat : e = EntriesLen(entries)
    OBVIOUS
  <2>2. PICK f \in Nat : f = FrameLen
    BY <1>1
  <2>3. n = f + e
    BY <1>2, <1>10, <2>1, <2>2
  <2> QED
    BY <1>1, <2>1, <2>2, <2>3
<1>12. Len(Escaped(Other(LogLen) \o s)) \in Int
  BY EscapedSeq
<1> QED
  BY <1>1, <1>6, <1>9, <1>11, <1>12 DEF LogFits

(***************************************************************************)
(* Short messages are safe.                                                *)
(***************************************************************************)

LEMMA BytesAreInts ==
  ASSUME NEW s \in Seq(Byte)
  PROVE  s \in Seq(Int)
<1>1. Byte \subseteq Int
  BY DEF Byte
<1> QED
  BY <1>1, SeqMonotonic

LEMMA CharsAreNotNul ==
  ASSUME NEW s \in Seq(AlphabetChar)
  PROVE  \A i \in 1 .. Len(s) : s[i] # 0
<1>1. 0 \notin AlphabetChar
  BY DEF AlphabetChar
<1> QED
  BY <1>1

\* What is left of a message's n characters in Base64 by a NUL, or what a line end
\* adds to them.
LEMMA EncodedIs ==
  ASSUME NEW m \in Seq(Byte)
  PROVE  /\ Encoded(m) \in Seq(Byte)
         /\ Len(Encoded(m)) \in Nat
         /\ Len(Encoded(m)) <= 4 * ((Len(m) + 2) \div 3)
         /\ Encodable(m) => Encoded(m) = Base64Of(m)
<1>1. PICK t \in Seq(Byte) : t = base64_encode(m)
  BY EncodedBytes
<1>2. PICK l \in Nat : l = Len(t)
  OBVIOUS
<1>3. l = 4 * ((Len(m) + 2) \div 3)
  BY <1>1, <1>2, EncodedLength
<1>4. PICK k \in 0 .. l : CText(t) = SubSeq(t, 1, k)
  BY <1>2, CTextIs
<1>5. SubSeq(t, 1, k) \in Seq(Byte) /\ Len(SubSeq(t, 1, k)) = k
  <2>1. k \in Nat /\ k <= Len(t) /\ \A i \in 1 .. k : t[i] \in Byte
    BY <1>2
  <2> QED
    BY <2>1
<1>6. Encoded(m) = CText(t)
  BY <1>1 DEF Encoded
<1>7. ASSUME Encodable(m) PROVE Encoded(m) = Base64Of(m)
  <2>1. t = Base64Of(m)
    BY <1>1, <1>7, EncodeIsBase64
  <2>2. t \in Seq(AlphabetChar)
    BY <2>1, Base64Chars
  <2>3. \A i \in 1 .. Len(t) : t[i] # 0
    BY <2>2, CharsAreNotNul
  <2>4. CText(t) = t
    BY <2>3, CTextIs
  <2> QED
    BY <1>6, <2>1, <2>4
<1> QED
  BY <1>3, <1>4, <1>5, <1>6, <1>7

\* The texts a handler may find on the bus, with a line end or without.
LEMMA TextsOnBus ==
  ASSUME NEW m \in Seq(Byte)
  PROVE  /\ Encoded(m) \in Seq(Int) /\ Len(Encoded(m)) \in Nat
         /\ Len(Encoded(m)) <= 4 * ((Len(m) + 2) \div 3) + 1
         /\ \A e \in {<<>>, << 10 >>} :
              /\ Base64Of(m) \o e \in Seq(Int)
              /\ Len(Base64Of(m) \o e) <= 4 * ((Len(m) + 2) \div 3) + 1
<1>1. PICK k \in Nat : k = 4 * ((Len(m) + 2) \div 3)
  OBVIOUS
<1>2. Encoded(m) \in Seq(Int) /\ Len(Encoded(m)) \in Nat /\ Len(Encoded(m)) <= k
  BY <1>1, EncodedIs, BytesAreInts
<1>3. PICK b \in Seq(Int) : b = Base64Of(m) /\ Len(b) = k
  <2>1. AlphabetChar \subseteq Int
    BY DEF AlphabetChar
  <2>2. Base64Of(m) \in Seq(Int)
    BY <2>1, Base64Chars, SeqMonotonic
  <2> QED
    BY <1>1, <2>2, EncodedLength
<1>4. ASSUME NEW e \in {<<>>, << 10 >>}
      PROVE  b \o e \in Seq(Int) /\ Len(b \o e) <= k + 1
  <2>1. PICK d \in Seq(Int) : d = e /\ Len(d) <= 1 /\ Len(d) \in Nat
    <3>1. <<>> \in Seq(Int) /\ Len(<<>>) <= 1 /\ << 10 >> \in Seq(Int) /\ Len(<< 10 >>) <= 1
      OBVIOUS
    <3>2. e \in Seq(Int) /\ Len(e) <= 1
      BY <3>1, Zenon
    <3> QED
      BY <3>2
  <2>2. b \o d \in Seq(Int) /\ Len(b \o d) = Len(b) + Len(d)
    BY LenConcat
  <2> QED
    BY <1>3, <2>1, <2>2
<1> QED
  BY <1>1, <1>2, <1>3, <1>4

\* The topic and text of a message of n bytes with room to spare.
Spare(t, n) == FrameLen + FrameQuotes + LogLen + t + 2 * (n + 2) < BufLen

\* A frame with a text that may be one character longer than the message in Base64
\* fits, and the log line that quotes it does.
LEMMA FrameFits ==
  ASSUME NEW topic, TextLen(topic) \in Nat, NEW n \in Nat, Spare(TextLen(topic), n),
         NEW text, Len(text) \in Nat, Len(text) <= 4 * ((n + 2) \div 3) + 1
  PROVE  /\ LogFits(FrameText(topic, text))
         /\ Framed(topic, text) = text
<1>1. /\ LogLen \in Nat /\ BufLen \in Nat /\ FrameLen \in Nat
      /\ FrameQuotes \in 1 .. FrameLen
  BY MessagingAssumption
<1>2. PICK t \in Nat, l \in Nat, f \in Nat, c \in Nat, g \in Nat, b \in Nat :
         t = TextLen(topic) /\ l = Len(text) /\ f = FrameLen /\ c = FrameQuotes
           /\ g = LogLen /\ b = BufLen
  BY <1>1
<1>3. f + c + g + t + 2 * (n + 2) < b
  BY <1>2 DEF Spare
<1>4. l + 1 <= 2 * (n + 2)
  <2>1. PICK k \in Nat : k = (n + 2) \div 3
    OBVIOUS
  <2>2. l <= 4 * k + 1 /\ 3 * k <= n + 2
    BY <1>2, <2>1
  <2>3. CASE k = 0
    BY <2>2, <2>3
  <2>4. CASE k >= 1
    <3>1. n + 2 >= 3
      BY <2>2, <2>4
    <3> QED
      BY <2>2, <3>1
  <2> QED
    BY <2>1, <2>3, <2>4
<1>5. g + f + c + t + l < b /\ f + t + l < b
  BY <1>3, <1>4
<1>6. LogFits(FrameText(topic, text))
  BY <1>2, <1>5, LogFitsFrame
<1> QED
  BY <1>2, <1>5, <1>6 DEF Framed

\* So do what is decoded from such a text and the log line that quotes that.
LEMMA DecodedFits ==
  ASSUME NEW n \in Nat, NEW t \in Nat, Spare(t, n),
         NEW text \in Seq(Int), Len(text) <= 4 * ((n + 2) \div 3) + 1
  PROVE  /\ Len(base64_decode(text).out) < BufLen
         /\ LogFits(base64_decode(text).out)
<1>1. LogLen \in Nat /\ BufLen \in Nat /\ FrameLen \in Nat /\ FrameQuotes \in 1 .. FrameLen
  BY MessagingAssumption
<1>2. PICK o \in Seq(Byte) : o = base64_decode(text).out /\ 4 * Len(o) <= 3 * Len(text)
  BY DecodedLength
<1>3. PICK l \in Nat, k \in Nat : l = Len(o) /\ k = (n + 2) \div 3
  OBVIOUS
<1>4. l <= 3 * k
  <2>1. PICK x \in Nat : x = Len(text)
    OBVIOUS
  <2>2. 4 * l <= 3 * x /\ x <= 4 * k + 1
    BY <1>2, <1>3, <2>1
  <2> QED
    BY <2>2
<1>5. 3 * k <= n + 2
  BY <1>3
<1>6. LogLen + 2 * l < BufLen /\ l < BufLen
  <2>1. PICK f \in Nat, c \in Nat, g \in Nat, b \in Nat :
           f = FrameLen /\ c = FrameQuotes /\ g = LogLen /\ b = BufLen
    BY <1>1
  <2>2. f + c + g + t + 2 * (n + 2) < b
    BY <2>1 DEF Spare
  <2>3. 2 * l <= 2 * (n + 2)
    BY <1>4, <1>5
  <2>4. g + 2 * l < b /\ l < b
    BY <2>2, <2>3
  <2> QED
    BY <2>1, <2>4
<1>7. o \in Seq(Int)
  BY BytesAreInts
<1> QED
  BY <1>2, <1>3, <1>6, <1>7, LogFitsAny

\* The message itself: it fits in Base64, and quoted in a log line.
LEMMA MessageFits ==
  ASSUME NEW m \in Seq(Byte), NEW t \in Nat, Spare(t, Len(m))
  PROVE  /\ Len(base64_encode(m)) < PayloadBuf
         /\ LogFits(m)
         /\ Len(Escaped(m)) < BufLen
<1>1. LogLen \in Nat /\ BufLen \in Nat /\ FrameLen \in Nat /\ FrameQuotes \in 1 .. FrameLen
  BY MessagingAssumption
<1>2. PICK n \in Nat : n = Len(m)
  OBVIOUS
<1>3. PICK f \in Nat, c \in Nat, g \in Nat, b \in Nat :
         f = FrameLen /\ c = FrameQuotes /\ g = LogLen /\ b = BufLen
  BY <1>1
<1>4. f + c + g + t + 2 * (n + 2) < b
  BY <1>2, <1>3 DEF Spare
<1>5. g + 2 * n < b /\ 2 * (n + 2) < b /\ n + n < b
  BY <1>4
<1>6. Len(base64_encode(m)) < PayloadBuf
  <2>1. PICK k \in Nat : k = 4 * ((n + 2) \div 3)
    OBVIOUS
  <2>2. Len(base64_encode(m)) = k /\ k + 2 <= 2 * (n + 2)
    BY <1>2, <2>1, EncodedLength
  <2> QED
    BY <1>3, <1>5, <2>2 DEF PayloadBuf
<1>7. m \in Seq(Int)
  BY BytesAreInts
<1>8. LogFits(m)
  BY <1>2, <1>3, <1>5, <1>7, LogFitsAny
<1>9. Len(Escaped(m)) < BufLen
  <2> DEFINE q == [j \in 0 .. n |-> j]
  <2>1. CountsQuotes(q, Len(m), m) /\ \A j \in 0 .. Len(m) : q[j] <= n
    BY <1>2 DEF CountsQuotes
  <2> HIDE DEF q
  <2>2. Quote \in Int /\ Backslash \in Int
    BY DEF Quote, Backslash
  <2>3. Len(Escaped(m)) <= Len(m) + n
    BY <1>7, <2>1, <2>2, EscapedFits
  <2>4. Len(Escaped(m)) \in Nat
    <3>1. Escaped(m) \in Seq(Int)
      BY <1>7, <2>2, EscapedIn
    <3> QED
      BY <3>1
  <2> QED
    BY <1>2, <1>3, <1>5, <2>3, <2>4
<1> QED
  BY <1>6, <1>8, <1>9

(***************************************************************************)
(* The inductive invariant: what each call knows of its message, what may  *)
(* be on the bus or with a callback while it is under way, and which       *)
(* buffers are held at each point.                                         *)
(***************************************************************************)

Publishers == {"edge_publish", "edge_rrpc_response"}

OpOK ==
  /\ op.call \in Calls \union FromEdge \union {"state_reply", "none"}
  /\ op.call = "none" => op = NoOp
  /\ op.call = "state_reply" => op.data = <<>>
  /\ op.call = "report" => op.data \in DeviceLists
  /\ op.call \notin {"report", "none", "state_reply"} => op.data \in Messages
  /\ op.call \in Publishers \union FromEdge => op.topic \in Topics
  /\ op.call \notin Publishers \union FromEdge => op.topic = <<>> /\ op.to = <<>>
  /\ op.call \in {"edge_publish"} \union FromEdge => op.to = op.topic
  /\ op.call = "edge_rrpc_response" =>
       op.to = _replace_str(op.topic, "request", <<"response">>)
  /\ op.lineEnd \in {<<>>, << 10 >>}
  /\ op.call \notin FromEdge => op.lineEnd = <<>>

LogMessage == [subject |-> "log", text |-> Framed(<<>>, Escaped(op.data))]
EdgeText == Base64Of(op.data) \o op.lineEnd
EdgeMessage == [subject |-> op.call, topic |-> op.topic, text |-> EdgeText]
Report ==
  [subject |-> "state",
   text |-> IF FrameLen + EntriesLen(op.data) < BufLen
               /\ \A i \in DOMAIN op.data : op.data[i] < EntryBufLen
            THEN op.data ELSE NotJSON]
StateReply == [subject |-> "state_reply"]

BusOK ==
  /\ op.call = "none" => bus = <<>>
  /\ op.call \in Publishers \union {"nats_publish"} => bus \in {<<>>, <<Outgoing>>}
  /\ op.call = "log_write" => bus \in {<<>>, <<LogMessage>>}
  /\ op.call = "report" => bus \in {<<>>, <<Report>>}
  /\ op.call \in FromEdge => bus \in {<<>>, <<EdgeMessage>>}
  /\ op.call = "state_reply" => bus \in {<<>>, <<StateReply>>}

DecodedOf(text) == [payload |-> base64_decode(text).out, payloadLen |-> base64_decode(text).ret]

GotOK ==
  /\ op.call \notin {"local", "nats_publish"} => got = <<>>
  /\ op.call = "local" => got \in {<<>>, <<DecodedOf(EdgeText)>>}
  /\ op.call = "nats_publish" => got \in {<<>>, <<DecodedOf(Encoded(op.data))>>}

\* The buffers of a log line or a report, whole.
BufferSet == IF op.call = "log_write" THEN {"msg_str_rep", "msg_str", "log_msg"} ELSE ReportBufs

PcOK ==
  /\ pc # "idle" => op.call # "none"
  /\ pc \in {"payload", "frame", "publish"} => status = "none"
  /\ pc = "payload" =>
       op.call \in Publishers \union {"nats_publish"} /\ held = {} /\ bus = <<>> /\ got = <<>>
  /\ pc = "frame" =>
       op.call \in Publishers /\ held = {"payload"} /\ bus = <<>> /\ got = <<>>
  /\ pc = "publish" =>
       /\ \/ op.call \in Publishers /\ held = {"payload", "frame"}
          \/ op.call = "nats_publish" /\ held = {"payload"}
       /\ bus = <<>> /\ got = <<>>
  /\ pc \in {"alloc", "write"} =>
       /\ op.call \in {"log_write", "report"} /\ held \subseteq BufferSet
       /\ bus = <<>> /\ got = <<>>
  /\ pc = "write" => held = BufferSet
  /\ pc = "decode" =>
       op.call \in FromEdge /\ held = {"msg", "msg_json"} /\ bus = <<EdgeMessage>>
  /\ pc = "end" => op.call \in FromEdge /\ held = HandlerBufs /\ bus = <<>>
  /\ pc = "nats_end" =>
       /\ op.call = "nats_publish" /\ bus = <<>>
       /\ held \subseteq {"payload", "msg", "msg_base64decode"}
  /\ pc = "state" => op.call = "state_reply" /\ held = {"msg", "msg_json"} /\ bus = <<>>
  /\ op.call = "none" => held = {}

MessagingInv ==
  /\ TypeOK /\ OpOK /\ BusOK /\ GotOK /\ PcOK
  /\ OnlyKnownLeaks /\ OverrunNeedsLength

LEMMA TopicTypes ==
  ASSUME NEW t \in Topics
  PROVE  /\ TextLen(t) \in Nat
         /\ TextLen(_replace_str(t, "request", <<"response">>)) \in Nat
         /\ 7 * TextLen(_replace_str(t, "request", <<"response">>)) <= 8 * TextLen(t)
<1> DEFINE S == STRING \union {"response"}
<1>1. t \in Seq(STRING)
  BY MessagingAssumption
<1>2. t \in Seq(S) /\ "response" \in S
  BY <1>1, SeqMonotonic
<1> HIDE DEF S
<1>3. _replace_str(t, "request", <<"response">>) \in Seq(S)
  <2>1. <<"response">> \in Seq(S)
    BY <1>2
  <2>2. PICK h \in [0 .. Len(t) -> Seq(S)] :
           ReplaceIs(h, Len(t), t, "request", <<"response">>)
    BY <1>2, <2>1, ReplaceSteps
  <2>3. h[Len(t)] \in Seq(S)
    BY <1>2
  <2> QED
    BY <2>2, <2>3 DEF ReplaceIs
<1> QED
  BY <1>2, <1>3, TextLenNat, ResponseLength

\* The message of every call and of the edge has a length, and so have its topics.
LEMMA OpTypes ==
  ASSUME OpOK, op.call \notin {"none", "report", "state_reply"}
  PROVE  /\ op.data \in Seq(Byte)
         /\ Len(op.data) \in Nat
         /\ TextLen(op.to) \in Nat
         /\ ShortEnough(op) => Spare(TextLen(op.to), Len(op.data))
<1>1. op.data \in Seq(Byte) /\ Len(op.data) \in Nat
  BY MessagingAssumption DEF OpOK
<1>2. TextLen(op.to) \in Nat
  <2>1. CASE op.call \in {"edge_publish"} \union FromEdge
    BY <2>1, TopicTypes DEF OpOK, Publishers
  <2>2. CASE op.call = "edge_rrpc_response"
    BY <2>2, TopicTypes DEF OpOK, Publishers
  <2>3. CASE op.call \notin Publishers \union FromEdge
    <3>1. op.to = <<>> /\ <<>> \in Seq(STRING)
      BY <2>3 DEF OpOK
    <3> QED
      BY <3>1, TextLenNat
  <2> QED
    BY <2>1, <2>2, <2>3 DEF Publishers
<1>3. ASSUME ShortEnough(op) PROVE Spare(TextLen(op.to), Len(op.data))
  BY <1>3 DEF ShortEnough, ShortMessage, Spare
<1> QED
  BY <1>1, <1>2, <1>3

\* The topic of a response to a short message fits its buffer.
LEMMA ResponseFits ==
  ASSUME NEW o, o.topic \in Topics, o.call = "edge_rrpc_response", ShortEnough(o)
  PROVE  TextLen(_replace_str(o.topic, "request", <<"response">>)) < TopicBufLen
<1>1. TopicBufLen \in Nat
  BY MessagingAssumption
<1>2. PICK r \in Nat : r = TextLen(_replace_str(o.topic, "request", <<"response">>))
  BY TopicTypes
<1>3. PICK l \in Nat : l = TextLen(o.topic)
  BY TopicTypes
<1>4. 7 * r <= 8 * l
  BY <1>2, <1>3, TopicTypes
<1>5. 8 * l <= 7 * (TopicBufLen - 1)
  BY <1>3 DEF ShortEnough, ShortMessage
<1> QED
  BY <1>1, <1>2, <1>4, <1>5

\* A short report fits its buffer and its frame, and so does the log line.
LEMMA ReportFits ==
  ASSUME NEW o, o.data \in DeviceLists, o.call = "report", ShortEnough(o)
  PROVE  /\ EntriesLen(o.data) < BufLen
         /\ FrameLen + EntriesLen(o.data) < BufLen
         /\ LogFits(ReportText(o.data))
         /\ \A i \in DOMAIN o.data : o.data[i] < EntryBufLen
<1>1. /\ LogLen \in Nat /\ BufLen \in Nat /\ FrameLen \in Nat
      /\ FrameQuotes \in 1 .. FrameLen /\ EntryQuotes \in Nat /\ EntryBufLen \in Nat
  BY MessagingAssumption
<1>2. PICK s \in Seq(Nat \ 0 .. EntryQuotes) : s = o.data
  BY MessagingAssumption
<1>3. /\ \A i \in DOMAIN s : s[i] < EntryBufLen
      /\ FrameLen + FrameQuotes + LogLen + (EntryBufLen + EntryQuotes) * Len(s) < BufLen
  BY <1>2 DEF ShortEnough, ShortReport
<1>4. /\ EntriesLen(s) \in Nat
      /\ EntriesLen(s) >= EntryQuotes * Len(s)
      /\ EntriesLen(s) <= EntryBufLen * Len(s)
  BY <1>3, EntriesLength
<1>5. PICK x \in Nat, y \in Nat : x = EntryQuotes * Len(s) /\ y = EntryBufLen * Len(s)
  BY <1>1
<1>6. (EntryBufLen + EntryQuotes) * Len(s) = x + y
  <2>1. PICK l \in Nat : l = Len(s)
    OBVIOUS
  <2>2. (EntryBufLen + EntryQuotes) * l = EntryQuotes * l + EntryBufLen * l
    BY <1>1
  <2> QED
    BY <1>5, <2>1, <2>2
<1>7. PICK e \in Nat, f \in Nat, c \in Nat, g \in Nat, b \in Nat :
         e = EntriesLen(s) /\ f = FrameLen /\ c = FrameQuotes /\ g = LogLen /\ b = BufLen
  BY <1>1, <1>4
<1>8. f + c + g + (x + y) < b /\ e >= x /\ e <= y /\ c <= f
  BY <1>1, <1>3, <1>4, <1>5, <1>6, <1>7
<1>9. PICK m \in Nat : m = c + x
  OBVIOUS
<1>10. e < b /\ f + e < b /\ m <= f + e /\ g + f + e + m < b
  BY <1>8, <1>9
<1>11. m = FrameQuotes + EntryQuotes * Len(s)
  BY <1>5, <1>7, <1>9
<1>12. LogFits(ReportText(s))
  <2>1. m <= FrameLen + EntriesLen(s) /\ LogLen + FrameLen + EntriesLen(s) + m < BufLen
    BY <1>7, <1>10
  <2> QED
    BY <1>4, <1>11, <2>1, LogFitsReport
<1> QED
  BY <1>2, <1>3, <1>7, <1>10, <1>12

(***************************************************************************)
(* Every step preserves it.                                                *)
(***************************************************************************)

\* While a message is under way, what may be on the bus stays the same.
LEMMA SameMessage ==
  ASSUME op' = op
  PROVE  /\ OpOK => OpOK'
         /\ Outgoing' = Outgoing /\ LogMessage' = LogMessage
         /\ EdgeText' = EdgeText /\ EdgeMessage' = EdgeMessage /\ Report' = Report
         /\ DecodedOf(EdgeText)' = DecodedOf(EdgeText)
         /\ DecodedOf(Encoded(op.data))' = DecodedOf(Encoded(op.data))
         /\ ShortEnough(op)' = ShortEnough(op)
  BY DEF OpOK, Outgoing, LogMessage, EdgeText, EdgeMessage, Report

\* A call begins, and is not refused: what the caller hands over is kept in op.
LEMMA BeginsStep ==
  ASSUME MessagingInv, NEW call, NEW data, NEW topic, NEW to, NEW lineEnd,
         Begins(call, data, topic, to, lineEnd), OpOK',
         call \in Publishers \union {"nats_publish"},
         \/ pc' = "payload" /\ status' = "none"
         \/ pc' = "idle" /\ status' \in {"INVALID_ARG", "EDGE_ERR"}
         \/ pc' = "overrun" /\ status' = "none" /\ ~ ShortEnough(op'),
         bus' = bus
  PROVE  MessagingInv'
<1>1. /\ op.call = "none" /\ op'.call = call /\ held = {} /\ got = <<>> /\ bus = <<>> /\ pc = "idle"
      /\ held' = {} /\ got' = <<>> /\ bus' = <<>>
  BY DEF MessagingInv, Begins, NoOp, GotOK, BusOK, PcOK
<1>2. TypeOK'
  BY <1>1 DEF TypeOK, OpOK, Publishers, Calls, NoOp, Results
<1>3. BusOK' /\ GotOK' /\ PcOK'
  BY <1>1 DEF BusOK, GotOK, PcOK, Publishers
<1>4. OnlyKnownLeaks' /\ OverrunNeedsLength'
  BY <1>1 DEF OnlyKnownLeaks, OverrunNeedsLength, Publishers
<1> QED
  BY <1>2, <1>3, <1>4 DEF MessagingInv

LEMMA SendStep ==
  ASSUME MessagingInv, NEW m \in Messages, NEW t \in Topics,
         CallPublish(m, t) \/ CallResponse(m, t)
  PROVE  MessagingInv'
<1>1. CASE CallPublish(m, t)
  <2>1. OpOK'
    BY <1>1 DEF CallPublish, Begins, OpOK, Publishers, Calls
  <2> QED
    BY <1>1, <2>1, BeginsStep DEF CallPublish, Publishers
<1>2. CASE CallResponse(m, t)
  <2> DEFINE to == _replace_str(t, "request", <<"response">>)
  <2>1. /\ Begins("edge_rrpc_response", m, t, to, <<>>)
        /\ \/ /\ pc' = IF TextLen(to) < TopicBufLen THEN "payload" ELSE "overrun"
              /\ status' = "none"
           \/ pc' = "idle" /\ status' = "EDGE_ERR"
        /\ bus' = bus
    BY <1>2 DEF CallResponse
  <2> HIDE DEF to
  <2>2. op' = [call |-> "edge_rrpc_response", data |-> m, topic |-> t, to |-> to, lineEnd |-> <<>>]
    BY <2>1 DEF Begins
  <2>3. OpOK'
    BY <2>2 DEF OpOK, Publishers, Calls, to, FromEdge
  <2>4. ShortEnough(op') => TextLen(to) < TopicBufLen
    <3>1. PICK o : o = op'
      OBVIOUS
    <3>2. o.topic = t /\ o.call = "edge_rrpc_response"
      BY <2>2, <3>1
    <3> QED
      BY <3>1, <3>2, ResponseFits DEF to
  <2> QED
    BY <2>1, <2>3, <2>4, BeginsStep DEF Publishers
<1> QED
  BY <1>1, <1>2

LEMMA NatsPublishStep ==
  ASSUME MessagingInv, NEW m \in Messages, CallNatsPublish(m)
  PROVE  MessagingInv'
<1>1. OpOK'
  BY DEF CallNatsPublish, Begins, OpOK, Publishers, Calls, FromEdge
<1> QED
  BY <1>1, BeginsStep DEF CallNatsPublish

LEMMA AtMostOne ==
  ASSUME NEW s, NEW x, s = <<>> \/ s = <<x>>
  PROVE  Len(s) <= 1
<1>1. Len(<<>>) <= 1 /\ Len(<<x>>) <= 1
  OBVIOUS
<1> QED
  BY <1>1, Zenon

\* log_write or a report begins.
LEMMA CallBuffersStep ==
  ASSUME MessagingInv,
         (\E m \in Messages : CallLog(m)) \/ (\E l \in DeviceLists : CallReport(l))
  PROVE  MessagingInv'
<1>1. /\ op.call = "none" /\ held = {} /\ got = <<>> /\ bus = <<>> /\ pc = "idle"
      /\ held' = {} /\ got' = <<>> /\ bus' = <<>> /\ pc' = "alloc" /\ status' = "none"
  BY DEF MessagingInv, CallLog, CallReport, Begins, NoOp, GotOK, BusOK, PcOK
<1>2. PICK d : /\ op' \in {[call |-> "log_write", data |-> d, topic |-> <<>>, to |-> <<>>, lineEnd |-> <<>>],
                           [call |-> "report", data |-> d, topic |-> <<>>, to |-> <<>>, lineEnd |-> <<>>]}
               /\ op'.call = "log_write" => d \in Messages
               /\ op'.call = "report" => d \in DeviceLists
  BY DEF CallLog, CallReport, Begins
<1>3. op'.call \in {"log_write", "report"}
  BY <1>2
<1>4. OpOK'
  BY <1>2 DEF OpOK, Publishers, Calls, FromEdge
<1>5. TypeOK'
  BY <1>1, <1>2 DEF TypeOK, Calls, Results
<1>6. BusOK' /\ GotOK' /\ PcOK' /\ OnlyKnownLeaks' /\ OverrunNeedsLength'
  BY <1>1, <1>3 DEF BusOK, GotOK, PcOK, Publishers, FromEdge, OnlyKnownLeaks, OverrunNeedsLength
<1> QED
  BY <1>4, <1>5, <1>6 DEF MessagingInv

\* Its buffers are allocated one by one, or all of them freed.
LEMMA AllocBufferStep ==
  ASSUME MessagingInv, AllocBuffer
  PROVE  MessagingInv'
<1>1. /\ op' = op /\ pc = "alloc" /\ op.call \in {"log_write", "report"}
      /\ bus = <<>> /\ got = <<>> /\ bus' = <<>> /\ got' = <<>> /\ status' = status
  BY DEF MessagingInv, PcOK, AllocBuffer
<1>2. PICK b1, b2, b3 : Buffers(op.call) = <<b1, b2, b3>> /\ BufferSet = {b1, b2, b3}
  BY <1>1 DEF Buffers, BufferSet, ReportBufs
<1>3. \/ held' \subseteq BufferSet /\ pc' = "alloc"
      \/ held' = BufferSet /\ pc' = "write"
      \/ held' = {} /\ pc' = "idle"
  <2>1. PICK i \in 1 .. 3 :
           /\ held = {Buffers(op.call)[j] : j \in 1 .. i - 1}
           /\ \/ /\ held' = held \union {Buffers(op.call)[i]}
                 /\ pc' = IF i = 3 THEN "write" ELSE "alloc"
              \/ held' = {} /\ pc' = "idle"
    BY DEF AllocBuffer
  <2>2. /\ Buffers(op.call)[1] = b1 /\ Buffers(op.call)[2] = b2 /\ Buffers(op.call)[3] = b3
    BY <1>2
  <2>3. {Buffers(op.call)[j] : j \in 1 .. 2} = {b1, b2}
    <3>1. \A j : j \in 1 .. 2 <=> j = 1 \/ j = 2
      OBVIOUS
    <3> QED
      BY <2>2, <3>1
  <2>4. held \subseteq BufferSet
    BY <1>1 DEF MessagingInv, PcOK
  <2>5. CASE i = 3
    <3>1. 3 - 1 = 2
      OBVIOUS
    <3>2. held = {b1, b2}
      BY <2>1, <2>3, <2>5, <3>1
    <3> QED
      BY <1>2, <2>1, <2>2, <2>5, <3>2
  <2>6. CASE i # 3
    <3>1. Buffers(op.call)[i] \in BufferSet
      <4>1. i = 1 \/ i = 2
        BY <2>6
      <4> QED
        BY <1>2, <2>2, <4>1
    <3> QED
      BY <2>1, <2>4, <2>6, <3>1
  <2> QED
    BY <2>5, <2>6
<1>4. BufferSet' = BufferSet /\ OpOK' /\ BusOK' /\ GotOK'
  BY <1>1, SameMessage DEF MessagingInv, BusOK, GotOK, Publishers, FromEdge, BufferSet
<1>5. TypeOK'
  <2>1. BufferSet \subseteq {"msg_str_rep", "msg_str", "log_msg"} \union ReportBufs
    BY DEF BufferSet
  <2> QED
    BY <1>1, <1>3, <2>1, AtMostOne DEF MessagingInv, TypeOK
<1>6. PcOK'
  BY <1>1, <1>3, <1>4 DEF PcOK
<1>7. OnlyKnownLeaks' /\ OverrunNeedsLength'
  BY <1>1, <1>3 DEF OnlyKnownLeaks, OverrunNeedsLength
<1> QED
  BY <1>4, <1>5, <1>6, <1>7 DEF MessagingInv

\* log_write: a line that does not fit its buffer is not short.
LEMMA WriteLogStep ==
  ASSUME MessagingInv, WriteLog
  PROVE  MessagingInv'
<1>1. /\ op' = op /\ pc = "write" /\ op.call = "log_write"
      /\ bus = <<>> /\ got = <<>> /\ got' = <<>> /\ status' = status
  BY DEF MessagingInv, PcOK, WriteLog, Overrun
<1>2. \/ Len(Escaped(op.data)) >= BufLen /\ pc' = "overrun" /\ bus' = <<>> /\ held' = held
      \/ pc' = "idle" /\ held' = {} /\ bus' \in {<<>>, <<LogMessage>>}
  BY <1>1 DEF WriteLog, Overrun, LogMessage
<1>3. OpOK' /\ BusOK' /\ GotOK'
  BY <1>1, <1>2, SameMessage DEF MessagingInv, BusOK, GotOK, Publishers, FromEdge
<1>4. TypeOK'
  <2>1. Len(bus') <= 1
    BY <1>2, AtMostOne
  <2> QED
    BY <1>1, <1>2, <2>1 DEF MessagingInv, TypeOK
<1>5. PcOK' /\ OnlyKnownLeaks'
  BY <1>1, <1>2 DEF MessagingInv, PcOK, OnlyKnownLeaks
<1>6. ASSUME pc' = "overrun" PROVE ~ ShortEnough(op)
  <2>1. op.data \in Seq(Byte) /\ TextLen(op.to) \in Nat
          /\ (ShortEnough(op) => Spare(TextLen(op.to), Len(op.data)))
    BY <1>1, OpTypes DEF MessagingInv
  <2>2. ShortEnough(op) => Len(Escaped(op.data)) < BufLen
    BY <2>1, MessageFits
  <2>3. Len(Escaped(op.data)) \in Int /\ BufLen \in Int
    <3>1. op.data \in Seq(Int) /\ Quote \in Int /\ Backslash \in Int
      BY <2>1, BytesAreInts DEF Quote, Backslash
    <3>2. Escaped(op.data) \in Seq(Int)
      BY <3>1, EscapedIn
    <3> QED
      BY <3>2, MessagingAssumption
  <2> QED
    BY <1>2, <1>6, <2>2, <2>3
<1>7. OverrunNeedsLength'
  BY <1>1, <1>6, SameMessage DEF OverrunNeedsLength
<1> QED
  BY <1>3, <1>4, <1>5, <1>7 DEF MessagingInv

\* The edge sends a message or answers a report.
LEMMA EdgeStep ==
  ASSUME MessagingInv,
         \/ \E c \in FromEdge, m \in Messages, t \in Topics, e \in {<<>>, << 10 >>} :
              EdgeSends(c, m, t, e)
         \/ EdgeAnswers
  PROVE  MessagingInv'
<1>1. op.call = "none" /\ held = {} /\ got = <<>> /\ bus = <<>> /\ pc = "idle"
  BY DEF MessagingInv, EdgeAnswers, EdgeSends, Begins, NoOp, GotOK, BusOK, PcOK
<1>2. ASSUME NEW c \in FromEdge, NEW m \in Messages, NEW t \in Topics,
             NEW e \in {<<>>, << 10 >>}, EdgeSends(c, m, t, e)
      PROVE  MessagingInv'
  <2>1. /\ op' = [call |-> c, data |-> m, topic |-> t, to |-> t, lineEnd |-> e]
        /\ pc' = "idle" /\ status' = "none" /\ held' = {} /\ got' = <<>>
    BY <1>1, <1>2 DEF EdgeSends, Begins
  <2>2. bus' = <<EdgeMessage'>>
    BY <1>2, <2>1 DEF EdgeSends, EdgeMessage, EdgeText
  <2>3. OpOK'
    BY <2>1 DEF OpOK, Publishers, Calls, FromEdge
  <2>4. TypeOK'
    <3>1. Len(bus') <= 1
      BY <2>2, AtMostOne
    <3> QED
      BY <2>1, <2>2, <3>1 DEF TypeOK, Calls, Results
  <2>5. op'.call \in {"local", "broadcast"}
    BY <2>1 DEF FromEdge
  <2>6. BusOK' /\ GotOK' /\ PcOK' /\ OnlyKnownLeaks' /\ OverrunNeedsLength'
    BY <2>1, <2>2, <2>5 DEF BusOK, GotOK, PcOK, Publishers, OnlyKnownLeaks, OverrunNeedsLength
  <2> QED
    BY <2>3, <2>4, <2>6 DEF MessagingInv
<1>3. CASE EdgeAnswers
  <2>1. /\ op' = [call |-> "state_reply", data |-> <<>>, topic |-> <<>>, to |-> <<>>, lineEnd |-> <<>>]
        /\ pc' = "idle" /\ status' = "none" /\ held' = {} /\ got' = <<>>
        /\ bus' = <<StateReply>>
    BY <1>1, <1>3 DEF EdgeAnswers, Begins, StateReply
  <2>2. OpOK'
    BY <2>1 DEF OpOK, Publishers, Calls, FromEdge
  <2>3. TypeOK'
    <3>1. Len(bus') <= 1
      BY <2>1, AtMostOne
    <3> QED
      BY <2>1, <3>1 DEF TypeOK, Calls, Results
  <2>4. BusOK' /\ GotOK' /\ PcOK' /\ OnlyKnownLeaks' /\ OverrunNeedsLength'
    BY <2>1 DEF BusOK, GotOK, PcOK, Publishers, FromEdge, StateReply, OnlyKnownLeaks,
                OverrunNeedsLength
  <2> QED
    BY <2>2, <2>3, <2>4 DEF MessagingInv
<1> QED
  BY <1>2, <1>3

\* normal_payload_base64: what overruns it, or the log line, is not short.
LEMMA AllocPayloadStep ==
  ASSUME MessagingInv, AllocPayload
  PROVE  MessagingInv'
<1>1. /\ op' = op /\ pc = "payload" /\ status = "none" /\ op.call \in Publishers \union {"nats_publish"}
      /\ held = {} /\ bus = <<>> /\ got = <<>> /\ bus' = <<>> /\ got' = <<>>
  BY DEF MessagingInv, PcOK, AllocPayload, Overrun, Return
<1>2. \/ /\ held' = {"payload"} /\ status' = status
         /\ pc' = IF op.call = "nats_publish" THEN "publish" ELSE "frame"
      \/ pc' = "overrun" /\ held' = held /\ status' = status
      \/ pc' = "idle" /\ status' \in Results /\ held' = held
  BY DEF AllocPayload, Overrun, Return, Results
<1>3. OpOK' /\ BusOK' /\ GotOK'
  BY <1>1, SameMessage DEF MessagingInv, BusOK, GotOK, Publishers
<1>4. TypeOK'
  BY <1>1, <1>2, AtMostOne DEF MessagingInv, TypeOK, Publishers
<1>5. PcOK' /\ OnlyKnownLeaks'
  BY <1>1, <1>2 DEF MessagingInv, PcOK, OnlyKnownLeaks, Publishers
<1>6. ASSUME pc' = "overrun" PROVE ~ ShortEnough(op)
  <2>1. \/ Len(base64_encode(op.data)) >= PayloadBuf
        \/ ~ LogFits(op.data)
    BY <1>6 DEF AllocPayload, Overrun, Return
  <2>2. op.data \in Seq(Byte) /\ TextLen(op.to) \in Nat
          /\ (ShortEnough(op) => Spare(TextLen(op.to), Len(op.data)))
    BY <1>1, OpTypes DEF MessagingInv, Publishers
  <2>3. ShortEnough(op) => Len(base64_encode(op.data)) < PayloadBuf /\ LogFits(op.data)
    BY <2>2, MessageFits
  <2>4. Len(base64_encode(op.data)) \in Int /\ PayloadBuf \in Int
    BY <2>2, EncodedBytes, MessagingAssumption DEF PayloadBuf
  <2> QED
    BY <2>1, <2>3, <2>4
<1>7. OverrunNeedsLength'
  BY <1>1, <1>6, SameMessage DEF OverrunNeedsLength
<1> QED
  BY <1>3, <1>4, <1>5, <1>7 DEF MessagingInv

\* normal_msg: a frame whose log line overruns is not short.
LEMMA AllocFrameStep ==
  ASSUME MessagingInv, AllocFrame
  PROVE  MessagingInv'
<1>1. /\ op' = op /\ pc = "frame" /\ status = "none" /\ op.call \in Publishers /\ held = {"payload"}
      /\ bus = <<>> /\ got = <<>> /\ bus' = <<>> /\ got' = <<>>
  BY DEF MessagingInv, PcOK, AllocFrame, Overrun, Return
<1>2. \/ held' = {"payload", "frame"} /\ status' = status /\ pc' = "publish"
      \/ pc' = "overrun" /\ held' = held /\ status' = status
      \/ pc' = "idle" /\ status' \in Results /\ held' = {}
  BY <1>1 DEF AllocFrame, Overrun, Return, Results
<1>3. OpOK' /\ BusOK' /\ GotOK'
  BY <1>1, SameMessage DEF MessagingInv, BusOK, GotOK, Publishers
<1>4. TypeOK'
  BY <1>1, <1>2, AtMostOne DEF MessagingInv, TypeOK, Publishers
<1>5. PcOK' /\ OnlyKnownLeaks'
  BY <1>1, <1>2 DEF MessagingInv, PcOK, OnlyKnownLeaks, Publishers
<1>6. ASSUME pc' = "overrun" PROVE ~ ShortEnough(op)
  <2>1. ~ LogFits(FrameText(op.to, Encoded(op.data)))
    BY <1>6 DEF AllocFrame, Overrun, Return
  <2>2. /\ op.data \in Seq(Byte) /\ Len(op.data) \in Nat /\ TextLen(op.to) \in Nat
        /\ ShortEnough(op) => Spare(TextLen(op.to), Len(op.data))
    BY <1>1, OpTypes DEF MessagingInv, Publishers
  <2>3. Len(Encoded(op.data)) \in Nat
          /\ Len(Encoded(op.data)) <= 4 * ((Len(op.data) + 2) \div 3) + 1
    BY <2>2, TextsOnBus
  <2> QED
    BY <2>1, <2>2, <2>3, FrameFits
<1>7. OverrunNeedsLength'
  BY <1>1, <1>6, SameMessage DEF OverrunNeedsLength
<1> QED
  BY <1>3, <1>4, <1>5, <1>7 DEF MessagingInv

LEMMA PublishStep ==
  ASSUME MessagingInv, Publish
  PROVE  MessagingInv'
<1>1. /\ op' = op /\ pc = "publish" /\ op.call \in Publishers \union {"nats_publish"}
      /\ (op.call = "nats_publish" => held = {"payload"})
      /\ bus = <<>> /\ got = <<>> /\ got' = <<>>
  BY DEF MessagingInv, PcOK, Publish, Publishers
<1>2. /\ bus' \in {<<>>, <<Outgoing>>} /\ pc' = "idle" /\ status' \in Results
      /\ held' = IF op.call = "nats_publish" THEN held ELSE {}
  BY DEF Publish, Return, Results, Kept
<1>3. OpOK' /\ BusOK' /\ GotOK'
  BY <1>1, <1>2, SameMessage DEF MessagingInv, BusOK, GotOK, Publishers, FromEdge
<1>4. TypeOK'
  <2>1. Len(bus') <= 1
    BY <1>2, AtMostOne
  <2> QED
    BY <1>1, <1>2, <2>1 DEF MessagingInv, TypeOK, Publishers
<1>5. PcOK' /\ OnlyKnownLeaks' /\ OverrunNeedsLength'
  BY <1>1, <1>2 DEF MessagingInv, PcOK, OnlyKnownLeaks, OverrunNeedsLength, Publishers
<1> QED
  BY <1>3, <1>4, <1>5 DEF MessagingInv

\* _handle_status_sync: a report that overruns its buffer or the log line is not
\* short.
LEMMA WriteReportStep ==
  ASSUME MessagingInv, WriteReport
  PROVE  MessagingInv'
<1>1. /\ op' = op /\ pc = "write" /\ op.call = "report" /\ held = ReportBufs
      /\ bus = <<>> /\ got = <<>> /\ got' = <<>> /\ status' = status
  BY DEF MessagingInv, PcOK, WriteReport, Overrun, BufferSet
<1>2. \/ pc' = "overrun" /\ held' = held /\ bus' = bus
      \/ pc' = "idle" /\ held' = ReportBufs /\ bus' \in {<<>>, <<Report>>}
  BY <1>1 DEF WriteReport, Overrun, Report
<1>3. OpOK' /\ BusOK' /\ GotOK'
  BY <1>1, <1>2, SameMessage DEF MessagingInv, BusOK, GotOK, Publishers, FromEdge
<1>4. TypeOK'
  <2>1. Len(bus') <= 1
    BY <1>1, <1>2, AtMostOne
  <2> QED
    BY <1>1, <1>2, <2>1 DEF MessagingInv, TypeOK
<1>5. PcOK' /\ OnlyKnownLeaks'
  BY <1>1, <1>2 DEF MessagingInv, PcOK, OnlyKnownLeaks, Publishers
<1>6. ASSUME pc' = "overrun" PROVE ~ ShortEnough(op)
  <2>1. EntriesLen(op.data) >= BufLen \/ ~ LogFits(ReportText(op.data))
    BY <1>6 DEF WriteReport, Overrun
  <2>2. op.data \in DeviceLists
    BY <1>1 DEF MessagingInv, OpOK
  <2>3. ShortEnough(op) => EntriesLen(op.data) < BufLen /\ LogFits(ReportText(op.data))
    BY <1>1, <2>2, ReportFits
  <2>4. BufLen \in Nat /\ (ShortEnough(op) => EntriesLen(op.data) \in Nat)
    <3>1. BufLen \in Nat /\ op.data \in Seq(Nat \ 0 .. EntryQuotes)
      BY <2>2, MessagingAssumption
    <3>2. ASSUME ShortEnough(op) PROVE \A i \in DOMAIN op.data : op.data[i] < EntryBufLen
      BY <1>1, <2>2, <3>2, ReportFits
    <3> QED
      BY <3>1, <3>2, EntriesLength
  <2> QED
    BY <2>1, <2>3, <2>4
<1>7. OverrunNeedsLength'
  BY <1>1, <1>6, SameMessage DEF OverrunNeedsLength
<1> QED
  BY <1>3, <1>4, <1>5, <1>7 DEF MessagingInv

\* What waits on the bus for each handler.
LEMMA OnBusIs ==
  ASSUME MessagingInv
  PROVE  /\ OnBus("local") \/ OnBus("broadcast") => op.call \in FromEdge /\ bus = <<EdgeMessage>>
         /\ OnBus("nats_publish") =>
              op.call = "nats_publish" /\ bus = <<Outgoing>> /\ bus[1].text = Encoded(op.data)
         /\ OnBus("state_reply") => op.call = "state_reply"
<1>1. /\ op.call \in Publishers => Outgoing.subject = "router"
      /\ op.call = "nats_publish" =>
           Outgoing.subject = "nats_publish" /\ Outgoing.text = Encoded(op.data)
      /\ LogMessage.subject = "log" /\ Report.subject = "state"
      /\ EdgeMessage.subject = op.call /\ StateReply.subject = "state_reply"
  BY DEF EdgeMessage, Outgoing, LogMessage, Report, Publishers, StateReply
<1>2. op.call \in Publishers \union FromEdge
                    \union {"none", "nats_publish", "log_write", "report", "state_reply"}
  BY DEF MessagingInv, OpOK, Calls, Publishers
<1>3. bus # <<>> =>
        \/ op.call \in Publishers \union {"nats_publish"} /\ bus = <<Outgoing>> /\ bus[1] = Outgoing
        \/ op.call = "log_write" /\ bus[1] = LogMessage
        \/ op.call = "report" /\ bus[1] = Report
        \/ op.call \in FromEdge /\ bus = <<EdgeMessage>> /\ bus[1] = EdgeMessage
        \/ op.call = "state_reply" /\ bus[1] = StateReply
  <2>1. \A x, y : x = <<y>> => x[1] = y
    OBVIOUS
  <2> QED
    BY <1>2, <2>1 DEF MessagingInv, BusOK
<1> QED
  BY <1>1, <1>3 DEF OnBus, Publishers, FromEdge

\* The handlers that decode: what overruns the buffer or the line that logs it is not
\* short.
LEMMA DecodesFits ==
  ASSUME MessagingInv, NEW text, bus # <<>>, bus[1].text = text,
         \/ op.call \in FromEdge /\ text = EdgeText
         \/ op.call = "nats_publish" /\ text = Encoded(op.data),
         Len(Decoded.payload) >= BufLen \/ ~ LogFits(Decoded.payload)
  PROVE  ~ ShortEnough(op)
<1>1. /\ op.data \in Seq(Byte) /\ Len(op.data) \in Nat /\ TextLen(op.to) \in Nat
      /\ ShortEnough(op) => Spare(TextLen(op.to), Len(op.data))
  BY OpTypes DEF MessagingInv, FromEdge
<1>2. op.lineEnd \in {<<>>, << 10 >>}
  BY DEF MessagingInv, OpOK
<1>3. PICK s \in Seq(Int) : s = text /\ Len(s) <= 4 * ((Len(op.data) + 2) \div 3) + 1
  BY <1>1, <1>2, TextsOnBus DEF EdgeText
<1>4. \/ Len(base64_decode(s).out) >= BufLen
      \/ ~ LogFits(base64_decode(s).out)
  BY <1>3 DEF Decoded
<1>5. ShortEnough(op) =>
        Len(base64_decode(s).out) < BufLen /\ LogFits(base64_decode(s).out)
  BY <1>1, <1>3, DecodedFits
<1>6. Len(base64_decode(s).out) \in Int /\ BufLen \in Int
  BY DecodedLength, MessagingAssumption
<1> QED
  BY <1>4, <1>5, <1>6

\* _on_local_message and _on_broadcast_message: a message whose log line overruns is
\* not short.
LEMMA OnEdgeMessageStep ==
  ASSUME MessagingInv, OnEdgeMessage
  PROVE  MessagingInv'
<1>1. /\ op' = op /\ pc = "idle" /\ op.call \in {"local", "broadcast"} /\ bus = <<EdgeMessage>>
      /\ status' = status /\ got' = got /\ held = {}
  BY OnBusIs DEF MessagingInv, OnBus, OnEdgeMessage, Overrun, OnlyKnownLeaks, FromEdge
<1>2. \/ pc' = "overrun" /\ bus' = bus /\ held' = held
           /\ ~ LogFits(FrameText(op.topic, bus[1].text))
      \/ pc' = "decode" /\ held' = {"msg", "msg_json"} /\ bus' = bus
      \/ pc' = "idle" /\ held' = {} /\ bus' = <<>>
  BY <1>1 DEF OnEdgeMessage, Overrun
<1>3. OpOK' /\ BusOK' /\ GotOK'
  BY <1>1, <1>2, SameMessage DEF MessagingInv, BusOK, GotOK, Publishers, FromEdge
<1>4. TypeOK'
  <2>1. Len(bus') <= 1 /\ Len(got') <= 1
    <3>1. Len(bus) <= 1 /\ Len(got) <= 1
      BY DEF MessagingInv, TypeOK
    <3> QED
      BY <1>1, <1>2, <3>1, AtMostOne
  <2> QED
    BY <1>1, <1>2, <2>1 DEF MessagingInv, TypeOK, HandlerBufs
<1>5. EdgeMessage' = EdgeMessage
  BY <1>1, SameMessage
<1>6. PcOK' /\ OnlyKnownLeaks'
  BY <1>1, <1>2, <1>5 DEF MessagingInv, PcOK, OnlyKnownLeaks, FromEdge
<1>7. ASSUME pc' = "overrun" PROVE ~ ShortEnough(op)
  <2>1. /\ op.data \in Seq(Byte) /\ Len(op.data) \in Nat /\ TextLen(op.to) \in Nat
        /\ ShortEnough(op) => Spare(TextLen(op.to), Len(op.data))
    BY <1>1, OpTypes DEF MessagingInv
  <2>2. op.topic = op.to /\ op.lineEnd \in {<<>>, << 10 >>}
    BY <1>1 DEF MessagingInv, OpOK, FromEdge
  <2>3. PICK text \in Seq(Int) : text = EdgeText /\ Len(text) <= 4 * ((Len(op.data) + 2) \div 3) + 1
    BY <2>1, <2>2, TextsOnBus DEF EdgeText
  <2>4. bus[1].text = text
    <3>1. EdgeMessage.text = text
      BY <2>3 DEF EdgeMessage
    <3>2. \A x, y : x = <<y>> => x[1] = y
      OBVIOUS
    <3> QED
      BY <1>1, <3>1, <3>2
  <2>5. ~ LogFits(FrameText(op.to, text))
    BY <1>2, <1>7, <2>2, <2>4
  <2>6. Len(text) \in Nat
    OBVIOUS
  <2>7. ShortEnough(op) => LogFits(FrameText(op.to, text))
    BY <2>1, <2>3, <2>6, FrameFits
  <2> QED
    BY <2>5, <2>7
<1>8. OverrunNeedsLength'
  BY <1>1, <1>7, SameMessage DEF OverrunNeedsLength
<1> QED
  BY <1>3, <1>4, <1>6, <1>8 DEF MessagingInv

\* They decode the payload.
LEMMA DecodePayloadStep ==
  ASSUME MessagingInv, DecodePayload
  PROVE  MessagingInv'
<1>1. /\ op' = op /\ pc = "decode" /\ op.call \in {"local", "broadcast"} /\ bus = <<EdgeMessage>>
      /\ held = {"msg", "msg_json"} /\ status' = status
  BY DEF MessagingInv, PcOK, DecodePayload, Decodes, Overrun, FromEdge
<1>2. bus # <<>> /\ bus[1].text = EdgeText
  <2>1. EdgeMessage.text = EdgeText
    BY DEF EdgeMessage
  <2>2. \A x, y : x = <<y>> => x # <<>> /\ x[1] = y
    OBVIOUS
  <2> QED
    BY <1>1, <2>1, <2>2
<1>3. \/ /\ pc' = "overrun" /\ bus' = bus /\ held' = held /\ got' = got
         /\ Len(Decoded.payload) >= BufLen \/ ~ LogFits(Decoded.payload)
      \/ /\ pc' = "end" /\ held' = HandlerBufs /\ bus' = <<>>
         /\ got' \in {<<>>} \union (IF op.call = "broadcast" THEN {} ELSE {<<DecodedOf(EdgeText)>>})
      \/ pc' = "idle" /\ held' = {} /\ bus' = <<>> /\ got' = got
  <2>1. Decoded = DecodedOf(EdgeText)
    BY <1>2 DEF Decoded, DecodedOf
  <2>2. /\ held \union {"msg", "msg_base64decode"} = HandlerBufs
        /\ held \ {"msg_json", "msg"} = {}
    BY <1>1 DEF HandlerBufs
  <2> QED
    BY <2>1, <2>2 DEF DecodePayload, Decodes, Overrun
<1>4. OpOK' /\ BusOK' /\ GotOK'
  BY <1>1, <1>3, SameMessage DEF MessagingInv, BusOK, GotOK, Publishers, FromEdge
<1>5. TypeOK'
  <2>1. Len(bus') <= 1 /\ Len(got') <= 1
    <3>1. Len(bus) <= 1 /\ Len(got) <= 1
      BY DEF MessagingInv, TypeOK
    <3>2. got' = got \/ got' = <<>> \/ got' = <<DecodedOf(EdgeText)>>
      BY <1>3
    <3> QED
      BY <1>3, <3>1, <3>2, AtMostOne
  <2> QED
    BY <1>1, <1>3, <2>1 DEF MessagingInv, TypeOK
<1>6. PcOK' /\ OnlyKnownLeaks'
  BY <1>1, <1>3 DEF MessagingInv, PcOK, OnlyKnownLeaks, FromEdge
<1>7. ASSUME pc' = "overrun" PROVE ~ ShortEnough(op)
  BY <1>1, <1>2, <1>3, <1>7, DecodesFits DEF FromEdge
<1>8. OverrunNeedsLength'
  BY <1>1, <1>7, SameMessage DEF OverrunNeedsLength
<1> QED
  BY <1>4, <1>5, <1>6, <1>8 DEF MessagingInv

\* _on_nats_message.
LEMMA OnNatsMessageStep ==
  ASSUME MessagingInv, OnNatsMessage
  PROVE  MessagingInv'
<1>1. /\ op' = op /\ pc = "idle" /\ op.call = "nats_publish"
      /\ bus # <<>> /\ bus[1].text = Encoded(op.data)
      /\ status' = status /\ held \subseteq {"payload", "msg"}
  BY OnBusIs DEF MessagingInv, OnBus, OnNatsMessage, Decodes, Overrun, OnlyKnownLeaks
<1>2. \/ /\ pc' = "overrun" /\ bus' = bus /\ held' = held /\ got' = got
         /\ Len(Decoded.payload) >= BufLen \/ ~ LogFits(Decoded.payload)
      \/ /\ pc' = "nats_end" /\ held' \subseteq {"payload", "msg", "msg_base64decode"} /\ bus' = <<>>
         /\ got' \in {<<>>, <<DecodedOf(Encoded(op.data))>>}
      \/ pc' = "idle" /\ held' \subseteq {"payload", "msg"} /\ bus' = <<>> /\ got' = got
  <2>1. Decoded = DecodedOf(Encoded(op.data))
    BY <1>1 DEF Decoded, DecodedOf
  <2>2. /\ held \union {"msg", "msg_base64decode"} \subseteq {"payload", "msg", "msg_base64decode"}
        /\ held \union {"msg"} \subseteq {"payload", "msg"}
    BY <1>1
  <2> QED
    BY <1>1, <2>1, <2>2 DEF OnNatsMessage, Decodes, Overrun
<1>3. OpOK' /\ BusOK' /\ GotOK'
  BY <1>1, <1>2, SameMessage DEF MessagingInv, BusOK, GotOK, Publishers, FromEdge
<1>4. TypeOK'
  <2>1. Len(bus') <= 1 /\ Len(got') <= 1
    <3>1. Len(bus) <= 1 /\ Len(got) <= 1
      BY DEF MessagingInv, TypeOK
    <3>2. got' = got \/ got' = <<>> \/ got' = <<DecodedOf(Encoded(op.data))>>
      BY <1>2
    <3> QED
      BY <1>2, <3>1, <3>2, AtMostOne
  <2> QED
    BY <1>1, <1>2, <2>1 DEF MessagingInv, TypeOK, HandlerBufs
<1>5. PcOK' /\ OnlyKnownLeaks'
  BY <1>1, <1>2 DEF MessagingInv, PcOK, OnlyKnownLeaks
<1>6. ASSUME pc' = "overrun" PROVE ~ ShortEnough(op)
  BY <1>1, <1>2, <1>6, DecodesFits
<1>7. OverrunNeedsLength'
  BY <1>1, <1>6, SameMessage DEF OverrunNeedsLength
<1> QED
  BY <1>3, <1>4, <1>5, <1>7 DEF MessagingInv

\* A handler ends, and _on_edge_state_message begins.
LEMMA HandlerEndStep ==
  ASSUME MessagingInv, EndMessage \/ EndNats \/ OnStateMessage \/ EndState
  PROVE  MessagingInv'
<1>1. /\ op' = op /\ status' = status /\ got' = got /\ bus' = <<>>
      /\ pc' \in {"idle", "state"}
  BY DEF MessagingInv, PcOK, EndMessage, EndNats, OnStateMessage, EndState, OnBus
<1>2. \/ op.call \in {"local", "broadcast"} /\ held' = {} /\ pc' = "idle"
      \/ op.call = "nats_publish" /\ held' \subseteq {"payload", "msg"} /\ pc' = "idle"
      \/ /\ op.call = "state_reply" /\ pc' = "idle"
         /\ held' \in {{}, {"msg_json"}, {"msg_json", "state_str"}}
      \/ op.call = "state_reply" /\ held' = {"msg", "msg_json"} /\ pc' = "state"
  <2>1. CASE EndMessage
    BY <2>1 DEF MessagingInv, PcOK, EndMessage, HandlerBufs, FromEdge
  <2>2. CASE EndNats
    BY <2>2 DEF MessagingInv, PcOK, EndNats
  <2>3. CASE OnStateMessage
    <3>1. op.call = "state_reply" /\ pc = "idle"
      BY <2>3, OnBusIs DEF OnStateMessage, OnBus
    <3>2. held \in {{}, {"msg_json"}, {"msg_json", "state_str"}}
      BY <3>1 DEF MessagingInv, OnlyKnownLeaks
    <3> QED
      BY <2>3, <3>1, <3>2 DEF OnStateMessage
  <2>4. CASE EndState
    <3>1. op.call = "state_reply" /\ held = {"msg", "msg_json"} /\ pc' = "idle"
      BY <2>4 DEF MessagingInv, PcOK, EndState
    <3>2. held' = {"msg_json"} \/ held' = {"msg_json", "state_str"}
      BY <2>4, <3>1 DEF EndState
    <3> QED
      BY <3>1, <3>2
  <2> QED
    BY <2>1, <2>2, <2>3, <2>4
<1>3. OpOK' /\ BusOK' /\ GotOK'
  BY <1>1, SameMessage DEF MessagingInv, BusOK, GotOK
<1>4. TypeOK'
  BY <1>1, <1>2, AtMostOne DEF MessagingInv, TypeOK, HandlerBufs
<1>5. PcOK' /\ OnlyKnownLeaks'
  BY <1>1, <1>2 DEF PcOK, OnlyKnownLeaks
<1>6. OverrunNeedsLength'
  BY <1>2 DEF OverrunNeedsLength
<1> QED
  BY <1>3, <1>4, <1>5, <1>6 DEF MessagingInv

\* Somebody else takes the message, or the last one is forgotten.
LEMMA EndStep ==
  ASSUME MessagingInv, Taken \/ Forget
  PROVE  MessagingInv'
<1>1. CASE Taken
  <2>1. /\ op' = op /\ held' = held /\ status' = status /\ got' = got /\ bus' = <<>>
        /\ pc = "idle" /\ pc' = "idle"
    BY <1>1 DEF Taken
  <2>2. OpOK' /\ BusOK' /\ GotOK'
    BY <2>1, SameMessage DEF MessagingInv, BusOK, GotOK
  <2>3. TypeOK' /\ PcOK' /\ OnlyKnownLeaks'
    BY <2>1, AtMostOne DEF MessagingInv, TypeOK, PcOK, OnlyKnownLeaks
  <2>4. OverrunNeedsLength'
    BY <2>1, SameMessage DEF MessagingInv, OverrunNeedsLength
  <2> QED
    BY <2>2, <2>3, <2>4 DEF MessagingInv
<1>2. CASE Forget
  <2>1. /\ op' = NoOp /\ held' = {} /\ status' = "none" /\ got' = <<>>
        /\ pc' = "idle" /\ bus' = <<>>
    BY <1>2 DEF Forget
  <2>2. OpOK' /\ BusOK' /\ GotOK' /\ PcOK' /\ OnlyKnownLeaks' /\ OverrunNeedsLength'
    BY <2>1 DEF NoOp, OpOK, BusOK, GotOK, PcOK, OnlyKnownLeaks, OverrunNeedsLength, Publishers,
                FromEdge
  <2>3. TypeOK'
    BY <2>1, AtMostOne DEF NoOp, TypeOK
  <2> QED
    BY <2>2, <2>3 DEF MessagingInv
<1> QED
  BY <1>1, <1>2

\* What MessagingInv says holds of every state: the invariant of every message.
THEOREM MessagingInvariant == Spec => []MessagingInv
<1>1. Init => MessagingInv
  <2> SUFFICES ASSUME Init PROVE MessagingInv
    OBVIOUS
  <2>1. /\ op = NoOp /\ pc = "idle" /\ held = {}
        /\ status = "none" /\ bus = <<>> /\ got = <<>>
    BY DEF Init
  <2>2. OpOK /\ BusOK /\ GotOK /\ PcOK /\ OnlyKnownLeaks /\ OverrunNeedsLength
    BY <2>1 DEF NoOp, OpOK, BusOK, GotOK, PcOK, OnlyKnownLeaks, OverrunNeedsLength, Publishers,
                FromEdge
  <2>3. TypeOK
    BY <2>1, AtMostOne DEF NoOp, TypeOK
  <2> QED
    BY <2>2, <2>3 DEF MessagingInv
<1>2. MessagingInv /\ [Next]_vars => MessagingInv'
  <2> SUFFICES ASSUME MessagingInv, [Next]_vars PROVE MessagingInv'
    OBVIOUS
  <2>1. CASE UNCHANGED vars
    <3>1. /\ op' = op /\ pc' = pc /\ held' = held /\ status' = status /\ bus' = bus
          /\ got' = got
      BY <2>1 DEF vars
    <3>2. OpOK' /\ BusOK' /\ GotOK'
      BY <3>1, SameMessage DEF MessagingInv, BusOK, GotOK
    <3>3. TypeOK' /\ OnlyKnownLeaks' /\ OverrunNeedsLength'
      BY <3>1, SameMessage DEF MessagingInv, TypeOK, OnlyKnownLeaks, OverrunNeedsLength
    <3>4. PcOK'
      BY <3>1, SameMessage DEF MessagingInv, PcOK, BufferSet
    <3> QED
      BY <3>2, <3>3, <3>4 DEF MessagingInv
  <2>2. ASSUME NEW m \in Messages, NEW t \in Topics, CallPublish(m, t) \/ CallResponse(m, t)
        PROVE  MessagingInv'
    BY <2>2, SendStep
  <2>3. ASSUME NEW m \in Messages, CallNatsPublish(m) PROVE MessagingInv'
    BY <2>3, NatsPublishStep
  <2>4. CASE (\E m \in Messages : CallLog(m)) \/ (\E l \in DeviceLists : CallReport(l))
    BY <2>4, CallBuffersStep
  <2>5. CASE \/ \E c \in FromEdge, m \in Messages, t \in Topics, e \in {<<>>, << 10 >>} :
                  EdgeSends(c, m, t, e)
             \/ EdgeAnswers
    BY <2>5, EdgeStep
  <2>6. CASE \/ AllocPayload \/ AllocFrame \/ Publish
             \/ AllocBuffer \/ WriteLog \/ WriteReport
    BY <2>6, AllocPayloadStep, AllocFrameStep, PublishStep, AllocBufferStep, WriteLogStep,
       WriteReportStep
  <2>7. CASE \/ OnEdgeMessage \/ DecodePayload \/ EndMessage
             \/ OnNatsMessage \/ EndNats \/ OnStateMessage \/ EndState
             \/ Taken \/ Forget
    BY <2>7, OnEdgeMessageStep, DecodePayloadStep, OnNatsMessageStep, HandlerEndStep, EndStep
  <2> QED
    BY <2>1, <2>2, <2>3, <2>4, <2>5, <2>6, <2>7 DEF Next
<1> QED
  BY <1>1, <1>2, PTL DEF Spec

(***************************************************************************)
(* What follows from it.                                                   *)
(***************************************************************************)

\* Every state has the types it should have.
THEOREM MessagingTypes == Spec => []TypeOK
<1>1. MessagingInv => TypeOK
  BY DEF MessagingInv
<1> QED
  BY <1>1, MessagingInvariant, PTL

\* Calls and handlers free what they allocated, on every way through them, but for four
\* known leaks, of whatever length their messages, topics and buffers are.
THEOREM KnownLeaksOnly == Spec => []OnlyKnownLeaks
<1>1. MessagingInv => OnlyKnownLeaks
  BY DEF MessagingInv
<1> QED
  BY <1>1, MessagingInvariant, PTL

\* No short message, whatever its bytes, and no short report make the SDK write past
\* the end of a buffer.
THEOREM ShortIsSafe == Spec => []OverrunNeedsLength
<1>1. MessagingInv => OverrunNeedsLength
  BY DEF MessagingInv
<1> QED
  BY <1>1, MessagingInvariant, PTL

\* The text that edge_publish, edge_rrpc_response or nats_publish hand over for a
\* short message is the message's own, no frame cut off.
LEMMA OutgoingText ==
  ASSUME OpOK, op.call \in Publishers \union {"nats_publish"}
  PROVE  /\ Outgoing.text \in {Encoded(op.data), NotJSON}
         /\ ShortEnough(op) => Outgoing.text = Encoded(op.data)
         /\ Encoded(op.data) # NotJSON
<1>1. /\ op.data \in Seq(Byte) /\ Len(op.data) \in Nat /\ TextLen(op.to) \in Nat
      /\ ShortEnough(op) => Spare(TextLen(op.to), Len(op.data))
  BY OpTypes DEF Publishers
<1>2. /\ Encoded(op.data) \in Seq(Byte) /\ Len(Encoded(op.data)) \in Nat
      /\ Len(Encoded(op.data)) <= 4 * ((Len(op.data) + 2) \div 3) + 1
  BY <1>1, EncodedIs, TextsOnBus
<1>3. Encoded(op.data) # NotJSON
  <2>1. SUFFICES ASSUME NEW s \in Seq(Byte), s = <<-1>> PROVE FALSE
    BY <1>2 DEF NotJSON
  <2>2. Len(s) = 1 /\ s[1] = -1
    BY <2>1
  <2>3. s[1] \in Byte
    BY <2>2
  <2> QED
    BY <2>2, <2>3 DEF Byte
<1>4. CASE op.call = "nats_publish"
  BY <1>3, <1>4 DEF Outgoing
<1>5. CASE op.call # "nats_publish"
  <2>1. Outgoing.text = Framed(op.to, Encoded(op.data))
    BY <1>5 DEF Outgoing
  <2>2. Framed(op.to, Encoded(op.data)) \in {Encoded(op.data), NotJSON}
    BY DEF Framed
  <2>3. ShortEnough(op) => Framed(op.to, Encoded(op.data)) = Encoded(op.data)
    BY <1>1, <1>2, FrameFits
  <2> QED
    BY <1>3, <2>1, <2>2, <2>3
<1> QED
  BY <1>4, <1>5

\* The topic of the response is that of the request, with its segment replaced.
LEMMA ResponseTopicIs ==
  ASSUME NEW t \in Topics, PlainNames(t)
  PROVE  _replace_str(t, "request", <<"response">>) = ResponseTopic(t)
<1> DEFINE S == STRING \union {"response"}
<1>1. t \in Seq(S) /\ "response" \in S
  <2>1. t \in Seq(STRING)
    BY MessagingAssumption
  <2> QED
    BY <2>1, SeqMonotonic
<1> HIDE DEF S
<1>2. _replace_str(t, "request", <<"response">>) =
        [i \in 1 .. Len(t) |-> IF t[i] = "request" THEN "response" ELSE t[i]]
  BY <1>1, ReplaceOne
<1>3. DOMAIN t = 1 .. Len(t)
  BY <1>1
<1>4. \A i \in 1 .. Len(t) : t[i] = "request" <=> i \in Requests(t)
  BY <1>3 DEF PlainNames, Requests
<1> QED
  BY <1>2, <1>3, <1>4 DEF ResponseTopic

\* Whatever its length, a message leaves in Base64 for the topic it was meant for,
\* or, when it is not short, cut off so that nobody reads it; so does a report.
THEOREM MessagesAreSent == Spec => []SentIsTheMessage
<1>1. MessagingInv => SentIsTheMessage
  <2> SUFFICES ASSUME MessagingInv, bus # <<>> PROVE SentIsTheMessage
    BY DEF SentIsTheMessage
  <2>1. \A x, y : x = <<y>> => x[1] = y
    OBVIOUS
  <2>2. CASE op.call \in Publishers \union {"nats_publish"}
    <3>1. bus[1] = Outgoing
      BY <2>1, <2>2 DEF MessagingInv, BusOK
    <3>2. /\ Outgoing.text \in {Encoded(op.data), NotJSON}
          /\ ShortEnough(op) => Outgoing.text = Encoded(op.data)
      BY <2>2, OutgoingText DEF MessagingInv
    <3>3. Encodable(op.data) => Encoded(op.data) = Base64Of(op.data)
      <4>1. op.data \in Seq(Byte)
        BY <2>2, OpTypes DEF MessagingInv, Publishers
      <4> QED
        BY <4>1, EncodedIs
    <3>4. op.call # "nats_publish" => Outgoing.topic = op.to
      BY DEF Outgoing
    <3>5. op.call = "edge_publish" => op.to = op.topic
      BY DEF MessagingInv, OpOK
    <3>6. op.call = "edge_rrpc_response" /\ PlainNames(op.topic) => op.to = ResponseTopic(op.topic)
      BY ResponseTopicIs DEF MessagingInv, OpOK, Publishers
    <3> QED
      BY <2>2, <3>1, <3>2, <3>3, <3>4, <3>5, <3>6 DEF SentIsTheMessage, Publishers
  <2>3. CASE op.call = "report"
    <3>1. bus[1] = Report
      BY <2>1, <2>3 DEF MessagingInv, BusOK
    <3>2. Report.text \in {op.data, NotJSON}
      BY DEF Report
    <3>3. ShortEnough(op) => Report.text = op.data
      <4>1. op.data \in DeviceLists
        BY <2>3 DEF MessagingInv, OpOK
      <4> QED
        BY <2>3, <4>1, ReportFits DEF Report
    <3> QED
      BY <2>3, <3>1, <3>2, <3>3 DEF SentIsTheMessage
  <2>4. CASE op.call \in {"log_write", "local", "broadcast", "state_reply", "none"}
    BY <2>4 DEF SentIsTheMessage
  <2> QED
    BY <2>2, <2>3, <2>4 DEF MessagingInv, OpOK, Calls, Publishers, FromEdge
<1> QED
  BY <1>1, MessagingInvariant, PTL

\* EDGE_OK means that the message has left, and whole if it is short: no call returns
\* it on any other way.
THEOREM OkIsSent == Spec => OkMeansSent
<1>1. MessagingInv /\ [Next]_vars =>
        [pc = "publish" /\ status' = "OK" =>
           bus' # <<>> /\ (ShortEnough(op) => bus'[1].text # NotJSON)]_vars
  <2> SUFFICES ASSUME MessagingInv, Next, pc = "publish", status' = "OK"
               PROVE  bus' # <<>> /\ (ShortEnough(op) => bus'[1].text # NotJSON)
    BY DEF vars
  <2>1. status = "none" /\ op.call \in Publishers \union {"nats_publish"} /\ op # NoOp /\ OpOK
    BY DEF MessagingInv, PcOK, NoOp, Publishers
  <2>2. Publish
    <3>1. status' # status
      BY <2>1
    <3> QED
      BY <2>1, <3>1 DEF Next, CallPublish, CallResponse, EdgeSends, EdgeAnswers,
         CallNatsPublish, CallLog, CallReport, Begins, AllocPayload, AllocFrame, AllocBuffer,
         WriteLog, WriteReport, OnEdgeMessage, DecodePayload, EndMessage, OnNatsMessage, EndNats,
         OnStateMessage, EndState, Taken, Forget, OnBus
  <2>3. bus' = <<Outgoing>>
    BY <2>2 DEF Publish, Return
  <2>4. bus' # <<>> /\ bus'[1] = Outgoing
    <3>1. \A x, y : x = <<y>> => x # <<>> /\ x[1] = y
      OBVIOUS
    <3> QED
      BY <2>3, <3>1
  <2>5. ShortEnough(op) => Outgoing.text # NotJSON
    BY <2>1, OutgoingText
  <2> QED
    BY <2>4, <2>5
<1> QED
  BY <1>1, MessagingInvariant, PTL DEF Spec, OkMeansSent

\* What a callback is given is what was sent, to the byte and with its length: only
\* an empty message and a text with a line end come with a negative one.
THEOREM GotWhatWasSent == Spec => []GotIsSent
<1>1. MessagingInv => GotIsSent
  <2> SUFFICES ASSUME MessagingInv, got # <<>>, op.call = "local" \/ Encodable(op.data)
               PROVE  IF op.data = <<>> \/ op.lineEnd # <<>>
                      THEN got[1].payloadLen < 0
                      ELSE got[1] = [payload |-> op.data, payloadLen |-> Len(op.data)]
    BY DEF GotIsSent
  <2>1. op.call \in {"local", "nats_publish"} /\ OpOK /\ GotOK
    BY DEF MessagingInv, GotOK
  <2>2. PICK m \in Seq(Byte) : m = op.data
    BY <2>1, OpTypes
  <2>3. PICK text : got = <<DecodedOf(text)>> /\ text = Base64Of(m) \o op.lineEnd
    <3>1. CASE op.call = "local"
      BY <2>1, <2>2, <3>1 DEF GotOK, EdgeText
    <3>2. CASE op.call = "nats_publish"
      <4>1. op.lineEnd = <<>> /\ Encodable(m)
        BY <2>1, <2>2, <3>2 DEF OpOK, FromEdge
      <4>2. Encoded(m) = Base64Of(m) /\ Encoded(m) \in Seq(Byte)
        BY <4>1, EncodedIs
      <4>3. Base64Of(m) \o <<>> = Base64Of(m)
        BY <4>2, ConcatEmptySeq
      <4>4. got = <<DecodedOf(Encoded(m))>>
        BY <2>1, <2>2, <3>2 DEF GotOK
      <4> QED
        BY <4>1, <4>2, <4>3, <4>4, Zenon
    <3> QED
      BY <2>1, <3>1, <3>2
  <2>4. got[1] = DecodedOf(text)
    <3>1. \A x, y : x = <<y>> => x[1] = y
      OBVIOUS
    <3> QED
      BY <2>3, <3>1
  <2>5. op.lineEnd = <<>> \/ op.lineEnd = << 10 >>
    BY <2>1 DEF OpOK
  <2>6. CASE op.lineEnd = << 10 >>
    <3>1. base64_decode(text).ret < 0
      BY <2>3, <2>6, DecodeRefuses, Zenon
    <3>2. got[1].payloadLen < 0
      BY <2>4, <3>1 DEF DecodedOf
    <3>3. op.lineEnd # <<>>
      BY <2>6
    <3> QED
      BY <3>2, <3>3
  <2>7. CASE op.lineEnd = <<>>
    <3>1. text = Base64Of(m)
      <4>1. Base64Of(m) \in Seq(AlphabetChar)
        BY Base64Chars
      <4>2. Base64Of(m) \o <<>> = Base64Of(m)
        BY <4>1, ConcatEmptySeq
      <4> QED
        BY <2>3, <2>7, <4>2, Zenon
    <3>2. CASE m = <<>>
      <4>1. text = <<>>
        BY <3>1, <3>2, DecodeRefuses
      <4>2. base64_decode(text).ret < 0
        BY <4>1, DecodeRefuses, Zenon
      <4>3. got[1].payloadLen < 0
        BY <2>4, <4>2 DEF DecodedOf
      <4> QED
        BY <2>2, <3>2, <4>3
    <3>3. CASE m # <<>>
      <4>1. base64_decode(text) = [ret |-> Len(m), out |-> m]
        BY <3>1, <3>3, DecodeIsInverse
      <4>2. got[1] = [payload |-> m, payloadLen |-> Len(m)]
        BY <2>4, <4>1 DEF DecodedOf
      <4> QED
        BY <2>2, <2>7, <3>3, <4>2
    <3> QED
      BY <3>2, <3>3
  <2> QED
    BY <2>5, <2>6, <2>7
<1> QED
  BY <1>1, MessagingInvariant, PTL

\* The log line of a short message is neither cut nor too long for its frame.
LEMMA LogLineIs ==
  ASSUME NEW m \in Seq(Byte), NEW t \in Nat, t = TextLen(<<>>), Spare(t, Len(m)), Plain(m)
  PROVE  Framed(<<>>, Escaped(m)) = _replace_str(m, Quote, <<Backslash, Quote>>)
<1>1. PICK n \in Nat : n = Len(m)
  OBVIOUS
<1>2. LogLen \in Nat /\ BufLen \in Nat /\ FrameLen \in Nat /\ FrameQuotes \in 1 .. FrameLen
  BY MessagingAssumption
<1>3. PICK f \in Nat, c \in Nat, g \in Nat, b \in Nat :
         f = FrameLen /\ c = FrameQuotes /\ g = LogLen /\ b = BufLen
  BY <1>2
<1>4. f + c + g + t + 2 * (n + 2) < b
  BY <1>1, <1>3 DEF Spare
<1>5. m \in Seq(Int)
  BY BytesAreInts
<1>6. CText(m) = m
  <2>1. \A i \in 1 .. Len(m) : m[i] # 0
    BY <1>5 DEF Plain
  <2> QED
    BY <1>5, <2>1, CTextIs
<1>7. Cut(m) = m
  <2>1. Len(m) < BufLen
    BY <1>1, <1>3, <1>4
  <2>2. SubSeq(m, 1, Len(m)) = m
    BY <1>5, SubSeqFull
  <2> QED
    BY <2>1, <2>2 DEF Cut
<1>8. Escaped(m) = _replace_str(m, Quote, <<Backslash, Quote>>)
  BY <1>6, <1>7 DEF Escaped
<1>9. Len(Escaped(m)) \in Nat /\ Len(Escaped(m)) <= n + n
  <2> DEFINE q == [j \in 0 .. n |-> j]
  <2>1. CountsQuotes(q, Len(m), m) /\ \A j \in 0 .. Len(m) : q[j] <= n
    BY <1>1 DEF CountsQuotes
  <2> HIDE DEF q
  <2>2. Quote \in Int /\ Backslash \in Int
    BY DEF Quote, Backslash
  <2>3. Len(Escaped(m)) <= Len(m) + n
    BY <1>5, <2>1, <2>2, EscapedFits
  <2>4. Escaped(m) \in Seq(Int)
    BY <1>5, <2>2, EscapedIn
  <2> QED
    BY <1>1, <2>3, <2>4
<1>10. FrameLen + TextLen(<<>>) + Len(Escaped(m)) < BufLen
  BY <1>3, <1>4, <1>9
<1> QED
  BY <1>8, <1>10 DEF Framed

\* A short log line reads back as it was written, however many quotes it holds and
\* wherever they stand, if it holds no backslash and no control character.
THEOREM LogLinesReadBack == Spec => []LogReadsBack
<1>1. MessagingInv => LogReadsBack
  <2> SUFFICES ASSUME MessagingInv, bus # <<>>, op.call = "log_write", ShortEnough(op),
                      \A i \in DOMAIN op.data : op.data[i] >= 32 /\ op.data[i] # Backslash
               PROVE  Unescape(bus[1].text) = op.data
    BY DEF LogReadsBack
  <2>1. OpOK /\ bus = <<LogMessage>>
    BY DEF MessagingInv, BusOK
  <2>2. PICK m \in Seq(Byte) : m = op.data
    BY <2>1, OpTypes
  <2>3. Plain(m)
    BY <2>2 DEF Plain
  <2>4. op.to = <<>>
    BY <2>1 DEF OpOK, Publishers, FromEdge
  <2>5. TextLen(<<>>) \in Nat /\ Spare(TextLen(<<>>), Len(m))
    BY <2>1, <2>2, <2>4, OpTypes
  <2>6. bus[1] = LogMessage
    <3>1. \A x, y : x = <<y>> => x[1] = y
      OBVIOUS
    <3> QED
      BY <2>1, <3>1
  <2>7. bus[1].text = Framed(<<>>, Escaped(m))
    BY <2>2, <2>6 DEF LogMessage
  <2>8. bus[1].text = _replace_str(m, Quote, <<Backslash, Quote>>)
    BY <2>3, <2>5, <2>7, LogLineIs
  <2>9. m \in Seq(Int)
    BY BytesAreInts
  <2> QED
    BY <2>2, <2>3, <2>8, <2>9, EscapedReadsBack
<1> QED
  BY <1>1, MessagingInvariant, PTL

=============================================================================
