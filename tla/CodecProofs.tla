----------------------------- MODULE CodecProofs -----------------------------
(***************************************************************************)
(* What the conversions of Codec compute, for every text: that the encoder *)
(* writes Base64, that the decoder undoes it, how long what is written is, *)
(* and that an escaped text reads back.                                    *)
(***************************************************************************)
EXTENDS Codec, FoldLemmas, SequenceTheorems

(***************************************************************************)
(* Encoding.                                                               *)
(***************************************************************************)

LEMMA Powers ==
  /\ 2^0 = 1 /\ 2^2 = 4 /\ 2^4 = 16 /\ 2^6 = 64
  /\ 64^0 = 1 /\ 64^1 = 64 /\ 64^2 = 4096 /\ 64^3 = 262144
  OBVIOUS

\* The 24 bits of three bytes.
Bits(a, b, c) == a * 65536 + b * 256 + c

LEMMA BitsNat ==
  ASSUME NEW a \in Byte, NEW b \in Byte, NEW c \in Byte
  PROVE  Bits(a, b, c) \in Nat
  BY SMT DEF Bits, Byte

\* What the shifts make of three bytes are the four numbers of six bits of the 24.
LEMMA Sextets ==
  ASSUME NEW a \in Byte, NEW b \in Byte, NEW c \in Byte,
         NEW n, n = Bits(a, b, c)
  PROVE  /\ (n \div 262144) % 64 = a \div 4
         /\ (n \div 4096) % 64 = cmove_bits(a, 6, 2) + cmove_bits(b, 0, 4)
         /\ (n \div 64) % 64 = cmove_bits(b, 4, 2) + cmove_bits(c, 0, 6)
         /\ n % 64 = c % 64
<1>1. /\ cmove_bits(a, 6, 2) = ((a * 64) % 256) \div 4
      /\ cmove_bits(b, 0, 4) = b \div 16
      /\ cmove_bits(b, 4, 2) = ((b * 16) % 256) \div 4
      /\ cmove_bits(c, 0, 6) = c \div 64
  BY Powers DEF cmove_bits, Byte
<1>2. (n \div 262144) % 64 = a \div 4
  BY DEF Byte, Bits
<1>3. (n \div 4096) % 64 = ((a * 64) % 256) \div 4 + b \div 16
  <2>1. ((a * 64) % 256) \div 4 = 16 * (a % 4)
    BY DEF Byte
  <2>2. n \div 4096 = 16 * a + b \div 16
    BY DEF Byte, Bits
  <2>3. b \div 16 \in 0 .. 15 /\ a \in Nat
    BY DEF Byte
  <2>4. \A d \in 0 .. 15 : (16 * a + d) % 64 = 16 * (a % 4) + d
    BY <2>3
  <2> QED
    BY <2>1, <2>2, <2>3, <2>4
<1>4. (n \div 64) % 64 = ((b * 16) % 256) \div 4 + c \div 64
  BY DEF Byte, Bits
<1>5. n % 64 = c % 64
  BY DEF Byte, Bits
<1> QED
  BY <1>1, <1>2, <1>3, <1>4, <1>5

LEMMA ByteOrZeroIs ==
  ASSUME NEW m \in Seq(Byte), NEW k \in Nat \ {0}
  PROVE  /\ ByteOrZero(m, k) \in Byte
         /\ k <= Len(m) => ByteOrZero(m, k) = m[k]
         /\ ~ k <= Len(m) => ByteOrZero(m, k) = 0
<1>1. CASE k <= Len(m)
  BY <1>1 DEF ByteOrZero
<1>2. CASE ~ k <= Len(m)
  BY <1>2 DEF ByteOrZero, Byte
<1> QED
  BY <1>1, <1>2

LEMMA GroupBitsAre ==
  ASSUME NEW m, NEW g
  PROVE  GroupBits(m, g) = Bits(ByteOrZero(m, 3*g + 1), ByteOrZero(m, 3*g + 2),
                                ByteOrZero(m, 3*g + 3))
  BY SMT DEF GroupBits, Bits

\* The four characters of the group of m after i bytes, if n are its 24 bits: '='
\* stands where m has ended.
GroupIs(m, i, n) ==
  /\ EncodeGroup(m, i)[1] = base64_alphabet((n \div 262144) % 64)
  /\ EncodeGroup(m, i)[2] = base64_alphabet((n \div 4096) % 64)
  /\ i + 2 <= Len(m) => EncodeGroup(m, i)[3] = base64_alphabet((n \div 64) % 64)
  /\ i + 3 <= Len(m) => EncodeGroup(m, i)[4] = base64_alphabet(n % 64)
  /\ ~ i + 2 <= Len(m) => EncodeGroup(m, i)[3] = Pad
  /\ ~ i + 3 <= Len(m) => EncodeGroup(m, i)[4] = Pad

LEMMA GroupIsBase64 ==
  ASSUME NEW m \in Seq(Byte), Encodable(m), NEW g \in Nat, 3 * g < Len(m)
  PROVE  GroupIs(m, 3 * g, GroupBits(m, g)) /\ GroupBits(m, g) \in Nat
<1>1. Len(m) \in Nat
  OBVIOUS
<1>2. PICK i \in Nat : i = 3 * g
  OBVIOUS
<1>3. PICK a : a = ByteOrZero(m, i + 1)
  OBVIOUS
<1>4. PICK b : b = ByteOrZero(m, i + 2)
  OBVIOUS
<1>5. PICK c : c = ByteOrZero(m, i + 3)
  OBVIOUS
<1>6. /\ a \in Byte /\ b \in Byte /\ c \in Byte
      /\ a = m[i + 1]
      /\ i + 2 <= Len(m) => b = m[i + 2]
      /\ ~ i + 2 <= Len(m) => b = 0
      /\ i + 3 <= Len(m) => c = m[i + 3]
      /\ ~ i + 3 <= Len(m) => c = 0
  <2>1. i + 1 \in Nat \ {0} /\ i + 2 \in Nat \ {0} /\ i + 3 \in Nat \ {0} /\ i + 1 <= Len(m)
    BY <1>1, <1>2
  <2> QED
    BY <1>3, <1>4, <1>5, <2>1, ByteOrZeroIs
<1>7. i % 3 = 0 /\ i < Len(m)
  BY <1>2
<1>8. PICK n : n = Bits(a, b, c)
  OBVIOUS
<1>9. GroupBits(m, g) = n
  BY <1>2, <1>3, <1>4, <1>5, <1>8, GroupBitsAre, Zenon
<1>10. n \in Nat
  BY <1>6, <1>8, BitsNat
<1> DEFINE w == (n \div 262144) % 64
           x == (n \div 4096) % 64
           y == (n \div 64) % 64
           z == n % 64
<1>11. Char(a) = a
  <2>1. i + 1 \in 1 .. Len(m) /\ (i + 1) % 3 = 1
    BY <1>1, <1>7
  <2> QED
    BY <1>6, <2>1 DEF Encodable, Char, Byte
<1>12. /\ w = a \div 4
       /\ x = cmove_bits(a, 6, 2) + cmove_bits(b, 0, 4)
       /\ y = cmove_bits(b, 4, 2) + cmove_bits(c, 0, 6)
       /\ z = c % 64
  BY <1>6, <1>8, Sextets
<1>13. /\ cmove_bits(0, 0, 4) = 0 /\ cmove_bits(0, 0, 6) = 0
       /\ cmove_bits(a, 6, 2) \in Int /\ cmove_bits(b, 4, 2) \in Int
  BY <1>6, Powers DEF cmove_bits, Byte
<1> HIDE DEF w, x, y, z
<1>14. ASSUME i + 3 <= Len(m) PROVE GroupIs(m, i, n)
  <2>1. m[i + 2] = b /\ m[i + 3] = c /\ i + 2 <= Len(m)
    BY <1>1, <1>14, <1>6
  <2>2. ~ (i = Len(m) + pad_num(m) - 3 /\ pad_num(m) = 1)
    BY <1>1, <1>14, <1>7 DEF pad_num
  <2>3. ~ (i = Len(m) + pad_num(m) - 3 /\ pad_num(m) = 2)
    BY <1>1, <1>14, <1>7 DEF pad_num
  <2>4. EncodeGroup(m, i) = <<base64_alphabet(w), base64_alphabet(x),
                              base64_alphabet(y), base64_alphabet(z)>>
    BY <1>11, <1>12, <1>6, <2>1, <2>2, <2>3 DEF EncodeGroup
  <2> QED
    BY <1>14, <2>1, <2>4 DEF GroupIs, w, x, y, z
<1>15. ASSUME Len(m) = i + 2 PROVE GroupIs(m, i, n)
  <2>1. m[i + 2] = b /\ c = 0 /\ i + 2 <= Len(m) /\ ~ i + 3 <= Len(m)
    BY <1>1, <1>15, <1>6
  <2>2. pad_num(m) = 1 /\ i = Len(m) + pad_num(m) - 3
    BY <1>1, <1>15, <1>7 DEF pad_num
  <2>3. y = cmove_bits(b, 4, 2)
    BY <1>12, <1>13, <2>1
  <2>4. EncodeGroup(m, i) = <<base64_alphabet(w), base64_alphabet(x),
                              base64_alphabet(y), Pad>>
    BY <1>11, <1>12, <1>6, <2>1, <2>2, <2>3 DEF EncodeGroup
  <2> QED
    BY <2>1, <2>4 DEF GroupIs, w, x, y
<1>16. ASSUME Len(m) = i + 1 PROVE GroupIs(m, i, n)
  <2>1. b = 0 /\ ~ i + 2 <= Len(m) /\ ~ i + 3 <= Len(m)
    BY <1>1, <1>16, <1>6
  <2>2. pad_num(m) = 2 /\ 2 # 1 /\ i = Len(m) + pad_num(m) - 3
    BY <1>1, <1>16, <1>7 DEF pad_num
  <2>3. x = cmove_bits(a, 6, 2)
    BY <1>12, <1>13, <2>1
  <2>4. EncodeGroup(m, i) = <<base64_alphabet(w), base64_alphabet(x), Pad, Pad>>
    BY <1>11, <1>12, <1>6, <2>2, <2>3 DEF EncodeGroup
  <2> QED
    BY <2>1, <2>4 DEF GroupIs, w, x
<1>17. GroupIs(m, i, n)
  BY <1>1, <1>14, <1>15, <1>16, <1>7
<1> QED
  BY <1>2, <1>9, <1>10, <1>17

\* base64_encode writes the Base64 of every sequence of bytes it can take for
\* numbers of six bits: any at all where char is unsigned.
THEOREM EncodeIsBase64 ==
  ASSUME NEW m \in Seq(Byte), Encodable(m)
  PROVE  base64_encode(m) = Base64Of(m)
<1> DEFINE sextet(k) == (GroupBits(m, (k - 1) \div 4) \div 64^(3 - ((k - 1) % 4))) % 64
           group(k) == EncodeGroup(m, 3 * ((k - 1) \div 4))[((k - 1) % 4) + 1]
           digit(k) == IF 6 * (k - 1) < 8 * Len(m) THEN base64_alphabet(sextet(k)) ELSE Pad
           last == 4 * ((Len(m) + 2) \div 3)
<1>1. base64_encode(m) = [k \in 1 .. last |-> group(k)]
  BY Zenon DEF base64_encode
<1>2. Base64Of(m) = [k \in 1 .. last |-> digit(k)]
  BY Zenon DEF Base64Of
<1>3. ASSUME NEW k \in 1 .. last PROVE group(k) = digit(k)
  <2>1. Len(m) \in Nat /\ k \in Nat /\ k >= 1 /\ k <= 4 * ((Len(m) + 2) \div 3)
    OBVIOUS
  <2>2. PICK g \in Nat : g = (k - 1) \div 4
    BY <2>1
  <2>3. PICK r \in 0 .. 3 : r = (k - 1) % 4
    BY <2>1
  <2>4. PICK i \in Nat : i = 3 * g
    OBVIOUS
  <2>5. k - 1 = 4 * g + r /\ i < Len(m) /\ i % 3 = 0
    BY <2>1, <2>2, <2>3, <2>4
  <2>6. PICK n \in Nat : n = GroupBits(m, g)
    BY <2>4, <2>5, GroupIsBase64
  <2>7. GroupIs(m, i, n)
    BY <2>4, <2>5, <2>6, GroupIsBase64
  <2>8. sextet(k) = (n \div 64^(3 - r)) % 64
    BY <2>2, <2>3, <2>6, Zenon
  <2>9. group(k) = EncodeGroup(m, i)[r + 1]
    BY <2>2, <2>3, <2>4, Zenon
  <2> HIDE DEF sextet, group
  <2>10. CASE r = 0
    <3>1. 6 * (k - 1) < 8 * Len(m) /\ 64^(3 - r) = 262144 /\ r + 1 = 1
      BY <2>1, <2>4, <2>5, <2>10, Powers
    <3> QED
      BY <2>7, <2>8, <2>9, <3>1, SMT DEF GroupIs
  <2>11. CASE r = 1
    <3>1. 6 * (k - 1) < 8 * Len(m) /\ 64^(3 - r) = 4096 /\ r + 1 = 2
      BY <2>1, <2>4, <2>5, <2>11, Powers
    <3> QED
      BY <2>7, <2>8, <2>9, <3>1, SMT DEF GroupIs
  <2>12. CASE r = 2
    <3>1. (6 * (k - 1) < 8 * Len(m) <=> i + 2 <= Len(m)) /\ 64^(3 - r) = 64 /\ r + 1 = 3
      BY <2>1, <2>4, <2>5, <2>12, Powers
    <3> QED
      BY <2>7, <2>8, <2>9, <3>1, SMT DEF GroupIs
  <2>13. CASE r = 3
    <3>1. (6 * (k - 1) < 8 * Len(m) <=> i + 3 <= Len(m)) /\ 64^(3 - r) = 1 /\ r + 1 = 4
      BY <2>1, <2>4, <2>5, <2>13, Powers
    <3>2. n \div 1 = n
      OBVIOUS
    <3> QED
      BY <2>7, <2>8, <2>9, <3>1, <3>2, SMT DEF GroupIs
  <2> QED
    BY <2>10, <2>11, <2>12, <2>13
<1> HIDE DEF sextet, group, digit, last
<1> QED
  BY <1>1, <1>2, <1>3

\* What base64_encode writes are bytes, four for each three that it reads or that
\* begin: less than 2 * (Len(m) + 2) - 1.
LEMMA EncodedLength ==
  ASSUME NEW m \in Seq(Byte)
  PROVE  /\ Len(base64_encode(m)) = 4 * ((Len(m) + 2) \div 3)
         /\ Len(Base64Of(m)) = 4 * ((Len(m) + 2) \div 3)
         /\ 4 * ((Len(m) + 2) \div 3) + 2 <= 2 * (Len(m) + 2)
<1>1. PICK l \in Nat : l = 4 * ((Len(m) + 2) \div 3)
  OBVIOUS
<1>2. l + 2 <= 2 * (Len(m) + 2)
  BY <1>1
<1>3. ASSUME NEW f(_) PROVE Len([k \in 1 .. l |-> f(k)]) = l
  OBVIOUS
<1>4. Len(base64_encode(m)) = l
  BY <1>1, <1>3 DEF base64_encode
<1>5. Len(Base64Of(m)) = l
  BY <1>1, <1>3 DEF Base64Of
<1> QED
  BY <1>1, <1>2, <1>4, <1>5

LEMMA AlphabetType ==
  ASSUME NEW v \in -64 .. 63
  PROVE  base64_alphabet(v) \in Byte /\ (v >= 0 => base64_alphabet(v) \in 43 .. 122)
<1>1. CASE v < 0
  <2>1. v \in -64 .. -1 /\ base64_alphabet(v) = BeforeTable[v]
    BY <1>1 DEF base64_alphabet
  <2> QED
    BY <1>1, <2>1, CodecAssumption
<1>2. CASE v >= 0
  BY <1>2 DEF base64_alphabet, Byte
<1> QED
  BY <1>1, <1>2

\* What base64_encode writes for a group are bytes, whatever the group holds.
LEMMA GroupIsBytes ==
  ASSUME NEW m \in Seq(Byte), NEW i \in Nat, i % 3 = 0, i < Len(m)
  PROVE  \A j \in 1 .. 4 : EncodeGroup(m, i)[j] \in Byte
<1>1. Len(m) \in Nat /\ Pad \in Byte
  BY DEF Pad, Byte
<1>2. \A a \in Byte : Char(a) \div 4 \in -64 .. 63
  BY DEF Char, Byte
<1>3. \A a \in Byte, b \in Byte :
        /\ cmove_bits(a, 6, 2) \in -64 .. 63
        /\ cmove_bits(a, 6, 2) + cmove_bits(b, 0, 4) \in -64 .. 63
        /\ cmove_bits(a, 4, 2) \in -64 .. 63
        /\ cmove_bits(a, 4, 2) + cmove_bits(b, 0, 6) \in -64 .. 63
        /\ a % 64 \in -64 .. 63
  BY Powers DEF cmove_bits, Byte
<1>4. PICK a \in Byte : a = m[i + 1]
  <2>1. i + 1 \in 1 .. Len(m)
    BY <1>1
  <2> QED
    BY <2>1
<1>5. ASSUME Len(m) = i + 1 PROVE \A j \in 1 .. 4 : EncodeGroup(m, i)[j] \in Byte
  <2>1. pad_num(m) = 2 /\ 2 # 1 /\ i = Len(m) + pad_num(m) - 3
    BY <1>1, <1>5 DEF pad_num
  <2>2. EncodeGroup(m, i) = <<base64_alphabet(Char(a) \div 4),
                              base64_alphabet(cmove_bits(a, 6, 2)), Pad, Pad>>
    BY <1>4, <2>1 DEF EncodeGroup
  <2>3. base64_alphabet(Char(a) \div 4) \in Byte /\ base64_alphabet(cmove_bits(a, 6, 2)) \in Byte
    BY <1>2, <1>3, AlphabetType
  <2> QED
    BY <1>1, <2>2, <2>3
<1>6. ASSUME Len(m) >= i + 2 PROVE \A j \in 1 .. 4 : EncodeGroup(m, i)[j] \in Byte
  <2>1. PICK b \in Byte : b = m[i + 2]
    <3>1. i + 2 \in 1 .. Len(m)
      BY <1>1, <1>6
    <3> QED
      BY <3>1
  <2>2. /\ base64_alphabet(Char(a) \div 4) \in Byte
        /\ base64_alphabet(cmove_bits(a, 6, 2) + cmove_bits(b, 0, 4)) \in Byte
        /\ base64_alphabet(cmove_bits(b, 4, 2)) \in Byte
    BY <1>2, <1>3, AlphabetType
  <2>3. CASE Len(m) = i + 2
    <3>1. pad_num(m) = 1 /\ i = Len(m) + pad_num(m) - 3
      BY <1>1, <2>3 DEF pad_num
    <3>2. EncodeGroup(m, i) = <<base64_alphabet(Char(a) \div 4),
                                base64_alphabet(cmove_bits(a, 6, 2) + cmove_bits(b, 0, 4)),
                                base64_alphabet(cmove_bits(b, 4, 2)), Pad>>
      BY <1>4, <2>1, <3>1 DEF EncodeGroup
    <3> QED
      BY <1>1, <2>2, <3>2
  <2>4. CASE Len(m) >= i + 3
    <3>1. PICK c \in Byte : c = m[i + 3]
      <4>1. i + 3 \in 1 .. Len(m)
        BY <1>1, <2>4
      <4> QED
        BY <4>1
    <3>2. ~ (i = Len(m) + pad_num(m) - 3 /\ pad_num(m) = 1)
      BY <1>1, <2>4 DEF pad_num
    <3>3. ~ (i = Len(m) + pad_num(m) - 3 /\ pad_num(m) = 2)
      BY <1>1, <2>4 DEF pad_num
    <3>4. EncodeGroup(m, i) = <<base64_alphabet(Char(a) \div 4),
                                base64_alphabet(cmove_bits(a, 6, 2) + cmove_bits(b, 0, 4)),
                                base64_alphabet(cmove_bits(b, 4, 2) + cmove_bits(c, 0, 6)),
                                base64_alphabet(c % 64)>>
      BY <1>4, <2>1, <3>1, <3>2, <3>3 DEF EncodeGroup
    <3>5. /\ base64_alphabet(cmove_bits(b, 4, 2) + cmove_bits(c, 0, 6)) \in Byte
          /\ base64_alphabet(c % 64) \in Byte
      BY <1>3, AlphabetType
    <3> QED
      BY <2>2, <3>4, <3>5
  <2> QED
    BY <1>1, <1>6, <2>3, <2>4
<1> QED
  BY <1>1, <1>5, <1>6

LEMMA EncodedBytes ==
  ASSUME NEW m \in Seq(Byte)
  PROVE  base64_encode(m) \in Seq(Byte)
<1> DEFINE group(k) == EncodeGroup(m, 3 * ((k - 1) \div 4))[((k - 1) % 4) + 1]
<1>1. PICK l \in Nat : l = 4 * ((Len(m) + 2) \div 3)
  OBVIOUS
<1>2. base64_encode(m) = [k \in 1 .. l |-> group(k)]
  BY <1>1, Zenon DEF base64_encode
<1>3. ASSUME NEW k \in 1 .. l PROVE group(k) \in Byte
  <2>1. PICK i \in Nat : i = 3 * ((k - 1) \div 4) /\ i < Len(m) /\ i % 3 = 0
    BY <1>1
  <2>2. ((k - 1) % 4) + 1 \in 1 .. 4
    BY <1>1
  <2> QED
    BY <2>1, <2>2, GroupIsBytes
<1> HIDE DEF group
<1> QED
  BY <1>2, <1>3

\* Among others, the characters of the alphabet and '='.
AlphabetChar == 43 .. 122

LEMMA Base64Chars ==
  ASSUME NEW m \in Seq(Byte)
  PROVE  Base64Of(m) \in Seq(AlphabetChar)
<1> DEFINE sextet(k) == (GroupBits(m, (k - 1) \div 4) \div 64^(3 - ((k - 1) % 4))) % 64
           digit(k) == IF 6 * (k - 1) < 8 * Len(m) THEN base64_alphabet(sextet(k)) ELSE Pad
<1>1. PICK l \in Nat : l = 4 * ((Len(m) + 2) \div 3)
  OBVIOUS
<1>2. Base64Of(m) = [k \in 1 .. l |-> digit(k)]
  BY <1>1, Zenon DEF Base64Of
<1>3. ASSUME NEW k \in 1 .. l PROVE digit(k) \in AlphabetChar
  <2>1. PICK g \in Nat : g = (k - 1) \div 4
    BY <1>1
  <2>2. PICK d : d = 64^(3 - ((k - 1) % 4)) /\ d \in {1, 64, 4096, 262144}
    <3>1. PICK r \in Nat : r = 3 - ((k - 1) % 4)
      BY <1>1
    <3>2. r = 0 \/ r = 1 \/ r = 2 \/ r = 3
      BY <1>1, <3>1
    <3>3. 64^r = 1 \/ 64^r = 64 \/ 64^r = 4096 \/ 64^r = 262144
      <4>1. CASE r = 0
        BY <4>1, Powers, SMT
      <4>2. CASE r = 1
        BY <4>2, Powers, SMT
      <4>3. CASE r = 2
        BY <4>3, Powers, SMT
      <4>4. CASE r = 3
        BY <4>4, Powers, SMT
      <4> QED
        BY <3>2, <4>1, <4>2, <4>3, <4>4, SMT
    <3> QED
      BY <3>1, <3>3, SMT
  <2>3. GroupBits(m, g) \in Nat
    <3>1. 3 * g + 1 \in Nat \ {0} /\ 3 * g + 2 \in Nat \ {0} /\ 3 * g + 3 \in Nat \ {0}
      OBVIOUS
    <3> QED
      BY <3>1, ByteOrZeroIs, GroupBitsAre, BitsNat
  <2>6. d = 64^(3 - ((k - 1) % 4))
    BY <2>2, SMT
  <2>4. PICK v \in 0 .. 63 : v = sextet(k)
    <3>1. PICK n \in Nat : n = GroupBits(m, g)
      BY <2>3
    <3>2. (n \div d) % 64 \in 0 .. 63
      BY <2>2, SMT
    <3> QED
      BY <2>1, <2>6, <3>1, <3>2, Zenon
  <2> HIDE DEF sextet
  <2>5. base64_alphabet(v) \in 43 .. 122
    <3>1. v \in -64 .. 63 /\ v >= 0
      OBVIOUS
    <3> QED
      BY <3>1, AlphabetType
  <2> QED
    BY <2>4, <2>5 DEF Pad, AlphabetChar
<1> HIDE DEF digit
<1> QED
  BY <1>2, <1>3

(***************************************************************************)
(* Replacing.                                                              *)
(***************************************************************************)

\* h[k] is what _replace_str has written after k of the n characters of s.
ReplaceIs(h, n, s, rep, to) ==
  /\ h[0] = <<>>
  /\ \A k \in 1 .. n :
       h[k] = IF s[k] = rep THEN h[k - 1] \o to ELSE Append(h[k - 1], s[k])
  /\ _replace_str(s, rep, to) = h[n]

LEMMA ReplaceSteps ==
  ASSUME NEW S, NEW s \in Seq(S), NEW rep, NEW to \in Seq(S)
  PROVE  \E h \in [0 .. Len(s) -> Seq(S)] : ReplaceIs(h, Len(s), s, rep, to)
<1> DEFINE n == Len(s)
           V == Seq(S)
           step(v, p) == IF p = rep THEN v \o to ELSE Append(v, p)
           g == [x \in (1 .. n) \X V |-> step(x[2], s[x[1]])]
<1>1. n \in Nat /\ DOMAIN s = 1 .. n /\ <<>> \in V
  OBVIOUS
<1>2. \A k \in 1 .. n, v \in V : step(v, s[k]) \in V
  OBVIOUS
<1> HIDE DEF n, V, step
<1>3. g \in [(1 .. n) \X V -> V] /\ \A k \in 1 .. n, v \in V : g[<<k, v>>] = step(v, s[k])
  BY <1>2
<1> HIDE DEF g
<1>4. PICK f \in [SUBSET (1 .. n) -> V], h \in [0 .. n -> V] :
           /\ \A T \in SUBSET (1 .. n) :
                f[T] = IF T = {} THEN <<>> ELSE g[<<Max(T), f[T \ {Max(T)}]>>]
           /\ h[0] = <<>>
           /\ \A k \in 1 .. n : h[k] = g[<<k, h[k - 1]>>]
           /\ f[1 .. n] = h[n]
  <2>1. PICK f \in [SUBSET (1 .. n) -> V], h \in [0 .. n -> V] : IsFold(n, <<>>, g, f, h)
    BY <1>1, <1>3, FoldExists
  <2> QED
    BY <2>1 DEF IsFold
<1> DEFINE Folds(e) == e = [T \in SUBSET (1 .. n) |->
                              IF T = {} THEN <<>> ELSE step(e[T \ {Max(T)}], s[Max(T)])]
<1>5. Folds(f)
  <2>1. ASSUME NEW T \in SUBSET (1 .. n), T # {}
        PROVE  f[T] = step(f[T \ {Max(T)}], s[Max(T)])
    <3>1. Max(T) \in 1 .. n /\ f[T \ {Max(T)}] \in V
      BY <1>1, <2>1, MaxIn
    <3> QED
      BY <1>3, <1>4, <2>1, <3>1
  <2>2. f = [T \in SUBSET (1 .. n) |-> f[T]]
    OBVIOUS
  <2> QED
    BY <1>4, <2>1, <2>2
<1>6. \A e : Folds(e) => e = f
  <2> SUFFICES ASSUME NEW e, Folds(e) PROVE e = f
    OBVIOUS
  <2>1. \A T \in SUBSET (1 .. n) :
          /\ e[T] = IF T = {} THEN <<>> ELSE step(e[T \ {Max(T)}], s[Max(T)])
          /\ f[T] = IF T = {} THEN <<>> ELSE step(f[T \ {Max(T)}], s[Max(T)])
    BY <1>5
  <2>2. {} \in SUBSET (1 .. n)
    OBVIOUS
  <2>3. e = [T \in SUBSET (1 .. n) |-> e[T]] /\ f = [T \in SUBSET (1 .. n) |-> f[T]]
    OBVIOUS
  <2> HIDE DEF Folds
  <2>4. f[{}] = e[{}]
    BY <2>1, <2>2
  <2>5. \A T \in SUBSET (1 .. n) :
          T # {} /\ f[T \ {Max(T)}] = e[T \ {Max(T)}] => f[T] = e[T]
    BY <2>1
  <2>6. SameSteps(n, f, e)
    BY <2>3, <2>4, <2>5, Zenon DEF SameSteps
  <2> QED
    BY <1>1, <2>6, FoldUnique
<1>7. _replace_str(s, rep, to) = (CHOOSE e : Folds(e))[1 .. n]
  BY <1>1 DEF _replace_str, FoldLeft, MapThenFoldSet, step
<1>8. _replace_str(s, rep, to) = h[n]
  <2> HIDE DEF Folds
  <2> QED
    BY <1>4, <1>5, <1>6, <1>7
<1>9. \A k \in 1 .. n : h[k] = step(h[k - 1], s[k])
  <2> TAKE k \in 1 .. n
  <2>1. h[k - 1] \in V
    BY <1>1
  <2> QED
    BY <1>3, <1>4, <2>1
<1> QED
  BY <1>4, <1>8, <1>9 DEF n, V, step, ReplaceIs

\* A piece for a piece: only those equal to rep are changed.
LEMMA ReplaceOne ==
  ASSUME NEW S, NEW s \in Seq(S), NEW rep, NEW new \in S
  PROVE  _replace_str(s, rep, <<new>>) =
           [i \in 1 .. Len(s) |-> IF s[i] = rep THEN new ELSE s[i]]
<1>1. <<new>> \in Seq(S) /\ Len(s) \in Nat
  OBVIOUS
<1>8. PICK n \in Nat : n = Len(s)
  BY <1>1
<1>2. PICK h \in [0 .. n -> Seq(S)] : ReplaceIs(h, n, s, rep, <<new>>)
  BY <1>1, <1>8, ReplaceSteps
<1> DEFINE piece(i) == IF s[i] = rep THEN new ELSE s[i]
           P == {k \in 0 .. n : Len(h[k]) = k /\ \A i \in 1 .. k : h[k][i] = piece(i)}
<1>3. 0 \in P
  BY <1>1, <1>2 DEF ReplaceIs
<1>4. ASSUME NEW k \in 0 .. n, k < n, k \in P PROVE k + 1 \in P
  <2>1. k \in Nat /\ k + 1 \in 1 .. n /\ (k + 1) - 1 = k /\ h[k] \in Seq(S)
    BY <1>1, <1>4, <1>8
  <2>2. h[k + 1] = Append(h[k], piece(k + 1))
    <3>1. h[k] \o <<new>> = Append(h[k], new)
      BY <2>1
    <3> QED
      BY <1>2, <2>1, <3>1 DEF ReplaceIs
  <2> HIDE DEF piece
  <2>3. Len(h[k]) = k /\ \A i \in 1 .. k : h[k][i] = piece(i)
    BY <1>4
  <2>4. Len(h[k + 1]) = k + 1 /\ h[k + 1][k + 1] = piece(k + 1)
    BY <2>1, <2>2, <2>3
  <2>5. \A i \in 1 .. k : h[k + 1][i] = piece(i)
    BY <2>1, <2>2, <2>3
  <2> QED
    BY <2>1, <2>4, <2>5
<1>5. n \in P
  <2> HIDE DEF P
  <2> QED
    BY <1>3, <1>4, UpTo DEF Inductive
<1> DEFINE r == _replace_str(s, rep, <<new>>)
<1>6. r \in Seq(S) /\ Len(r) = n /\ \A i \in 1 .. n : r[i] = piece(i)
  BY <1>1, <1>2, <1>5 DEF ReplaceIs
<1> HIDE DEF piece, r
<1>7. r = [i \in 1 .. n |-> piece(i)]
  BY <1>6
<1> QED
  BY <1>7, <1>8, Zenon DEF piece, r

LEMMA LenConcat ==
  ASSUME NEW S, NEW v \in Seq(S), NEW w \in Seq(S)
  PROVE  v \o w \in Seq(S) /\ Len(v \o w) = Len(v) + Len(w)
  OBVIOUS

\* q[k] counts the quotes in the first k of n characters of s, or more than them.
CountsQuotes(q, n, s) ==
  /\ q \in [0 .. n -> Nat]
  /\ \A k \in 0 .. n - 1 : q[k] <= q[k + 1] /\ (s[k + 1] = Quote => q[k] < q[k + 1])

\* Escaping makes a text one character longer for each quote.
LEMMA EscapedLength ==
  ASSUME NEW S, Quote \in S, Backslash \in S, NEW s \in Seq(S), NEW q, CountsQuotes(q, Len(s), s)
  PROVE  Len(_replace_str(s, Quote, <<Backslash, Quote>>)) <= Len(s) + q[Len(s)]
<1> DEFINE to == <<Backslash, Quote>>
<1>1. to \in Seq(S) /\ Len(to) = 2 /\ Len(s) \in Nat
  OBVIOUS
<1> HIDE DEF to
<1>6. PICK n \in Nat : n = Len(s)
  BY <1>1
<1>7. CountsQuotes(q, n, s)
  BY <1>6
<1>2. PICK h \in [0 .. n -> Seq(S)] : ReplaceIs(h, n, s, Quote, to)
  BY <1>1, <1>6, ReplaceSteps
<1> DEFINE P == {k \in 0 .. n : Len(h[k]) <= k + q[k]}
<1>3. 0 \in P
  BY <1>2, <1>7 DEF ReplaceIs, CountsQuotes
<1>4. ASSUME NEW k \in 0 .. n, k < n, k \in P PROVE k + 1 \in P
  <2>1. k \in Nat /\ k + 1 \in 1 .. n /\ k + 1 \in 0 .. n /\ (k + 1) - 1 = k /\ h[k] \in Seq(S)
    BY <1>1, <1>4, <1>6
  <2>2. q[k] \in Nat /\ q[k + 1] \in Nat /\ q[k] <= q[k + 1] /\ (s[k + 1] = Quote => q[k] < q[k + 1])
    BY <1>7, <2>1 DEF CountsQuotes
  <2>3. CASE s[k + 1] = Quote
    <3>1. h[k + 1] = h[k] \o to
      BY <1>2, <2>1, <2>3 DEF ReplaceIs
    <3>2. Len(h[k + 1]) = Len(h[k]) + 2
      <4>1. \A v \in Seq(S) : Len(v \o to) = Len(v) + 2
        BY <1>1, LenConcat
      <4> QED
        BY <2>1, <3>1, <4>1
    <3> QED
      BY <1>4, <2>1, <2>2, <2>3, <3>2
  <2>4. CASE s[k + 1] # Quote
    <3>1. h[k + 1] = Append(h[k], s[k + 1])
      BY <1>2, <2>1, <2>4 DEF ReplaceIs
    <3>2. Len(h[k + 1]) = Len(h[k]) + 1
      BY <2>1, <3>1
    <3> QED
      BY <1>4, <2>1, <2>2, <3>2
  <2> QED
    BY <2>3, <2>4
<1>5. n \in P
  <2> HIDE DEF P
  <2> QED
    BY <1>3, <1>4, UpTo DEF Inductive
<1> QED
  BY <1>2, <1>5, <1>6 DEF to, ReplaceIs

(***************************************************************************)
(* Decoding.                                                               *)
(***************************************************************************)

\* What the locals of base64_decode hold.
DecodeState == [t : Nat, y : 0 .. 3, g : Int, out : Seq(Byte)]

\* What they can have written by then: three bytes for four characters.
Room(d) == 4 * Len(d.out) + 3 * d.y

LEMMA SuffixMapType ==
  ASSUME NEW c \in Int
  PROVE  base64_suffix_map(c) \in Byte
  BY DEF base64_suffix_map, Byte, Pad, PadMark, Skipped, Refused

\* The bytes of a group of bits t, of which g are written.
GroupBytes(t, g) ==
  <<(t \div 65536) % 256>> \o (IF g > 1 THEN <<(t \div 256) % 256>> ELSE <<>>)
                           \o (IF g > 2 THEN <<t % 256>> ELSE <<>>)

LEMMA Concats ==
  ASSUME NEW S, NEW a \in S, NEW b \in S, NEW c \in S
  PROVE  /\ <<a>> \o <<b>> \o <<c>> = <<a, b, c>>
         /\ <<a>> \o <<b>> \o <<>> = <<a, b>>
         /\ <<a>> \o <<>> \o <<>> = <<a>>
<1>1. \A s \in Seq(S), x \in S : s \o <<x>> = Append(s, x)
  OBVIOUS
<1>2. \A s \in Seq(S) : s \o <<>> = s
  OBVIOUS
<1>3. <<a>> \in Seq(S) /\ <<a, b>> \in Seq(S)
  OBVIOUS
<1>4. Append(<<a>>, b) = <<a, b>>
  <2> DEFINE l == Append(<<a>>, b)
             r == <<a, b>>
  <2>1. l \in Seq(S) /\ r \in Seq(S) /\ Len(l) = 2 /\ Len(r) = 2
    OBVIOUS
  <2>2. l[1] = r[1] /\ l[2] = r[2]
    OBVIOUS
  <2>3. \A i \in 1 .. 2 : i = 1 \/ i = 2
    OBVIOUS
  <2>4. \A i \in 1 .. Len(l) : l[i] = r[i]
    BY <2>1, <2>2, <2>3
  <2>5. Len(l) = Len(r)
    BY <2>1
  <2> HIDE DEF l, r
  <2>6. l = r
    BY <2>1, <2>4, <2>5, SeqEqual
  <2> QED
    BY <2>6 DEF l, r
<1>5. Append(<<a, b>>, c) = <<a, b, c>>
  <2> DEFINE l == Append(<<a, b>>, c)
             r == <<a, b, c>>
  <2>1. l \in Seq(S) /\ r \in Seq(S) /\ Len(l) = 3 /\ Len(r) = 3
    OBVIOUS
  <2>2. l[1] = r[1] /\ l[2] = r[2] /\ l[3] = r[3]
    OBVIOUS
  <2>3. \A i \in 1 .. 3 : i = 1 \/ i = 2 \/ i = 3
    OBVIOUS
  <2>4. \A i \in 1 .. Len(l) : l[i] = r[i]
    BY <2>1, <2>2, <2>3
  <2>5. Len(l) = Len(r)
    BY <2>1
  <2> HIDE DEF l, r
  <2>6. l = r
    BY <2>1, <2>4, <2>5, SeqEqual
  <2> QED
    BY <2>6 DEF l, r
<1> QED
  BY <1>1, <1>2, <1>3, <1>4, <1>5

LEMMA GroupBytesAre ==
  ASSUME NEW t \in Nat, NEW g \in Int,
         NEW a, a = (t \div 65536) % 256, NEW b, b = (t \div 256) % 256, NEW c, c = t % 256
  PROVE  /\ a \in Byte /\ b \in Byte /\ c \in Byte
         /\ g > 2 => GroupBytes(t, g) = <<a, b, c>>
         /\ g = 2 => GroupBytes(t, g) = <<a, b>>
         /\ g < 2 => GroupBytes(t, g) = <<a>>
<1>1. a \in Byte /\ b \in Byte /\ c \in Byte
  BY SMT DEF Byte
<1>2. GroupBytes(t, g) = <<a>> \o (IF g > 1 THEN <<b>> ELSE <<>>) \o (IF g > 2 THEN <<c>> ELSE <<>>)
  BY SMT DEF GroupBytes
<1>3. ASSUME g > 2 PROVE g > 1
  BY <1>3
<1>4. ASSUME g = 2 PROVE g > 1 /\ ~ g > 2
  BY <1>4
<1>5. ASSUME g < 2 PROVE ~ g > 1 /\ ~ g > 2
  BY <1>5
<1>6. <<a>> \o <<b>> \o <<c>> = <<a, b, c>> /\ <<a>> \o <<b>> \o <<>> = <<a, b>>
        /\ <<a>> \o <<>> \o <<>> = <<a>>
  BY <1>1, Concats
<1>7. g > 2 => GroupBytes(t, g) = <<a, b, c>>
  BY <1>2, <1>3, <1>6, SMT
<1>8. g = 2 => GroupBytes(t, g) = <<a, b>>
  BY <1>2, <1>4, <1>6, SMT
<1>9. g < 2 => GroupBytes(t, g) = <<a>>
  BY <1>2, <1>5, <1>6, SMT
<1> QED
  BY <1>1, <1>7, <1>8, <1>9, SMT

LEMMA GroupBytesType ==
  ASSUME NEW t \in Nat, NEW g \in Int
  PROVE  GroupBytes(t, g) \in Seq(Byte) /\ Len(GroupBytes(t, g)) <= 3
<1>1. PICK a, b, c : /\ a \in Byte /\ b \in Byte /\ c \in Byte
                     /\ g > 2 => GroupBytes(t, g) = <<a, b, c>>
                     /\ g = 2 => GroupBytes(t, g) = <<a, b>>
                     /\ g < 2 => GroupBytes(t, g) = <<a>>
  BY GroupBytesAre, SMT
<1>2. g > 2 \/ g = 2 \/ g < 2
  OBVIOUS
<1>3. /\ <<a, b, c>> \in Seq(Byte) /\ Len(<<a, b, c>>) = 3
      /\ <<a, b>> \in Seq(Byte) /\ Len(<<a, b>>) = 2
      /\ <<a>> \in Seq(Byte) /\ Len(<<a>>) = 1
  BY <1>1
<1>4. GroupBytes(t, g) \in {<<a, b, c>>, <<a, b>>, <<a>>}
  BY <1>1, <1>2
<1> DEFINE p == <<a, b, c>>
           q == <<a, b>>
           r == <<a>>
<1>5. p \in Seq(Byte) /\ Len(p) <= 3 /\ q \in Seq(Byte) /\ Len(q) <= 3 /\ r \in Seq(Byte) /\ Len(r) <= 3
  BY <1>3
<1>6. GroupBytes(t, g) = p \/ GroupBytes(t, g) = q \/ GroupBytes(t, g) = r
  BY <1>4
<1> HIDE DEF p, q, r
<1> QED
  BY <1>5, <1>6

\* The locals after a character.
LEMMA DecodeCharIs ==
  ASSUME NEW d, NEW c
  PROVE  LET v == base64_suffix_map(c)
             t == d.t * 64 + (IF v = PadMark THEN 0 ELSE v)
             g == IF v = PadMark THEN d.g - 1 ELSE d.g
         IN DecodeChar(d, c) =
              IF v = Skipped THEN d
              ELSE IF d.y < 3 THEN [d EXCEPT !.t = t, !.y = d.y + 1, !.g = g]
              ELSE [d EXCEPT !.t = 0, !.y = 0, !.g = g, !.out = d.out \o GroupBytes(t, g)]
  BY SMT DEF DecodeChar, GroupBytes

LEMMA DecodeCharType ==
  ASSUME NEW d \in DecodeState, NEW c \in Int
  PROVE  DecodeChar(d, c) \in DecodeState /\ Room(DecodeChar(d, c)) <= Room(d) + 3
<1>1. PICK v \in Nat : v = base64_suffix_map(c)
  BY SuffixMapType DEF Byte
<1>2. PICK t \in Nat : t = d.t * 64 + (IF v = PadMark THEN 0 ELSE v)
  BY DEF DecodeState
<1>3. PICK g \in Int : g = IF v = PadMark THEN d.g - 1 ELSE d.g
  BY DEF DecodeState
<1>4. PICK b \in Seq(Byte) : b = GroupBytes(t, g) /\ Len(b) <= 3
  BY GroupBytesType
<1>5. DecodeChar(d, c) =
        IF v = Skipped THEN d
        ELSE IF d.y < 3 THEN [d EXCEPT !.t = t, !.y = d.y + 1, !.g = g]
        ELSE [d EXCEPT !.t = 0, !.y = 0, !.g = g, !.out = d.out \o b]
  BY <1>1, <1>2, <1>3, <1>4, DecodeCharIs, Zenon
<1>6. d.y \in 0 .. 3 /\ d.out \in Seq(Byte)
  BY DEF DecodeState
<1>7. CASE v = Skipped
  BY <1>5, <1>6, <1>7, SMTT(20) DEF Room
<1>8. CASE v # Skipped /\ d.y < 3
  <2>1. DecodeChar(d, c) = [d EXCEPT !.t = t, !.y = d.y + 1, !.g = g]
    BY <1>5, <1>8
  <2>4. d.y + 1 \in 0 .. 3
    BY <1>6, <1>8
  <2>2. DecodeChar(d, c) \in DecodeState
    BY <2>1, <2>4 DEF DecodeState
  <2>3. DecodeChar(d, c).y = d.y + 1 /\ DecodeChar(d, c).out = d.out
    BY <2>1 DEF DecodeState
  <2> QED
    BY <1>6, <2>2, <2>3 DEF Room
<1>9. CASE v # Skipped /\ ~ d.y < 3
  <2>1. DecodeChar(d, c) = [d EXCEPT !.t = 0, !.y = 0, !.g = g, !.out = d.out \o b]
    BY <1>5, <1>9
  <2>2. d.out \o b \in Seq(Byte) /\ Len(d.out \o b) = Len(d.out) + Len(b)
    BY <1>6, LenConcat
  <2>6. PICK o \in Seq(Byte) : o = d.out \o b
    BY <2>2
  <2>3. DecodeChar(d, c) \in DecodeState
    <3>1. DecodeChar(d, c) = [d EXCEPT !.t = 0, !.y = 0, !.g = g, !.out = o]
      BY <2>1, <2>6
    <3>2. 0 \in Nat /\ 0 \in 0 .. 3
      OBVIOUS
    <3> QED
      BY <3>1, <3>2 DEF DecodeState
  <2>4. DecodeChar(d, c).y = 0 /\ DecodeChar(d, c).out = d.out \o b
    BY <2>1 DEF DecodeState
  <2>5. d.y = 3 /\ Len(d.out) \in Nat /\ Len(b) \in Nat
    BY <1>6, <1>9
  <2> QED
    BY <1>4, <2>2, <2>3, <2>4, <2>5 DEF Room
<1> QED
  BY <1>7, <1>8, <1>9

\* h[k] is what base64_decode's locals are after k of the n characters of text.
DecodeIs(h, n, text) ==
  /\ h[0] = DecodeStart
  /\ \A k \in 1 .. n : h[k] = DecodeChar(h[k - 1], text[k])
  /\ FoldLeft(DecodeChar, DecodeStart, text) = h[n]

LEMMA DecodeSteps ==
  ASSUME NEW s \in Seq(Int)
  PROVE  \E h \in [0 .. Len(s) -> DecodeState] : DecodeIs(h, Len(s), s)
<1> DEFINE n == Len(s)
           V == DecodeState
           base == DecodeStart
           g == [x \in (1 .. n) \X V |-> DecodeChar(x[2], s[x[1]])]
<1>1. n \in Nat /\ DOMAIN s = 1 .. n /\ base \in V
  BY DEF DecodeState, DecodeStart
<1>2. \A k \in 1 .. n, v \in V : DecodeChar(v, s[k]) \in V
  BY DecodeCharType
<1> HIDE DEF n, V, base
<1>3. g \in [(1 .. n) \X V -> V] /\ \A k \in 1 .. n, v \in V : g[<<k, v>>] = DecodeChar(v, s[k])
  BY <1>2
<1> HIDE DEF g
<1>4. PICK f \in [SUBSET (1 .. n) -> V], h \in [0 .. n -> V] :
           /\ \A T \in SUBSET (1 .. n) :
                f[T] = IF T = {} THEN base ELSE g[<<Max(T), f[T \ {Max(T)}]>>]
           /\ h[0] = base
           /\ \A k \in 1 .. n : h[k] = g[<<k, h[k - 1]>>]
           /\ f[1 .. n] = h[n]
  <2>1. PICK f \in [SUBSET (1 .. n) -> V], h \in [0 .. n -> V] : IsFold(n, base, g, f, h)
    BY <1>1, <1>3, FoldExists
  <2> QED
    BY <2>1 DEF IsFold
<1> DEFINE Folds(e) == e = [T \in SUBSET (1 .. n) |->
                              IF T = {} THEN base
                              ELSE DecodeChar(e[T \ {Max(T)}], s[Max(T)])]
<1>5. Folds(f)
  <2>1. ASSUME NEW T \in SUBSET (1 .. n), T # {}
        PROVE  f[T] = DecodeChar(f[T \ {Max(T)}], s[Max(T)])
    <3>1. Max(T) \in 1 .. n /\ f[T \ {Max(T)}] \in V
      BY <1>1, <2>1, MaxIn
    <3> QED
      BY <1>3, <1>4, <2>1, <3>1
  <2>2. f = [T \in SUBSET (1 .. n) |-> f[T]]
    OBVIOUS
  <2> QED
    BY <1>4, <2>1, <2>2
<1>6. \A e : Folds(e) => e = f
  <2> SUFFICES ASSUME NEW e, Folds(e) PROVE e = f
    OBVIOUS
  <2>1. \A T \in SUBSET (1 .. n) :
          /\ e[T] = IF T = {} THEN base ELSE DecodeChar(e[T \ {Max(T)}], s[Max(T)])
          /\ f[T] = IF T = {} THEN base ELSE DecodeChar(f[T \ {Max(T)}], s[Max(T)])
    BY <1>5
  <2>2. {} \in SUBSET (1 .. n)
    OBVIOUS
  <2>3. e = [T \in SUBSET (1 .. n) |-> e[T]] /\ f = [T \in SUBSET (1 .. n) |-> f[T]]
    OBVIOUS
  <2> HIDE DEF Folds
  <2>4. f[{}] = e[{}]
    BY <2>1, <2>2
  <2>5. \A T \in SUBSET (1 .. n) :
          T # {} /\ f[T \ {Max(T)}] = e[T \ {Max(T)}] => f[T] = e[T]
    BY <2>1
  <2>6. SameSteps(n, f, e)
    BY <2>3, <2>4, <2>5, Zenon DEF SameSteps
  <2> QED
    BY <1>1, <2>6, FoldUnique
<1>7. FoldLeft(DecodeChar, DecodeStart, s) = (CHOOSE e : Folds(e))[1 .. n]
  BY <1>1 DEF FoldLeft, MapThenFoldSet, base
<1>8. FoldLeft(DecodeChar, DecodeStart, s) = h[n]
  <2> HIDE DEF Folds
  <2> QED
    BY <1>4, <1>5, <1>6, <1>7
<1>9. \A k \in 1 .. n : h[k] = DecodeChar(h[k - 1], s[k])
  <2> TAKE k \in 1 .. n
  <2>1. h[k - 1] \in V
    BY <1>1
  <2> QED
    BY <1>3, <1>4, <2>1
<1>10. DecodeIs(h, n, s)
  BY <1>4, <1>8, <1>9, Zenon DEF DecodeIs, base
<1> QED
  BY <1>10 DEF n, V

\* base64_decode writes bytes, three for four characters at most.
LEMMA DecodedLength ==
  ASSUME NEW text \in Seq(Int)
  PROVE  /\ base64_decode(text).out \in Seq(Byte)
         /\ 4 * Len(base64_decode(text).out) <= 3 * Len(text)
<1>1. ASSUME NEW s \in Seq(Int)
      PROVE  /\ FoldLeft(DecodeChar, DecodeStart, s) \in DecodeState
             /\ 4 * Len(FoldLeft(DecodeChar, DecodeStart, s).out) <= 3 * Len(s)
  <2>1. PICK n \in Nat : n = Len(s)
    OBVIOUS
  <2>2. PICK h \in [0 .. n -> DecodeState] : DecodeIs(h, n, s)
    BY <2>1, DecodeSteps
  <2> DEFINE P == {k \in 0 .. n : Room(h[k]) <= 3 * k}
  <2>3. 0 \in P
    BY <2>2 DEF DecodeIs, DecodeStart, Room
  <2>4. ASSUME NEW k \in 0 .. n, k < n, k \in P PROVE k + 1 \in P
    <3>1. k + 1 \in 1 .. n /\ k + 1 \in 0 .. n /\ (k + 1) - 1 = k /\ h[k] \in DecodeState /\ s[k + 1] \in Int
      BY <2>1, <2>4
    <3>2. h[k + 1] = DecodeChar(h[k], s[k + 1])
      BY <2>2, <3>1 DEF DecodeIs
    <3>3. Room(h[k + 1]) <= Room(h[k]) + 3
      BY <3>1, <3>2, DecodeCharType
    <3>5. \A d \in DecodeState : Room(d) \in Int
      BY SMTT(20) DEF Room, DecodeState
    <3>4. Room(h[k]) \in Int /\ Room(h[k + 1]) \in Int
      BY <3>1, <3>5
    <3> QED
      BY <2>4, <3>1, <3>3, <3>4
  <2>5. n \in P
    <3> HIDE DEF P
    <3> QED
      BY <2>3, <2>4, UpTo DEF Inductive
  <2>6. FoldLeft(DecodeChar, DecodeStart, s) = h[n] /\ h[n] \in DecodeState
    BY <2>2 DEF DecodeIs
  <2>7. 4 * Len(h[n].out) + 3 * h[n].y <= 3 * n /\ h[n].y \in 0 .. 3 /\ Len(h[n].out) \in Nat
    BY <2>5, <2>6 DEF Room, DecodeState
  <2> QED
    BY <2>1, <2>6, <2>7
<1> DEFINE I == {i \in 1 .. Len(text) : base64_suffix_map(text[i]) = Refused}
           bad == IF I # {} THEN Min(I) ELSE 0
           part == IF bad = 0 THEN text ELSE SubSeq(text, 1, bad - 1)
           out == FoldLeft(DecodeChar, DecodeStart, part).out
<1>2. bad \in 0 .. Len(text) /\ Len(text) \in Nat
  <2>1. CASE I # {}
    <3>1. I \in SUBSET Nat
      OBVIOUS
    <3>2. Min(I) \in I
      BY <2>1, <3>1, MinIn
    <3> QED
      BY <2>1, <3>2
  <2> QED
    BY <2>1
<1> HIDE DEF I, bad
<1>3. part \in Seq(Int) /\ Len(part) <= Len(text)
  <2>1. CASE bad # 0
    <3>1. \A i \in 1 .. bad - 1 : text[i] \in Int
      BY <1>2
    <3>2. part = SubSeq(text, 1, bad - 1) /\ bad - 1 \in Int /\ 1 \in Int
      BY <1>2, <2>1
    <3>3. SubSeq(text, 1, bad - 1) \in Seq(Int)
            /\ Len(SubSeq(text, 1, bad - 1)) = IF 1 <= bad - 1 THEN (bad - 1) - 1 + 1 ELSE 0
      BY <3>1, <3>2, SubSeqProperties
    <3> QED
      BY <1>2, <2>1, <3>2, <3>3
  <2> QED
    BY <1>2, <2>1
<1> HIDE DEF part
<1>4. out \in Seq(Byte) /\ 4 * Len(out) <= 3 * Len(text)
  <2>1. FoldLeft(DecodeChar, DecodeStart, part) \in DecodeState /\ 4 * Len(out) <= 3 * Len(part)
    BY <1>1, <1>3
  <2>2. out \in Seq(Byte) /\ Len(part) \in Nat
    BY <1>3, <2>1 DEF DecodeState
  <2> HIDE DEF out
  <2> QED
    BY <1>2, <1>3, <2>1, <2>2
<1> HIDE DEF out
<1>5. base64_decode(text) =
        IF text = <<>> THEN [ret |-> -1, out |-> <<>>]
        ELSE IF Len(text) % 4 # 0 THEN [ret |-> -2, out |-> <<>>]
        ELSE [ret |-> IF bad = 0 THEN Len(out) ELSE -1, out |-> out]
  BY Zenon DEF base64_decode, SelectInSeq, I, bad, part, out
<1>6. base64_decode(text).out \in {<<>>, out}
  BY <1>5
<1>7. <<>> \in Seq(Byte) /\ 4 * Len(<<>>) <= 3 * Len(text)
  BY <1>2
<1>8. CASE base64_decode(text).out = <<>>
  BY <1>7, <1>8
<1>9. CASE base64_decode(text).out = out
  BY <1>4, <1>9
<1> QED
  BY <1>6, <1>8, <1>9

(***************************************************************************)
(* Decoding Base64.                                                        *)
(***************************************************************************)

LEMMA SuffixOfAlphabet ==
  ASSUME NEW v \in Nat, v < 64
  PROVE  base64_suffix_map(base64_alphabet(v)) = v
<1>1. CASE v < 26
  <2>1. base64_alphabet(v) = 65 + v
    BY <1>1 DEF base64_alphabet
  <2>2. 65 + v \in 65 .. 90 /\ (65 + v) - 65 = v
    BY <1>1
  <2> QED
    BY <2>1, <2>2 DEF base64_suffix_map
<1>2. CASE v >= 26 /\ v < 52
  <2>1. base64_alphabet(v) = 71 + v
    BY <1>2 DEF base64_alphabet
  <2>2. ~ 71 + v \in 65 .. 90 /\ 71 + v \in 97 .. 122 /\ (71 + v) - 71 = v
    BY <1>2
  <2> QED
    BY <2>1, <2>2 DEF base64_suffix_map
<1>3. CASE v >= 52 /\ v < 62
  <2>1. base64_alphabet(v) = v - 4
    BY <1>3 DEF base64_alphabet
  <2>2. /\ ~ v - 4 \in 65 .. 90 /\ ~ v - 4 \in 97 .. 122 /\ v - 4 \in 48 .. 57
        /\ (v - 4) + 4 = v
    BY <1>3
  <2> QED
    BY <2>1, <2>2 DEF base64_suffix_map
<1>4. CASE v = 62
  BY <1>4 DEF base64_alphabet, base64_suffix_map
<1>5. CASE v = 63
  BY <1>5 DEF base64_alphabet, base64_suffix_map
<1> QED
  BY <1>1, <1>2, <1>3, <1>4, <1>5

LEMMA SuffixOfPad == base64_suffix_map(Pad) = PadMark
  BY DEF base64_suffix_map, Pad, PadMark

\* The locals of base64_decode.
Local(t, y, g, out) == [t |-> t, y |-> y, g |-> g, out |-> out]

\* What a character changes of them, without writing and with.
Put(d, t, y, g) == [d EXCEPT !.t = t, !.y = y, !.g = g]
PutOut(d, t, y, g, out) == [d EXCEPT !.t = t, !.y = y, !.g = g, !.out = out]

LEMMA PutLocal ==
  ASSUME NEW t, NEW y, NEW g, NEW o, NEW u, NEW w, NEW x
  PROVE  Put(Local(t, y, g, o), u, w, x) = Local(u, w, x, o)
<1> DEFINE D == {"t", "y", "g", "out"}
<1>1. PICK l : l = Put(Local(t, y, g, o), u, w, x)
  OBVIOUS
<1>2. PICK r : r = Local(u, w, x, o)
  OBVIOUS
<1>3. l.t = u /\ l.y = w /\ l.g = x /\ l.out = o
  BY <1>1 DEF Local, Put, PutOut
<1>4. r.t = u /\ r.y = w /\ r.g = x /\ r.out = o
  BY <1>2 DEF Local
<1>5. l = [f \in D |-> l[f]] /\ r = [f \in D |-> r[f]]
  BY <1>1, <1>2 DEF Local, Put, PutOut
<1>6. \A f \in D : l[f] = r[f]
  BY <1>3, <1>4
<1> HIDE DEF D
<1>7. l = r
  BY <1>5, <1>6
<1> QED
  BY <1>1, <1>2, <1>7

LEMMA PutOutLocal ==
  ASSUME NEW t, NEW y, NEW g, NEW o, NEW u, NEW w, NEW x, NEW p
  PROVE  PutOut(Local(t, y, g, o), u, w, x, p) = Local(u, w, x, p)
<1> DEFINE D == {"t", "y", "g", "out"}
<1>1. PICK l : l = PutOut(Local(t, y, g, o), u, w, x, p)
  OBVIOUS
<1>2. PICK r : r = Local(u, w, x, p)
  OBVIOUS
<1>3. l.t = u /\ l.y = w /\ l.g = x /\ l.out = p
  BY <1>1 DEF Local, Put, PutOut
<1>4. r.t = u /\ r.y = w /\ r.g = x /\ r.out = p
  BY <1>2 DEF Local
<1>5. l = [f \in D |-> l[f]] /\ r = [f \in D |-> r[f]]
  BY <1>1, <1>2 DEF Local, Put, PutOut
<1>6. \A f \in D : l[f] = r[f]
  BY <1>3, <1>4
<1> HIDE DEF D
<1>7. l = r
  BY <1>5, <1>6
<1> QED
  BY <1>1, <1>2, <1>7

\* A character of the alphabet adds six bits, and the fourth of a group writes.
LEMMA DecodeDigit ==
  ASSUME NEW t \in Nat, NEW y \in 0 .. 3, NEW g \in Int, NEW o, NEW c,
         NEW v \in Nat, v < 64, base64_suffix_map(c) = v
  PROVE  DecodeChar(Local(t, y, g, o), c) =
           IF y < 3 THEN Local(t * 64 + v, y + 1, g, o)
           ELSE Local(0, 0, g, o \o GroupBytes(t * 64 + v, g))
<1>1. PICK d : d = Local(t, y, g, o)
  OBVIOUS
<1>2. d.t = t /\ d.y = y /\ d.g = g /\ d.out = o
  BY <1>1 DEF Local
<1>3. v # Skipped /\ v # PadMark
  BY DEF Skipped, PadMark
<1>4. DecodeChar(d, c) =
        IF y < 3 THEN Put(d, t * 64 + v, y + 1, g)
        ELSE PutOut(d, 0, 0, g, o \o GroupBytes(t * 64 + v, g))
  BY <1>2, <1>3, DecodeCharIs, Zenon DEF Put, PutOut
<1>5. Put(d, t * 64 + v, y + 1, g) = Local(t * 64 + v, y + 1, g, o)
  BY <1>1, PutLocal
<1>6. PutOut(d, 0, 0, g, o \o GroupBytes(t * 64 + v, g))
        = Local(0, 0, g, o \o GroupBytes(t * 64 + v, g))
  BY <1>1, PutOutLocal
<1> QED
  BY <1>1, <1>4, <1>5, <1>6, Zenon

\* A '=' does so too, but shortens what the group writes.
LEMMA DecodePad ==
  ASSUME NEW t \in Nat, NEW y \in 0 .. 3, NEW g \in Int, NEW o
  PROVE  DecodeChar(Local(t, y, g, o), Pad) =
           IF y < 3 THEN Local(t * 64 + 0, y + 1, g - 1, o)
           ELSE Local(0, 0, g - 1, o \o GroupBytes(t * 64 + 0, g - 1))
<1>1. PICK d : d = Local(t, y, g, o)
  OBVIOUS
<1>2. d.t = t /\ d.y = y /\ d.g = g /\ d.out = o
  BY <1>1 DEF Local
<1>3. PadMark # Skipped
  BY DEF Skipped, PadMark
<1>4. DecodeChar(d, Pad) =
        IF y < 3 THEN Put(d, t * 64 + 0, y + 1, g - 1)
        ELSE PutOut(d, 0, 0, g - 1, o \o GroupBytes(t * 64 + 0, g - 1))
  BY <1>2, <1>3, SuffixOfPad, DecodeCharIs, Zenon DEF Put, PutOut
<1>5. Put(d, t * 64 + 0, y + 1, g - 1) = Local(t * 64 + 0, y + 1, g - 1, o)
  BY <1>1, PutLocal
<1>6. PutOut(d, 0, 0, g - 1, o \o GroupBytes(t * 64 + 0, g - 1))
        = Local(0, 0, g - 1, o \o GroupBytes(t * 64 + 0, g - 1))
  BY <1>1, PutOutLocal
<1> QED
  BY <1>1, <1>4, <1>5, <1>6, Zenon

\* The numbers w, x, y, z of six bits are the bits n, of which the decoder writes
\* the bytes a, b, c.
IsGroup(a, b, c, n, w, x, y, z) ==
  /\ w \in Nat /\ w < 64 /\ x \in Nat /\ x < 64
  /\ y \in Nat /\ y < 64 /\ z \in Nat /\ z < 64
  /\ ((w * 64 + x) * 64 + y) * 64 + z = n
  /\ GroupBytes(n, 3) = <<a, b, c>>
  /\ c = 0 => z = 0 /\ GroupBytes(n, 2) = <<a, b>>
  /\ b = 0 /\ c = 0 => y = 0 /\ z = 0 /\ GroupBytes(n, 1) = <<a>>

\* The four numbers of six bits of 24 bits n.
Sextet1(n) == (n \div 262144) % 64
Sextet2(n) == (n \div 4096) % 64
Sextet3(n) == (n \div 64) % 64
Sextet4(n) == n % 64

\* Three bytes from their four numbers of six bits.
LEMMA GroupBack ==
  ASSUME NEW a \in Byte, NEW b \in Byte, NEW c \in Byte, NEW n \in Nat, n = Bits(a, b, c)
  PROVE  IsGroup(a, b, c, n, Sextet1(n), Sextet2(n), Sextet3(n), Sextet4(n))
<1>8. PICK w \in Nat : w = (n \div 262144) % 64
  BY SMT
<1>9. PICK x \in Nat : x = (n \div 4096) % 64
  BY SMT
<1>10. PICK y \in Nat : y = (n \div 64) % 64
  BY SMT
<1>11. PICK z \in Nat : z = n % 64
  BY SMT
<1>1. a \in Nat /\ a < 256 /\ b \in Nat /\ b < 256 /\ c \in Nat /\ c < 256
  BY SMT DEF Byte
<1>2. n = a * 65536 + b * 256 + c
  BY SMT DEF Bits
<1>3. (n \div 65536) % 256 = a /\ (n \div 256) % 256 = b /\ n % 256 = c
  BY <1>1, <1>2, SMT
<1>4. /\ w \in Nat /\ w < 64 /\ x \in Nat /\ x < 64
      /\ y \in Nat /\ y < 64 /\ z \in Nat /\ z < 64
  BY <1>8, <1>9, <1>10, <1>11, SMT
<1>5. ((w * 64 + x) * 64 + y) * 64 + z = n
  <2>1. PICK p \in Nat : p = n \div 64
    BY SMT
  <2>2. PICK q \in Nat : q = p \div 64
    BY SMT
  <2>3. PICK r \in Nat : r = q \div 64
    BY SMT
  <2>4. q = n \div 4096 /\ r = n \div 262144
    BY <2>1, <2>2, <2>3, SMT
  <2>5. r < 64
    BY <1>1, <1>2, <2>4, SMT
  <2>6. w = r
    BY <1>8, <2>3, <2>4, <2>5, SMT
  <2>7. q = r * 64 + x /\ p = q * 64 + y /\ n = p * 64 + z
    BY <1>9, <1>10, <1>11, <2>1, <2>2, <2>3, <2>4, SMT
  <2> QED
    BY <2>6, <2>7, SMT
<1>6. (c = 0 => z = 0) /\ (b = 0 /\ c = 0 => y = 0 /\ z = 0)
  BY <1>1, <1>2, <1>10, <1>11, SMT
<1>7. /\ GroupBytes(n, 3) = <<a, b, c>>
      /\ GroupBytes(n, 2) = <<a, b>>
      /\ GroupBytes(n, 1) = <<a>>
  <2>1. 3 > 2 /\ 2 = 2 /\ 1 < 2 /\ 3 \in Int /\ 2 \in Int /\ 1 \in Int
    BY SMT
  <2> QED
    BY <1>3, <2>1, GroupBytesAre, SMT
<1>12. IsGroup(a, b, c, n, w, x, y, z)
  BY <1>4, <1>5, <1>6, <1>7, SMT DEF IsGroup
<1>13. w = Sextet1(n) /\ x = Sextet2(n) /\ y = Sextet3(n) /\ z = Sextet4(n)
  BY <1>8, <1>9, <1>10, <1>11, SMT DEF Sextet1, Sextet2, Sextet3, Sextet4
<1> QED
  BY <1>12, <1>13, Zenon

\* The four characters of group g of the Base64 of m.
LEMMA Base64Group ==
  ASSUME NEW m \in Seq(Byte), NEW g \in Nat, NEW i \in Nat, i = 3 * g, i < Len(m),
         NEW n \in Nat, n = GroupBits(m, g)
  PROVE  /\ Base64Of(m)[4 * g + 1] = base64_alphabet(Sextet1(n))
         /\ Base64Of(m)[4 * g + 2] = base64_alphabet(Sextet2(n))
         /\ Base64Of(m)[4 * g + 3] =
              IF i + 2 <= Len(m) THEN base64_alphabet(Sextet3(n)) ELSE Pad
         /\ Base64Of(m)[4 * g + 4] =
              IF i + 3 <= Len(m) THEN base64_alphabet(Sextet4(n)) ELSE Pad
<1> DEFINE sextet(k) == (GroupBits(m, (k - 1) \div 4) \div 64^(3 - ((k - 1) % 4))) % 64
           digit(k) == IF 6 * (k - 1) < 8 * Len(m) THEN base64_alphabet(sextet(k)) ELSE Pad
<1>1. PICK e \in Nat : e = Len(m)
  OBVIOUS
<1>2. PICK l \in Nat : l = 4 * ((e + 2) \div 3)
  BY <1>1
<1>3. Base64Of(m) = [k \in 1 .. l |-> digit(k)]
  BY <1>1, <1>2, Zenon DEF Base64Of
<1>4. /\ 4 * g + 1 \in 1 .. l /\ 4 * g + 2 \in 1 .. l
      /\ 4 * g + 3 \in 1 .. l /\ 4 * g + 4 \in 1 .. l
  BY <1>1, <1>2
<1>5. ASSUME NEW r \in 0 .. 3, NEW k \in 1 .. l, k = 4 * g + r + 1
      PROVE  sextet(k) = (n \div 64^(3 - r)) % 64
  <2>1. (k - 1) \div 4 = g /\ (k - 1) % 4 = r
    BY <1>5
  <2> QED
    BY <2>1, Zenon
<1>6. /\ 6 * ((4 * g + 1) - 1) < 8 * e
      /\ 6 * ((4 * g + 2) - 1) < 8 * e
      /\ 6 * ((4 * g + 3) - 1) < 8 * e <=> i + 2 <= e
      /\ 6 * ((4 * g + 4) - 1) < 8 * e <=> i + 3 <= e
  BY <1>1
<1>7. /\ Base64Of(m)[4 * g + 1] = digit(4 * g + 1)
      /\ Base64Of(m)[4 * g + 2] = digit(4 * g + 2)
      /\ Base64Of(m)[4 * g + 3] = digit(4 * g + 3)
      /\ Base64Of(m)[4 * g + 4] = digit(4 * g + 4)
  <2> HIDE DEF digit
  <2> QED
    BY <1>3, <1>4
<1> HIDE DEF sextet
<1>8. sextet(4 * g + 1) = (n \div 262144) % 64
  <2>1. sextet(4 * g + 1) = (n \div 64^(3 - 0)) % 64
    BY <1>4, <1>5
  <2>2. 3 - 0 = 3
    OBVIOUS
  <2> QED
    BY <2>1, <2>2, Powers, SMT
<1>9. sextet(4 * g + 2) = (n \div 4096) % 64
  <2>1. sextet(4 * g + 2) = (n \div 64^(3 - 1)) % 64
    BY <1>4, <1>5
  <2>2. 3 - 1 = 2
    OBVIOUS
  <2> QED
    BY <2>1, <2>2, Powers, SMT
<1>10. sextet(4 * g + 3) = (n \div 64) % 64
  <2>1. sextet(4 * g + 3) = (n \div 64^(3 - 2)) % 64
    BY <1>4, <1>5
  <2>2. 3 - 2 = 1
    OBVIOUS
  <2> QED
    BY <2>1, <2>2, Powers, SMT
<1>11. sextet(4 * g + 4) = n % 64
  <2>1. sextet(4 * g + 4) = (n \div 64^(3 - 3)) % 64
    BY <1>4, <1>5
  <2>2. 3 - 3 = 0 /\ n \div 1 = n
    OBVIOUS
  <2> QED
    BY <2>1, <2>2, Powers, SMT
<1> QED
  BY <1>1, <1>6, <1>7, <1>8, <1>9, <1>10, <1>11, SMT
     DEF Sextet1, Sextet2, Sextet3, Sextet4

\* f is what m holds behind its first i, k values.
Continues(m, i, k, f) ==
  /\ m \in Seq(Byte) /\ i \in Nat /\ k \in Nat /\ f \in Seq(Byte)
  /\ i + k <= Len(m) /\ Len(f) = k
  /\ \A j \in 1 .. k : f[j] = m[i + j]

\* What the first i of a sequence and the next k of it make.
LEMMA PrefixGrows ==
  ASSUME NEW m, NEW i, NEW k, NEW p, Continues(m, i, k, p)
  PROVE  SubSeq(m, 1, i) \o p = SubSeq(m, 1, i + k)
<1> DEFINE S == Byte
<1>0. /\ m \in Seq(S) /\ i \in Nat /\ k \in Nat /\ p \in Seq(S)
      /\ i + k <= Len(m) /\ Len(p) = k
      /\ \A j \in 1 .. k : p[j] = m[i + j]
  BY DEF Continues
<1> HIDE DEF S
<1> USE <1>0
<1>1. PICK q \in Seq(S) : q = SubSeq(m, 1, i) /\ Len(q) = i /\ \A j \in 1 .. i : q[j] = m[j]
  <2>1. \A j \in 1 .. i : m[j] \in S
    OBVIOUS
  <2>2. /\ SubSeq(m, 1, i) \in Seq(S) /\ Len(SubSeq(m, 1, i)) = i
        /\ \A j \in 1 .. i : SubSeq(m, 1, i)[j] = m[j]
    BY <2>1
  <2> QED
    BY <2>2
<1>2. PICK r \in Seq(S) : /\ r = SubSeq(m, 1, i + k) /\ Len(r) = i + k
                         /\ \A j \in 1 .. i + k : r[j] = m[j]
  <2>1. i + k \in Nat /\ \A j \in 1 .. i + k : m[j] \in S
    OBVIOUS
  <2>2. /\ SubSeq(m, 1, i + k) \in Seq(S) /\ Len(SubSeq(m, 1, i + k)) = i + k
        /\ \A j \in 1 .. i + k : SubSeq(m, 1, i + k)[j] = m[j]
    BY <2>1
  <2> QED
    BY <2>2
<1>3. PICK l \in Seq(S) : /\ l = q \o p /\ Len(l) = i + k
                         /\ \A j \in 1 .. i + k : l[j] = IF j <= i THEN q[j] ELSE p[j - i]
  <2>1. /\ q \o p \in Seq(S) /\ Len(q \o p) = Len(q) + Len(p)
        /\ \A j \in 1 .. Len(q) + Len(p) :
             (q \o p)[j] = IF j <= Len(q) THEN q[j] ELSE p[j - Len(q)]
    BY ConcatProperties
  <2>2. PICK l : l = q \o p
    OBVIOUS
  <2>3. /\ l \in Seq(S) /\ Len(l) = i + k
        /\ \A j \in 1 .. i + k : l[j] = IF j <= i THEN q[j] ELSE p[j - i]
    BY <1>1, <2>1, <2>2
  <2> QED
    BY <2>2, <2>3
<1>4. \A j \in 1 .. Len(l) : l[j] = r[j]
  <2> TAKE j \in 1 .. Len(l)
  <2>1. CASE j <= i
    BY <1>1, <1>2, <1>3, <2>1
  <2>2. CASE ~ j <= i
    <3>1. PICK f \in 1 .. k : f = j - i
      BY <1>3, <2>2
    <3>2. m[i + f] = m[j] /\ p[f] = m[i + f]
      BY <3>1
    <3> QED
      BY <1>2, <1>3, <2>2, <3>1, <3>2
  <2> QED
    BY <2>1, <2>2
<1>5. l = r
  BY <1>2, <1>3, <1>4, SeqEqual
<1> QED
  BY <1>1, <1>2, <1>3, <1>5

\* The locals after four characters.
Four(d, p, q, r, s) == DecodeChar(DecodeChar(DecodeChar(DecodeChar(d, p), q), r), s)

LEMMA FourCharacters ==
  ASSUME NEW o, NEW p, NEW q, NEW r, NEW s,
         NEW w \in Nat, w < 64, base64_suffix_map(p) = w,
         NEW x \in Nat, x < 64, base64_suffix_map(q) = x,
         NEW y \in Nat, y < 64, NEW z \in Nat, z < 64
  PROVE  /\ base64_suffix_map(r) = y /\ base64_suffix_map(s) = z =>
              Four(Local(0, 0, 3, o), p, q, r, s) =
                Local(0, 0, 3, o \o GroupBytes(((w * 64 + x) * 64 + y) * 64 + z, 3))
         /\ base64_suffix_map(r) = y /\ s = Pad =>
              Four(Local(0, 0, 3, o), p, q, r, s) =
                Local(0, 0, 2, o \o GroupBytes(((w * 64 + x) * 64 + y) * 64 + 0, 2))
         /\ r = Pad /\ s = Pad =>
              Four(Local(0, 0, 3, o), p, q, r, s) =
                Local(0, 0, 1, o \o GroupBytes(((w * 64 + x) * 64 + 0) * 64 + 0, 1))
<1>1. PICK t \in Nat : t = w * 64 + x
  OBVIOUS
<1>2. DecodeChar(Local(0, 0, 3, o), p) = Local(w, 1, 3, o)
  <2>1. DecodeChar(Local(0, 0, 3, o), p) =
          IF 0 < 3 THEN Local(0 * 64 + w, 0 + 1, 3, o)
          ELSE Local(0, 0, 3, o \o GroupBytes(0 * 64 + w, 3))
    <3>1. 0 \in Nat /\ 0 \in 0 .. 3 /\ 3 \in Int
      OBVIOUS
    <3> QED
      BY <3>1, DecodeDigit
  <2> QED
    BY <2>1
<1>3. DecodeChar(Local(w, 1, 3, o), q) = Local(t, 2, 3, o)
  <2>1. DecodeChar(Local(w, 1, 3, o), q) =
          IF 1 < 3 THEN Local(w * 64 + x, 1 + 1, 3, o)
          ELSE Local(0, 0, 3, o \o GroupBytes(w * 64 + x, 3))
    <3>1. 1 \in 0 .. 3 /\ 3 \in Int
      OBVIOUS
    <3> QED
      BY <3>1, DecodeDigit
  <2>2. 1 < 3 /\ 1 + 1 = 2
    OBVIOUS
  <2> QED
    BY <1>1, <2>1, <2>2
<1>4. Four(Local(0, 0, 3, o), p, q, r, s) = DecodeChar(DecodeChar(Local(t, 2, 3, o), r), s)
  BY <1>2, <1>3 DEF Four
<1>5. ASSUME base64_suffix_map(r) = y
      PROVE  DecodeChar(Local(t, 2, 3, o), r) = Local(t * 64 + y, 3, 3, o)
  <2>1. DecodeChar(Local(t, 2, 3, o), r) =
          IF 2 < 3 THEN Local(t * 64 + y, 2 + 1, 3, o)
          ELSE Local(0, 0, 3, o \o GroupBytes(t * 64 + y, 3))
    <3>1. 2 \in 0 .. 3 /\ 3 \in Int
      OBVIOUS
    <3> QED
      BY <1>5, <3>1, DecodeDigit
  <2> QED
    BY <2>1
<1>6. ASSUME base64_suffix_map(r) = y, base64_suffix_map(s) = z
      PROVE  DecodeChar(Local(t * 64 + y, 3, 3, o), s) =
               Local(0, 0, 3, o \o GroupBytes((t * 64 + y) * 64 + z, 3))
  <2>1. PICK u \in Nat : u = t * 64 + y
    OBVIOUS
  <2>2. DecodeChar(Local(u, 3, 3, o), s) =
          IF 3 < 3 THEN Local(u * 64 + z, 3 + 1, 3, o)
          ELSE Local(0, 0, 3, o \o GroupBytes(u * 64 + z, 3))
    <3>1. 3 \in 0 .. 3 /\ 3 \in Int
      OBVIOUS
    <3> QED
      BY <1>6, <3>1, DecodeDigit
  <2>3. ~ 3 < 3
    OBVIOUS
  <2> QED
    BY <2>1, <2>2, <2>3
<1>7. DecodeChar(Local(t * 64 + y, 3, 3, o), Pad) =
        Local(0, 0, 2, o \o GroupBytes((t * 64 + y) * 64 + 0, 2))
  <2>1. PICK u \in Nat : u = t * 64 + y
    OBVIOUS
  <2>2. DecodeChar(Local(u, 3, 3, o), Pad) =
          IF 3 < 3 THEN Local(u * 64 + 0, 3 + 1, 3 - 1, o)
          ELSE Local(0, 0, 3 - 1, o \o GroupBytes(u * 64 + 0, 3 - 1))
    <3>1. 3 \in 0 .. 3 /\ 3 \in Int
      OBVIOUS
    <3> QED
      BY <3>1, DecodePad
  <2>3. ~ 3 < 3 /\ 3 - 1 = 2
    OBVIOUS
  <2> QED
    BY <2>1, <2>2, <2>3
<1>8. DecodeChar(Local(t, 2, 3, o), Pad) = Local(t * 64 + 0, 3, 2, o)
  <2>1. DecodeChar(Local(t, 2, 3, o), Pad) =
          IF 2 < 3 THEN Local(t * 64 + 0, 2 + 1, 3 - 1, o)
          ELSE Local(0, 0, 3 - 1, o \o GroupBytes(t * 64 + 0, 3 - 1))
    <3>1. 2 \in 0 .. 3 /\ 3 \in Int
      OBVIOUS
    <3> QED
      BY <3>1, DecodePad
  <2>2. 2 < 3 /\ 2 + 1 = 3 /\ 3 - 1 = 2
    OBVIOUS
  <2> QED
    BY <2>1, <2>2
<1>9. DecodeChar(Local(t * 64 + 0, 3, 2, o), Pad) =
        Local(0, 0, 1, o \o GroupBytes((t * 64 + 0) * 64 + 0, 1))
  <2>1. PICK u \in Nat : u = t * 64 + 0
    OBVIOUS
  <2>2. DecodeChar(Local(u, 3, 2, o), Pad) =
          IF 3 < 3 THEN Local(u * 64 + 0, 3 + 1, 2 - 1, o)
          ELSE Local(0, 0, 2 - 1, o \o GroupBytes(u * 64 + 0, 2 - 1))
    <3>1. 3 \in 0 .. 3 /\ 2 \in Int
      OBVIOUS
    <3> QED
      BY <3>1, DecodePad
  <2>3. ~ 3 < 3 /\ 2 - 1 = 1
    OBVIOUS
  <2> QED
    BY <2>1, <2>2, <2>3
<1> QED
  BY <1>1, <1>4, <1>5, <1>6, <1>7, <1>8, <1>9

LEMMA NotRefused ==
  ASSUME NEW c, c = Pad \/ \E v \in Nat : v < 64 /\ base64_suffix_map(c) = v
  PROVE  base64_suffix_map(c) # Refused
  BY SuffixOfPad DEF PadMark, Refused

\* What the decoder has written after the first i bytes of m, and what the four
\* characters of the next group add.
LEMMA DecodeGroup ==
  ASSUME NEW m \in Seq(Byte), NEW g \in Nat, NEW i \in Nat, i = 3 * g, i < Len(m),
         NEW p, p = Base64Of(m)[4 * g + 1], NEW q, q = Base64Of(m)[4 * g + 2],
         NEW r, r = Base64Of(m)[4 * g + 3], NEW s, s = Base64Of(m)[4 * g + 4]
  PROVE  /\ i + 3 <= Len(m) =>
              Four(Local(0, 0, 3, SubSeq(m, 1, i)), p, q, r, s) =
                Local(0, 0, 3, SubSeq(m, 1, i + 3))
         /\ ~ i + 3 <= Len(m) =>
              Four(Local(0, 0, 3, SubSeq(m, 1, i)), p, q, r, s).out = m
         /\ base64_suffix_map(p) # Refused /\ base64_suffix_map(q) # Refused
         /\ base64_suffix_map(r) # Refused /\ base64_suffix_map(s) # Refused
<1> DEFINE o == SubSeq(m, 1, i)
<1>1. PICK e \in Nat : e = Len(m) /\ i < e
  OBVIOUS
<1>2. PICK a : a = ByteOrZero(m, i + 1)
  OBVIOUS
<1>3. PICK b : b = ByteOrZero(m, i + 2)
  OBVIOUS
<1>4. PICK c : c = ByteOrZero(m, i + 3)
  OBVIOUS
<1>5. /\ a \in Byte /\ b \in Byte /\ c \in Byte
      /\ a = m[i + 1]
      /\ i + 2 <= e => b = m[i + 2]
      /\ ~ i + 2 <= e => b = 0
      /\ i + 3 <= e => c = m[i + 3]
      /\ ~ i + 3 <= e => c = 0
  <2>1. i + 1 \in Nat \ {0} /\ i + 2 \in Nat \ {0} /\ i + 3 \in Nat \ {0} /\ i + 1 <= Len(m)
    BY <1>1
  <2> QED
    BY <1>1, <1>2, <1>3, <1>4, <2>1, ByteOrZeroIs
<1>6. PICK n \in Nat : n = Bits(a, b, c)
  BY <1>5, BitsNat
<1>7. GroupBits(m, g) = n
  BY <1>2, <1>3, <1>4, <1>6, GroupBitsAre, Zenon
<1>8. PICK w, x, y, z :
        /\ IsGroup(a, b, c, n, w, x, y, z)
        /\ p = base64_alphabet(w) /\ q = base64_alphabet(x)
        /\ r = IF i + 2 <= e THEN base64_alphabet(y) ELSE Pad
        /\ s = IF i + 3 <= e THEN base64_alphabet(z) ELSE Pad
  <2>1. PICK w, x, y, z :
          w = Sextet1(n) /\ x = Sextet2(n) /\ y = Sextet3(n) /\ z = Sextet4(n)
    OBVIOUS
  <2>2. /\ p = base64_alphabet(w) /\ q = base64_alphabet(x)
        /\ r = IF i + 2 <= e THEN base64_alphabet(y) ELSE Pad
        /\ s = IF i + 3 <= e THEN base64_alphabet(z) ELSE Pad
    <3>1. /\ p = base64_alphabet(Sextet1(n)) /\ q = base64_alphabet(Sextet2(n))
          /\ r = IF i + 2 <= Len(m) THEN base64_alphabet(Sextet3(n)) ELSE Pad
          /\ s = IF i + 3 <= Len(m) THEN base64_alphabet(Sextet4(n)) ELSE Pad
      BY <1>7, Base64Group
    <3> QED
      BY <1>1, <2>1, <3>1, Zenon
  <2>3. IsGroup(a, b, c, n, w, x, y, z)
    <3>1. a \in Byte /\ b \in Byte /\ c \in Byte
      BY <1>5
    <3> QED
      BY <1>6, <2>1, <3>1, GroupBack, Zenon
  <2> QED
    BY <2>2, <2>3, Zenon
<1>16. /\ w \in Nat /\ w < 64 /\ x \in Nat /\ x < 64
       /\ y \in Nat /\ y < 64 /\ z \in Nat /\ z < 64
       /\ ((w * 64 + x) * 64 + y) * 64 + z = n
       /\ GroupBytes(n, 3) = <<a, b, c>>
       /\ c = 0 => z = 0 /\ GroupBytes(n, 2) = <<a, b>>
       /\ b = 0 /\ c = 0 => y = 0 /\ z = 0 /\ GroupBytes(n, 1) = <<a>>
  BY <1>8, Zenon DEF IsGroup
<1>9. base64_suffix_map(p) = w /\ base64_suffix_map(q) = x
  BY <1>8, <1>16, SuffixOfAlphabet
<1>10. /\ i + 2 <= e => base64_suffix_map(r) = y
       /\ ~ i + 2 <= e => r = Pad
       /\ i + 3 <= e => base64_suffix_map(s) = z
       /\ ~ i + 3 <= e => s = Pad
  BY <1>8, <1>16, SuffixOfAlphabet
<1>11. /\ base64_suffix_map(p) # Refused /\ base64_suffix_map(q) # Refused
       /\ base64_suffix_map(r) # Refused /\ base64_suffix_map(s) # Refused
  BY <1>8, <1>16, <1>9, <1>10, NotRefused
<1>12. SubSeq(m, 1, e) = m
  BY <1>1, SubSeqFull
<1> HIDE DEF o
<1>13. CASE i + 3 <= e
  <2>1. i + 2 <= e
    BY <1>1, <1>13
  <2>2. Four(Local(0, 0, 3, o), p, q, r, s) =
          Local(0, 0, 3, o \o GroupBytes(((w * 64 + x) * 64 + y) * 64 + z, 3))
    BY <1>8, <1>16, <1>9, <1>10, <1>13, <2>1, FourCharacters
  <2>8. PICK f : f = <<a, b, c>>
    OBVIOUS
  <2>3. f \in Seq(Byte) /\ Len(f) = 3 /\ f[1] = a /\ f[2] = b /\ f[3] = c
    BY <1>5, <2>8
  <2>9. PICK k \in Nat : k = 3
    OBVIOUS
  <2>4. \A j \in 1 .. k : f[j] = m[i + j]
    <3>1. \A j \in 1 .. k : j = 1 \/ j = 2 \/ j = 3
      BY <2>9
    <3>2. f[1] = m[i + 1] /\ f[2] = m[i + 2] /\ f[3] = m[i + 3]
      BY <1>5, <1>13, <2>1, <2>3
    <3> QED
      BY <3>1, <3>2
  <2>5. o \o f = SubSeq(m, 1, i + 3)
    <3>1. i + k <= Len(m) /\ Len(f) = k
      BY <1>1, <1>13, <2>3, <2>9
    <3>2. m \in Seq(Byte) /\ i \in Nat /\ f \in Seq(Byte)
      BY <2>3
    <3>3. SubSeq(m, 1, i) \o f = SubSeq(m, 1, i + k)
      <4>1. Continues(m, i, k, f)
        BY <2>4, <3>1, <3>2, Zenon DEF Continues
      <4> QED
        BY <4>1, PrefixGrows
    <3>4. o \o f = SubSeq(m, 1, i + k)
      BY <3>3 DEF o
    <3> QED
      BY <2>9, <3>4
  <2>6. Four(Local(0, 0, 3, o), p, q, r, s) = Local(0, 0, 3, SubSeq(m, 1, i + 3))
    BY <1>8, <1>16, <2>2, <2>5, <2>8
  <2> QED
    BY <1>1, <1>11, <1>13, <2>6 DEF o
<1>14. CASE i + 2 <= e /\ ~ i + 3 <= e
  <2>1. c = 0 /\ z = 0 /\ i + 2 = e
    BY <1>1, <1>5, <1>8, <1>16, <1>14
  <2>2. Four(Local(0, 0, 3, o), p, q, r, s) =
          Local(0, 0, 2, o \o GroupBytes(((w * 64 + x) * 64 + y) * 64 + 0, 2))
    BY <1>8, <1>16, <1>9, <1>10, <1>14, FourCharacters
  <2>8. PICK f : f = <<a, b>>
    OBVIOUS
  <2>3. f \in Seq(Byte) /\ Len(f) = 2 /\ f[1] = a /\ f[2] = b
    BY <1>5, <2>8
  <2>9. PICK k \in Nat : k = 2
    OBVIOUS
  <2>4. \A j \in 1 .. k : f[j] = m[i + j]
    <3>1. \A j \in 1 .. k : j = 1 \/ j = 2
      BY <2>9
    <3>2. f[1] = m[i + 1] /\ f[2] = m[i + 2]
      BY <1>5, <1>14, <2>3
    <3> QED
      BY <3>1, <3>2
  <2>5. o \o f = SubSeq(m, 1, i + 2)
    <3>1. i + k <= Len(m) /\ Len(f) = k
      BY <1>1, <1>14, <2>3, <2>9
    <3>2. m \in Seq(Byte) /\ i \in Nat /\ f \in Seq(Byte)
      BY <2>3
    <3>3. SubSeq(m, 1, i) \o f = SubSeq(m, 1, i + k)
      <4>1. Continues(m, i, k, f)
        BY <2>4, <3>1, <3>2, Zenon DEF Continues
      <4> QED
        BY <4>1, PrefixGrows
    <3>4. o \o f = SubSeq(m, 1, i + k)
      BY <3>3 DEF o
    <3> QED
      BY <2>9, <3>4
  <2>6. Four(Local(0, 0, 3, o), p, q, r, s) = Local(0, 0, 2, m)
    BY <1>8, <1>16, <1>12, <2>1, <2>2, <2>5, <2>8
  <2>7. Local(0, 0, 2, m).out = m
    BY DEF Local
  <2> QED
    BY <1>1, <1>11, <1>14, <2>6, <2>7 DEF o
<1>15. CASE ~ i + 2 <= e
  <2>1. b = 0 /\ c = 0 /\ y = 0 /\ z = 0 /\ i + 1 = e /\ ~ i + 3 <= e
    BY <1>1, <1>5, <1>8, <1>16, <1>15
  <2>2. Four(Local(0, 0, 3, o), p, q, r, s) =
          Local(0, 0, 1, o \o GroupBytes(((w * 64 + x) * 64 + 0) * 64 + 0, 1))
    BY <1>8, <1>16, <1>9, <1>10, <1>15, <2>1, FourCharacters
  <2>8. PICK f : f = <<a>>
    OBVIOUS
  <2>3. f \in Seq(Byte) /\ Len(f) = 1 /\ f[1] = a
    BY <1>5, <2>8
  <2>9. PICK k \in Nat : k = 1
    OBVIOUS
  <2>4. \A j \in 1 .. k : f[j] = m[i + j]
    <3>1. \A j \in 1 .. k : j = 1
      BY <2>9
    <3>2. f[1] = m[i + 1]
      BY <1>5, <2>3
    <3> QED
      BY <3>1, <3>2
  <2>5. o \o f = SubSeq(m, 1, i + 1)
    <3>1. i + k <= Len(m) /\ Len(f) = k
      BY <1>1, <2>1, <2>3, <2>9
    <3>2. m \in Seq(Byte) /\ i \in Nat /\ f \in Seq(Byte)
      BY <2>3
    <3>3. SubSeq(m, 1, i) \o f = SubSeq(m, 1, i + k)
      <4>1. Continues(m, i, k, f)
        BY <2>4, <3>1, <3>2, Zenon DEF Continues
      <4> QED
        BY <4>1, PrefixGrows
    <3>4. o \o f = SubSeq(m, 1, i + k)
      BY <3>3 DEF o
    <3> QED
      BY <2>9, <3>4
  <2>6. Four(Local(0, 0, 3, o), p, q, r, s) = Local(0, 0, 1, m)
    BY <1>8, <1>16, <1>12, <2>1, <2>2, <2>5, <2>8
  <2>7. Local(0, 0, 1, m).out = m
    BY DEF Local
  <2> QED
    BY <1>1, <1>11, <2>1, <2>6, <2>7 DEF o
<1> QED
  BY <1>13, <1>14, <1>15

\* What base64_decode makes of the Base64 of a text that is not empty is that text:
\* nothing is refused, and the '=' shorten the output by as much as the encoder has
\* filled up.
THEOREM DecodeIsInverse ==
  ASSUME NEW m \in Seq(Byte), m # <<>>
  PROVE  base64_decode(Base64Of(m)) = [ret |-> Len(m), out |-> m]
<1>1. PICK e \in Nat : e = Len(m) /\ e > 0
  <2>1. Len(m) \in Nat /\ Len(m) # 0
    OBVIOUS
  <2> QED
    BY <2>1
<1>2. PICK k \in Nat : k = (e + 2) \div 3 /\ k > 0 /\ 3 * (k - 1) < e /\ e <= 3 * k
  <2>1. PICK k : k = (e + 2) \div 3
    OBVIOUS
  <2>2. k \in Nat /\ k > 0 /\ 3 * (k - 1) < e /\ e <= 3 * k
    BY <1>1, <2>1
  <2> QED
    BY <2>1, <2>2
<1>3. PICK l \in Nat : l = 4 * k
  OBVIOUS
<1>4. PICK text : text = Base64Of(m)
  OBVIOUS
<1>5. text \in Seq(Int) /\ Len(text) = l
  <2>1. text \in Seq(AlphabetChar) /\ AlphabetChar \subseteq Int
    BY <1>4, Base64Chars DEF AlphabetChar
  <2>2. DOMAIN text = 1 .. l
    <3> DEFINE sextet(j) == (GroupBits(m, (j - 1) \div 4) \div 64^(3 - ((j - 1) % 4))) % 64
               digit(j) == IF 6 * (j - 1) < 8 * Len(m) THEN base64_alphabet(sextet(j)) ELSE Pad
    <3>1. text = [j \in 1 .. 4 * ((Len(m) + 2) \div 3) |-> digit(j)]
      BY <1>4, Zenon DEF Base64Of
    <3>2. 4 * ((Len(m) + 2) \div 3) = l
      BY <1>1, <1>2, <1>3
    <3> HIDE DEF digit
    <3> QED
      BY <3>1, <3>2
  <2>3. DOMAIN text = 1 .. Len(text) /\ Len(text) \in Nat
    BY <2>1
  <2>4. Len(text) = l
    BY <2>2, <2>3
  <2>5. text \in Seq(Int)
    BY <2>1, SeqMonotonic
  <2> QED
    BY <2>4, <2>5
<1>6. PICK h \in [0 .. l -> DecodeState] : DecodeIs(h, l, text)
  BY <1>5, DecodeSteps
<1>7. ASSUME NEW G \in Nat, G < k
      PROVE  h[4 * (G + 1)] =
               Four(h[4 * G], text[4 * G + 1], text[4 * G + 2], text[4 * G + 3], text[4 * G + 4])
  <2>1. PICK f \in Nat : f = 4 * G /\ f + 4 <= l
    BY <1>3, <1>7
  <2>2. f + 1 \in 1 .. l /\ f + 2 \in 1 .. l /\ f + 3 \in 1 .. l /\ f + 4 \in 1 .. l
    BY <2>1
  <2>3. (f + 1) - 1 = f /\ (f + 2) - 1 = f + 1 /\ (f + 3) - 1 = f + 2 /\ (f + 4) - 1 = f + 3
    BY <2>1
  <2>4. /\ h[f + 1] = DecodeChar(h[f], text[f + 1])
        /\ h[f + 2] = DecodeChar(h[f + 1], text[f + 2])
        /\ h[f + 3] = DecodeChar(h[f + 2], text[f + 3])
        /\ h[f + 4] = DecodeChar(h[f + 3], text[f + 4])
    BY <1>6, <2>2, <2>3 DEF DecodeIs
  <2>5. h[f + 4] = Four(h[f], text[f + 1], text[f + 2], text[f + 3], text[f + 4])
    BY <2>4, Zenon DEF Four
  <2>6. 4 * (G + 1) = f + 4
    BY <2>1
  <2> QED
    BY <2>1, <2>5, <2>6, Zenon
<1> DEFINE P == {G \in 0 .. k - 1 : h[4 * G] = Local(0, 0, 3, SubSeq(m, 1, 3 * G))}
<1>8. 0 \in P
  <2>1. h[0] = Local(0, 0, 3, <<>>)
    BY <1>6 DEF DecodeIs, DecodeStart, Local
  <2>2. SubSeq(m, 1, 0) = <<>>
    BY SubSeqEmpty
  <2>3. 4 * 0 = 0 /\ 3 * 0 = 0 /\ 0 \in 0 .. k - 1
    BY <1>2
  <2> QED
    BY <2>1, <2>2, <2>3
<1>9. ASSUME NEW G \in Nat, G < k
      PROVE  /\ 3 * G + 3 <= e /\ h[4 * G] = Local(0, 0, 3, SubSeq(m, 1, 3 * G)) =>
                  h[4 * (G + 1)] = Local(0, 0, 3, SubSeq(m, 1, 3 * G + 3))
             /\ ~ 3 * G + 3 <= e /\ h[4 * G] = Local(0, 0, 3, SubSeq(m, 1, 3 * G)) =>
                  h[4 * (G + 1)].out = m
             /\ base64_suffix_map(text[4 * G + 1]) # Refused
             /\ base64_suffix_map(text[4 * G + 2]) # Refused
             /\ base64_suffix_map(text[4 * G + 3]) # Refused
             /\ base64_suffix_map(text[4 * G + 4]) # Refused
  <2>1. PICK i \in Nat : i = 3 * G /\ i < e
    BY <1>1, <1>2, <1>9
  <2>2. PICK p, q, r, s :
          /\ p = text[4 * G + 1] /\ q = text[4 * G + 2]
          /\ r = text[4 * G + 3] /\ s = text[4 * G + 4]
    OBVIOUS
  <2>3. /\ i + 3 <= Len(m) =>
             Four(Local(0, 0, 3, SubSeq(m, 1, i)), p, q, r, s) =
               Local(0, 0, 3, SubSeq(m, 1, i + 3))
        /\ ~ i + 3 <= Len(m) =>
             Four(Local(0, 0, 3, SubSeq(m, 1, i)), p, q, r, s).out = m
        /\ base64_suffix_map(p) # Refused /\ base64_suffix_map(q) # Refused
        /\ base64_suffix_map(r) # Refused /\ base64_suffix_map(s) # Refused
    BY <1>1, <1>4, <2>1, <2>2, DecodeGroup
  <2>4. h[4 * (G + 1)] = Four(h[4 * G], p, q, r, s)
    BY <1>7, <1>9, <2>2, Zenon
  <2> QED
    BY <1>1, <2>1, <2>2, <2>3, <2>4, Zenon
<1>10. ASSUME NEW G \in 0 .. k - 1, G < k - 1, G \in P PROVE G + 1 \in P
  <2>1. G \in Nat /\ G < k /\ 3 * G + 3 <= e /\ 3 * (G + 1) = 3 * G + 3 /\ G + 1 \in 0 .. k - 1
    BY <1>1, <1>2, <1>10
  <2>2. h[4 * (G + 1)] = Local(0, 0, 3, SubSeq(m, 1, 3 * G + 3))
    BY <1>9, <1>10, <2>1
  <2> QED
    BY <2>1, <2>2
<1>11. k - 1 \in P /\ k - 1 \in Nat
  <2> HIDE DEF P
  <2>1. k - 1 \in Nat
    BY <1>2
  <2> QED
    BY <1>8, <1>10, <2>1, UpTo DEF Inductive
<1>12. h[l].out = m
  <2>1. PICK G \in Nat : G = k - 1
    BY <1>11
  <2>2. h[4 * G] = Local(0, 0, 3, SubSeq(m, 1, 3 * G)) /\ G < k /\ 4 * (G + 1) = l
    BY <1>2, <1>3, <1>11, <2>1
  <2>3. CASE 3 * G + 3 <= e
    <3>1. h[l] = Local(0, 0, 3, SubSeq(m, 1, 3 * G + 3))
      BY <1>9, <2>2, <2>3
    <3>2. 3 * G + 3 = e
      BY <1>1, <1>2, <2>1, <2>3
    <3>3. SubSeq(m, 1, e) = m
      BY <1>1, SubSeqFull
    <3> QED
      BY <3>1, <3>2, <3>3 DEF Local
  <2>4. CASE ~ 3 * G + 3 <= e
    BY <1>9, <2>2, <2>4
  <2> QED
    BY <2>3, <2>4
<1>13. ASSUME NEW j \in 1 .. l PROVE base64_suffix_map(text[j]) # Refused
  <2>1. PICK G \in Nat : G = (j - 1) \div 4
    BY <1>3
  <2>2. G < k /\ (j = 4 * G + 1 \/ j = 4 * G + 2 \/ j = 4 * G + 3 \/ j = 4 * G + 4)
    BY <1>3, <2>1
  <2> QED
    BY <1>9, <2>2
<1>14. SelectInSeq(text, LAMBDA c : base64_suffix_map(c) = Refused) = 0
  <2> DEFINE I == {j \in 1 .. Len(text) : base64_suffix_map(text[j]) = Refused}
  <2>1. I = {}
    BY <1>5, <1>13
  <2>2. SelectInSeq(text, LAMBDA c : base64_suffix_map(c) = Refused)
          = IF I # {} THEN Min(I) ELSE 0
    BY Zenon DEF SelectInSeq
  <2> HIDE DEF I
  <2> QED
    BY <2>1, <2>2
<1>15. FoldLeft(DecodeChar, DecodeStart, text).out = m
  BY <1>6, <1>12 DEF DecodeIs
<1>16. text # <<>> /\ Len(text) % 4 = 0
  BY <1>2, <1>3, <1>5
<1> DEFINE bad == SelectInSeq(text, LAMBDA c : base64_suffix_map(c) = Refused)
           part == IF bad = 0 THEN text ELSE SubSeq(text, 1, bad - 1)
           out == FoldLeft(DecodeChar, DecodeStart, part).out
<1>17. bad = 0
  BY <1>14
<1>18. base64_decode(text) =
         IF text = <<>> THEN [ret |-> -1, out |-> <<>>]
         ELSE IF Len(text) % 4 # 0 THEN [ret |-> -2, out |-> <<>>]
         ELSE [ret |-> IF bad = 0 THEN Len(out) ELSE -1, out |-> out]
  BY Zenon DEF base64_decode
<1> HIDE DEF bad
<1>19. out = m
  BY <1>15, <1>17
<1> HIDE DEF out
<1> QED
  BY <1>4, <1>16, <1>17, <1>18, <1>19, Zenon

\* An empty text comes back with a negative length, and so does Base64 with a line
\* end behind it: its characters are not a multiple of four.
THEOREM DecodeRefuses ==
  ASSUME NEW m \in Seq(Byte)
  PROVE  /\ base64_decode(<<>>).ret < 0
         /\ m = <<>> => Base64Of(m) = <<>>
         /\ base64_decode(Base64Of(m) \o <<10>>).ret < 0
<1>1. base64_decode(<<>>).ret < 0
  BY DEF base64_decode
<1>2. PICK b \in Seq(Int) : b = Base64Of(m)
  <2>1. AlphabetChar \subseteq Int
    BY DEF AlphabetChar
  <2> QED
    BY <2>1, Base64Chars, SeqMonotonic
<1>3. PICK k \in Nat : k = (Len(m) + 2) \div 3
  OBVIOUS
<1>4. Len(b) = 4 * k
  BY <1>2, <1>3, EncodedLength
<1>5. ASSUME m = <<>> PROVE b = <<>>
  <2>1. k = 0
    BY <1>3, <1>5
  <2> QED
    BY <1>4, <2>1
<1>6. PICK e : e = <<10>>
  OBVIOUS
<1>7. e \in Seq(Int) /\ Len(e) = 1
  BY <1>6
<1>8. PICK text : text = b \o e
  OBVIOUS
<1>9. text \in Seq(Int) /\ Len(text) = 4 * k + 1
  BY <1>4, <1>7, <1>8, LenConcat
<1>10. text # <<>> /\ Len(text) % 4 # 0
  <2>1. Len(text) # 0 /\ Len(text) % 4 = 1
    BY <1>9
  <2> QED
    BY <2>1
<1>11. base64_decode(text) = [ret |-> -2, out |-> <<>>]
  <2> DEFINE bad == SelectInSeq(text, LAMBDA c : base64_suffix_map(c) = Refused)
             part == IF bad = 0 THEN text ELSE SubSeq(text, 1, bad - 1)
             out == FoldLeft(DecodeChar, DecodeStart, part).out
  <2>1. base64_decode(text) =
          IF text = <<>> THEN [ret |-> -1, out |-> <<>>]
          ELSE IF Len(text) % 4 # 0 THEN [ret |-> -2, out |-> <<>>]
          ELSE [ret |-> IF bad = 0 THEN Len(out) ELSE -1, out |-> out]
    BY Zenon DEF base64_decode
  <2> HIDE DEF bad, out
  <2> QED
    BY <1>10, <2>1, Zenon
<1>12. base64_decode(text).ret < 0
  BY <1>11
<1> QED
  BY <1>1, <1>2, <1>5, <1>6, <1>8, <1>12, Zenon

(***************************************************************************)
(* Reading an escaped text back.                                           *)
(***************************************************************************)

\* Where escaping puts what it writes: what is written for character k begins
\* after what was written before, and stays.
Written(h, n, s) ==
  /\ \A k \in 0 .. n : Len(h[k]) \in Nat /\ Len(h[k]) <= Len(h[n])
  /\ \A k \in 1 .. n :
       IF s[k] = Quote
       THEN /\ Len(h[k]) = Len(h[k - 1]) + 2
            /\ h[n][Len(h[k - 1]) + 1] = Backslash
            /\ h[n][Len(h[k - 1]) + 2] = Quote
       ELSE /\ Len(h[k]) = Len(h[k - 1]) + 1
            /\ h[n][Len(h[k - 1]) + 1] = s[k]

\* v is how w begins.
StartsWith(w, v) == Len(v) <= Len(w) /\ \A i \in 1 .. Len(v) : w[i] = v[i]

LEMMA AppendPair ==
  ASSUME NEW S, NEW v \in Seq(S), NEW a \in S, NEW b \in S
  PROVE  /\ v \o <<a, b>> \in Seq(S) /\ Len(v \o <<a, b>>) = Len(v) + 2
         /\ \A i \in 1 .. Len(v) : (v \o <<a, b>>)[i] = v[i]
         /\ (v \o <<a, b>>)[Len(v) + 1] = a /\ (v \o <<a, b>>)[Len(v) + 2] = b
  OBVIOUS

LEMMA AppendOne ==
  ASSUME NEW S, NEW v \in Seq(S), NEW a \in S
  PROVE  /\ Append(v, a) \in Seq(S) /\ Len(Append(v, a)) = Len(v) + 1
         /\ \A i \in 1 .. Len(v) : Append(v, a)[i] = v[i]
         /\ Append(v, a)[Len(v) + 1] = a
  OBVIOUS

LEMMA EscapedWritten ==
  ASSUME NEW S, Quote \in S, Backslash \in S, NEW s \in Seq(S),
         NEW h \in [0 .. Len(s) -> Seq(S)],
         ReplaceIs(h, Len(s), s, Quote, <<Backslash, Quote>>)
  PROVE  Written(h, Len(s), s)
<1>1. PICK n \in Nat : n = Len(s)
  OBVIOUS
<1>2. \A k \in 0 .. n : h[k] \in Seq(S) /\ Len(h[k]) \in Nat
  BY <1>1
<1>3. \A k \in 1 .. n : s[k] \in S
  BY <1>1
<1>4. ASSUME NEW k \in 1 .. n
      PROVE  /\ h[k - 1] \in Seq(S)
             /\ StartsWith(h[k], h[k - 1])
             /\ IF s[k] = Quote
                THEN /\ Len(h[k]) = Len(h[k - 1]) + 2
                     /\ h[k][Len(h[k - 1]) + 1] = Backslash
                     /\ h[k][Len(h[k - 1]) + 2] = Quote
                ELSE /\ Len(h[k]) = Len(h[k - 1]) + 1
                     /\ h[k][Len(h[k - 1]) + 1] = s[k]
  <2>1. PICK v \in Seq(S) : v = h[k - 1]
    BY <1>1, <1>2
  <2>2. h[k] = IF s[k] = Quote THEN v \o <<Backslash, Quote>> ELSE Append(v, s[k])
    BY <1>1, <2>1 DEF ReplaceIs
  <2>3. CASE s[k] = Quote
    <3>1. h[k] = v \o <<Backslash, Quote>>
      BY <2>2, <2>3
    <3>2. /\ Len(h[k]) = Len(v) + 2 /\ \A i \in 1 .. Len(v) : h[k][i] = v[i]
          /\ h[k][Len(v) + 1] = Backslash /\ h[k][Len(v) + 2] = Quote
      BY <3>1, AppendPair
    <3>3. Len(v) \in Nat
      OBVIOUS
    <3> QED
      BY <2>1, <2>3, <3>2, <3>3 DEF StartsWith
  <2>4. CASE s[k] # Quote
    <3>1. h[k] = Append(v, s[k])
      BY <2>2, <2>4
    <3>2. /\ Len(h[k]) = Len(v) + 1 /\ \A i \in 1 .. Len(v) : h[k][i] = v[i]
          /\ h[k][Len(v) + 1] = s[k]
      BY <1>3, <3>1, AppendOne
    <3>3. Len(v) \in Nat
      OBVIOUS
    <3> QED
      BY <2>1, <2>4, <3>2, <3>3 DEF StartsWith
  <2> QED
    BY <2>3, <2>4
<1> DEFINE P == {m \in 0 .. n : \A k \in 0 .. m : StartsWith(h[m], h[k])}
<1>5. 0 \in P
  <2>1. StartsWith(h[0], h[0])
    BY <1>2 DEF StartsWith
  <2> QED
    BY <2>1
<1>6. ASSUME NEW m \in 0 .. n, m < n, m \in P PROVE m + 1 \in P
  <2>1. m + 1 \in 1 .. n /\ (m + 1) - 1 = m /\ m + 1 \in 0 .. n
    BY <1>6
  <2>2. StartsWith(h[m + 1], h[m])
    BY <1>4, <2>1
  <2>3. ASSUME NEW k \in 0 .. m + 1 PROVE StartsWith(h[m + 1], h[k])
    <3>1. k \in 0 .. n /\ Len(h[k]) \in Nat /\ Len(h[m]) \in Nat /\ Len(h[m + 1]) \in Nat
      BY <1>2, <2>1
    <3>2. CASE k = m + 1
      BY <3>1, <3>2 DEF StartsWith
    <3>3. CASE k # m + 1
      <4>1. StartsWith(h[m], h[k])
        BY <1>6, <2>1, <3>3
      <4> QED
        BY <2>2, <3>1, <4>1 DEF StartsWith
    <3> QED
      BY <3>2, <3>3
  <2> QED
    BY <2>1, <2>3
<1>7. \A k \in 0 .. n : StartsWith(h[n], h[k])
  <2>1. n \in P
    <3> HIDE DEF P
    <3> QED
      BY <1>5, <1>6, UpTo DEF Inductive
  <2> QED
    BY <2>1
<1>8. \A k \in 0 .. n : Len(h[k]) \in Nat /\ Len(h[k]) <= Len(h[n])
  BY <1>2, <1>7 DEF StartsWith
<1>9. ASSUME NEW k \in 1 .. n
      PROVE  IF s[k] = Quote
             THEN /\ Len(h[k]) = Len(h[k - 1]) + 2
                  /\ h[n][Len(h[k - 1]) + 1] = Backslash
                  /\ h[n][Len(h[k - 1]) + 2] = Quote
             ELSE /\ Len(h[k]) = Len(h[k - 1]) + 1
                  /\ h[n][Len(h[k - 1]) + 1] = s[k]
  <2>1. k \in 0 .. n /\ k - 1 \in 0 .. n
    BY <1>1
  <2>2. PICK a \in Nat : a = Len(h[k - 1])
    BY <1>2, <2>1
  <2>3. \A i \in 1 .. Len(h[k]) : h[n][i] = h[k][i]
    BY <1>7, <2>1 DEF StartsWith
  <2>4. Len(h[k]) = IF s[k] = Quote THEN a + 2 ELSE a + 1
    BY <1>4, <2>2
  <2>5. a + 1 \in 1 .. Len(h[k]) /\ (s[k] = Quote => a + 2 \in 1 .. Len(h[k]))
    BY <2>4
  <2> QED
    BY <1>4, <2>2, <2>3, <2>5
<1> QED
  BY <1>1, <1>8, <1>9 DEF Written

\* What a JSON parser reads from position i of s, when r is what it reads later.
ReadsFrom(s, r, i) ==
  IF i > Len(s) THEN <<>>
  ELSE IF s[i] = Quote \/ s[i] < 32 THEN NotJSON
  ELSE IF s[i] # Backslash THEN <<s[i]>> \o r[i + 1]
  ELSE IF i < Len(s) /\ s[i + 1] \in {Quote, Backslash}
  THEN <<s[i + 1]>> \o r[i + 2] ELSE NotJSON

UnescapeIs(r, s) == r = [i \in 1 .. Len(s) + 2 |-> ReadsFrom(s, r, i)]

\* What is read from a position depends on the two that follow only.
LEMMA ReadsLater ==
  ASSUME NEW s, NEW r, NEW e, NEW i, r[i + 1] = e[i + 1], r[i + 2] = e[i + 2]
  PROVE  ReadsFrom(s, r, i) = ReadsFrom(s, e, i)
  BY DEF ReadsFrom

\* The recursion of Unescape, from the end of the text to its beginning, has a
\* solution.
LEMMA UnescapeExists ==
  ASSUME NEW s, Len(s) \in Nat
  PROVE  \E r : UnescapeIs(r, s)
<1>1. PICK m \in Nat : m = Len(s)
  OBVIOUS
<1> DEFINE D == 1 .. m + 2
           Q(r, k) == \A i \in m + 1 - k .. m + 2 : r[i] = ReadsFrom(s, r, i)
           P == {k \in 0 .. m : \E r : r = [i \in D |-> r[i]] /\ Q(r, k)}
<1>2. 0 \in P
  <2>1. PICK r : r = [i \in D |-> <<>>]
    OBVIOUS
  <2>2. r = [i \in D |-> r[i]]
    BY <2>1
  <2>3. \A i \in m + 1 - 0 .. m + 2 : i \in D /\ i > Len(s)
    BY <1>1
  <2>4. Q(r, 0)
    BY <2>1, <2>3 DEF ReadsFrom
  <2> HIDE DEF Q, D
  <2> QED
    BY <2>2, <2>4
<1>3. ASSUME NEW k \in 0 .. m, k < m, k \in P PROVE k + 1 \in P
  <2>1. PICK r : r = [i \in D |-> r[i]] /\ Q(r, k)
    BY <1>3
  <2>2. PICK j \in Nat : j = m - k /\ j >= 1 /\ j \in D
    BY <1>3
  <2>3. PICK e : e = [i \in D |-> IF i = j THEN ReadsFrom(s, r, j) ELSE r[i]]
    OBVIOUS
  <2>4. e = [i \in D |-> e[i]] /\ \A i \in D : i # j => e[i] = r[i]
    BY <2>3
  <2>5. e[j] = ReadsFrom(s, r, j)
    BY <2>2, <2>3
  <2>6. \A i : i \notin D => e[i] = e[i]
    OBVIOUS
  <2>7. ReadsFrom(s, e, j) = ReadsFrom(s, r, j)
    <3>1. j + 1 \in D /\ j + 2 \in D /\ j + 1 # j /\ j + 2 # j
      BY <1>3, <2>2
    <3> HIDE DEF D
    <3> QED
      BY <2>4, <3>1, ReadsLater
  <2>8. \A i \in m + 1 - k .. m + 2 : e[i] = ReadsFrom(s, e, i)
    <3> TAKE i \in m + 1 - k .. m + 2
    <3>1. i \in D /\ i # j /\ i > j
      BY <1>3, <2>2
    <3>2. e[i] = ReadsFrom(s, r, i)
      BY <2>1, <2>4, <3>1
    <3>3. CASE i > m
      BY <1>1, <3>2, <3>3 DEF ReadsFrom
    <3>4. CASE ~ (i > m)
      <4>1. i + 1 \in D /\ i + 2 \in D /\ i + 1 # j /\ i + 2 # j
        BY <2>2, <3>1, <3>4
      <4>2. r[i + 1] = e[i + 1] /\ r[i + 2] = e[i + 2]
        BY <2>4, <4>1
      <4> QED
        BY <3>2, <4>2, ReadsLater
    <3> QED
      BY <3>3, <3>4
  <2>9. Q(e, k + 1)
    <3> SUFFICES ASSUME NEW i \in m + 1 - (k + 1) .. m + 2
                 PROVE  e[i] = ReadsFrom(s, e, i)
      OBVIOUS
    <3>1. i = j \/ i \in m + 1 - k .. m + 2
      BY <1>3, <2>2
    <3> QED
      BY <2>5, <2>7, <2>8, <3>1
  <2> HIDE DEF Q, D
  <2>10. k + 1 \in 0 .. m
    BY <1>3
  <2> QED
    BY <2>4, <2>9, <2>10
<1>4. m \in P
  <2> HIDE DEF P
  <2> QED
    BY <1>2, <1>3, UpTo DEF Inductive
<1>5. PICK r : r = [i \in D |-> r[i]] /\ Q(r, m)
  BY <1>4
<1>6. \A i \in D : r[i] = ReadsFrom(s, r, i)
  <2>1. m + 1 - m = 1
    OBVIOUS
  <2> QED
    BY <1>5, <2>1
<1>7. r = [i \in D |-> ReadsFrom(s, r, i)]
  BY <1>5, <1>6
<1> QED
  BY <1>1, <1>7 DEF UnescapeIs

LEMMA UnescapeSteps ==
  ASSUME NEW s, Len(s) \in Nat
  PROVE  \E r : Unescape(s) = r[1] /\ \A i \in 1 .. Len(s) + 2 : r[i] = ReadsFrom(s, r, i)
<1>1. Unescape(s) = (CHOOSE r : UnescapeIs(r, s))[1]
  BY Zenon DEF Unescape, UnescapeIs, ReadsFrom
<1>2. PICK r : r = (CHOOSE e : UnescapeIs(e, s))
  OBVIOUS
<1>3. UnescapeIs(r, s)
  BY <1>2, UnescapeExists
<1>4. \A i \in 1 .. Len(s) + 2 : r[i] = ReadsFrom(s, r, i)
  BY <1>3 DEF UnescapeIs
<1> QED
  BY <1>1, <1>2, <1>4

LEMMA PrependOne ==
  ASSUME NEW S, NEW v \in Seq(S), NEW a \in S
  PROVE  /\ <<a>> \o v \in Seq(S) /\ Len(<<a>> \o v) = Len(v) + 1
         /\ (<<a>> \o v)[1] = a
         /\ \A i \in 1 .. Len(v) : (<<a>> \o v)[i + 1] = v[i]
  OBVIOUS

\* The rest of a text, with the character before it.
LEMMA OneMore ==
  ASSUME NEW S, NEW s \in Seq(S), NEW j \in 1 .. Len(s)
  PROVE  <<s[j]>> \o SubSeq(s, j + 1, Len(s)) = SubSeq(s, j, Len(s))
<1>1. PICK n \in Nat : n = Len(s)
  OBVIOUS
<1>2. j \in 1 .. n /\ j \in Nat /\ s[j] \in S
  BY <1>1
<1>3. PICK r : r = SubSeq(s, j + 1, n)
  OBVIOUS
<1>4. r \in Seq(S) /\ Len(r) = n - j /\ \A i \in 1 .. n - j : r[i] = s[j + i]
  BY <1>1, <1>2, <1>3
<1>5. PICK w : w = SubSeq(s, j, n)
  OBVIOUS
<1>6. w \in Seq(S) /\ Len(w) = n - j + 1 /\ \A i \in 1 .. n - j + 1 : w[i] = s[j + i - 1]
  BY <1>1, <1>2, <1>5
<1>7. PICK v : v = <<s[j]>> \o r
  OBVIOUS
<1>8. v \in Seq(S) /\ Len(v) = n - j + 1 /\ v[1] = s[j] /\ \A i \in 1 .. n - j : v[i + 1] = r[i]
  <2>1. /\ v \in Seq(S) /\ Len(v) = Len(r) + 1 /\ v[1] = s[j]
        /\ \A i \in 1 .. Len(r) : v[i + 1] = r[i]
    <3>1. PICK a \in S : a = s[j]
      BY <1>2
    <3>2. v = <<a>> \o r
      BY <1>7, <3>1
    <3>3. /\ <<a>> \o r \in Seq(S) /\ Len(<<a>> \o r) = Len(r) + 1
          /\ (<<a>> \o r)[1] = a
          /\ \A i \in 1 .. Len(r) : (<<a>> \o r)[i + 1] = r[i]
      BY <1>4, PrependOne
    <3> QED
      BY <3>1, <3>2, <3>3, Zenon
  <2> QED
    BY <1>2, <1>4, <2>1
<1>9. ASSUME NEW i \in 1 .. n - j + 1 PROVE v[i] = w[i]
  <2>1. CASE i = 1
    BY <1>2, <1>6, <1>8, <2>1
  <2>2. CASE i # 1
    <3>1. PICK k \in 1 .. n - j : i = k + 1
      BY <1>2, <2>2
    <3>2. w[i] = s[j + i - 1] /\ j + i - 1 = j + k
      BY <1>2, <1>6, <3>1
    <3> QED
      BY <1>4, <1>8, <3>1, <3>2
  <2> QED
    BY <2>1, <2>2
<1>10. v = w
  <2>1. Len(v) = Len(w) /\ \A i \in 1 .. Len(v) : v[i] = w[i]
    BY <1>6, <1>8, <1>9
  <2> QED
    BY <1>6, <1>8, <2>1, SeqEqual
<1> QED
  BY <1>1, <1>3, <1>5, <1>7, <1>10

\* Neither a control character nor a backslash.
Plain(s) == \A i \in 1 .. Len(s) : s[i] >= 32 /\ s[i] # Backslash

\* Escaping the quotes of a text makes it one that reads back as it was, whatever
\* the text, if no character of it is a backslash or a control character.
THEOREM EscapedReadsBack ==
  ASSUME NEW s \in Seq(Int), Plain(s)
  PROVE  Unescape(_replace_str(s, Quote, <<Backslash, Quote>>)) = s
<1>1. PICK n \in Nat : n = Len(s)
  OBVIOUS
<1>2. Quote \in Int /\ Backslash \in Int /\ Quote >= 32 /\ Backslash >= 32 /\ Quote # Backslash
  BY DEF Quote, Backslash
<1>3. PICK h \in [0 .. n -> Seq(Int)] : ReplaceIs(h, n, s, Quote, <<Backslash, Quote>>)
  <2>1. <<Backslash, Quote>> \in Seq(Int)
    BY <1>2
  <2> QED
    BY <1>1, <2>1, ReplaceSteps
<1>4. Written(h, n, s)
  BY <1>1, <1>2, <1>3, EscapedWritten
<1>5. PICK e \in Seq(Int) : e = h[n] /\ h[0] = <<>>
  BY <1>3 DEF ReplaceIs
<1>6. PICK r : Unescape(e) = r[1] /\ \A i \in 1 .. Len(e) + 2 : r[i] = ReadsFrom(e, r, i)
  <2>1. Len(e) \in Nat
    OBVIOUS
  <2> QED
    BY <2>1, UnescapeSteps
<1>7. \A k \in 0 .. n : Len(h[k]) \in Nat /\ Len(h[k]) <= Len(e)
  BY <1>4, <1>5 DEF Written
<1> DEFINE P == {k \in 0 .. n : r[Len(h[n - k]) + 1] = SubSeq(s, n - k + 1, n)}
<1>8. 0 \in P
  <2>1. n - 0 = n /\ n - 0 + 1 = n + 1 /\ 0 \in 0 .. n
    OBVIOUS
  <2>2. r[Len(e) + 1] = <<>>
    <3>1. Len(e) \in Nat /\ Len(e) + 1 \in 1 .. Len(e) + 2 /\ Len(e) + 1 > Len(e)
      OBVIOUS
    <3> QED
      BY <1>6, <3>1 DEF ReadsFrom
  <2>3. SubSeq(s, n + 1, n) = <<>>
    OBVIOUS
  <2> QED
    BY <1>5, <2>1, <2>2, <2>3
<1>9. ASSUME NEW k \in 0 .. n, k < n, k \in P PROVE k + 1 \in P
  <2>1. PICK j \in 1 .. n : j = n - k
    BY <1>9
  <2>2. n - (k + 1) = j - 1 /\ n - (k + 1) + 1 = j /\ n - k + 1 = j + 1
        /\ j - 1 \in 0 .. n /\ j \in 0 .. n /\ k + 1 \in 0 .. n
    BY <1>9, <2>1
  <2>3. r[Len(h[j]) + 1] = SubSeq(s, j + 1, n)
    BY <1>9, <2>1, <2>2
  <2>4. PICK a \in Nat : a = Len(h[j - 1])
    BY <1>7, <2>2
  <2>5. s[j] \in Int /\ s[j] >= 32 /\ s[j] # Backslash
    BY <1>1, <2>1 DEF Plain
  <2>6. IF s[j] = Quote
        THEN Len(h[j]) = a + 2 /\ e[a + 1] = Backslash /\ e[a + 2] = Quote
        ELSE Len(h[j]) = a + 1 /\ e[a + 1] = s[j]
    BY <1>4, <1>5, <2>1, <2>4 DEF Written
  <2>7. Len(e) \in Nat /\ Len(h[j]) \in Nat /\ Len(h[j]) <= Len(e)
    BY <1>7, <2>2
  <2>8. r[a + 1] = ReadsFrom(e, r, a + 1) /\ a + 1 <= Len(e)
    <3>1. a + 1 <= Len(e) /\ a + 1 \in 1 .. Len(e) + 2
      <4>1. Len(h[j]) = a + 1 \/ Len(h[j]) = a + 2
        BY <2>6
      <4> QED
        BY <2>7, <4>1
    <3> QED
      BY <1>6, <3>1
  <2>9. r[a + 1] = <<s[j]>> \o SubSeq(s, j + 1, n)
    <3>1. CASE s[j] = Quote
      <4>1. e[a + 1] = Backslash /\ e[a + 1 + 1] = Quote /\ a + 1 < Len(e)
            /\ r[a + 1 + 2] = SubSeq(s, j + 1, n)
        <5>1. Len(h[j]) = a + 2 /\ e[a + 1] = Backslash /\ e[a + 2] = Quote
          BY <2>6, <3>1
        <5>2. a + 2 + 1 = a + 1 + 2 /\ a + 1 + 1 = a + 2
          OBVIOUS
        <5>3. r[a + 1 + 2] = SubSeq(s, j + 1, n)
          BY <2>3, <5>1, <5>2, Zenon
        <5>4. e[a + 1 + 1] = Quote
          BY <5>1, <5>2, Zenon
        <5>5. a + 1 < Len(e)
          BY <2>7, <5>1
        <5> QED
          BY <5>1, <5>3, <5>4, <5>5
      <4> HIDE DEF P
      <4>2. e[a + 1] # Quote /\ ~ (e[a + 1] < 32) /\ ~ (a + 1 > Len(e))
        BY <1>2, <2>7, <4>1
      <4>3. ReadsFrom(e, r, a + 1) = <<e[a + 1 + 1]>> \o r[a + 1 + 2]
        BY <4>1, <4>2 DEF ReadsFrom
      <4> QED
        BY <2>8, <3>1, <4>1, <4>3
    <3>2. CASE s[j] # Quote
      <4>1. e[a + 1] = s[j] /\ r[a + 1 + 1] = SubSeq(s, j + 1, n)
        BY <2>3, <2>6, <3>2
      <4>2. e[a + 1] # Quote /\ ~ (e[a + 1] < 32) /\ ~ (a + 1 > Len(e)) /\ e[a + 1] # Backslash
        <5>1. e[a + 1] >= 32 /\ e[a + 1] \in Int /\ e[a + 1] # Quote /\ e[a + 1] # Backslash
          BY <2>5, <3>2, <4>1
        <5> HIDE DEF P
        <5>2. ~ (e[a + 1] < 32) /\ ~ (a + 1 > Len(e))
          BY <2>7, <2>8, <5>1
        <5> QED
          BY <5>1, <5>2
      <4>3. ReadsFrom(e, r, a + 1) = <<e[a + 1]>> \o r[a + 1 + 1]
        BY <4>2 DEF ReadsFrom
      <4> QED
        BY <2>8, <4>1, <4>3
    <3> QED
      BY <3>1, <3>2
  <2>10. r[a + 1] = SubSeq(s, j, n)
    BY <1>1, <2>1, <2>9, OneMore
  <2> QED
    BY <2>2, <2>4, <2>10
<1>10. n \in P
  <2> HIDE DEF P
  <2> QED
    BY <1>8, <1>9, UpTo DEF Inductive
<1>11. r[1] = SubSeq(s, 1, n)
  <2>1. n - n = 0 /\ n - n + 1 = 1
    OBVIOUS
  <2>2. Len(h[0]) + 1 = 1
    BY <1>5
  <2> QED
    BY <1>10, <2>1, <2>2
<1>12. SubSeq(s, 1, n) = s
  BY <1>1
<1> QED
  BY <1>3, <1>5, <1>6, <1>11, <1>12 DEF ReplaceIs

=============================================================================
