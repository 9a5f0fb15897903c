-------------------------------- MODULE Codec --------------------------------
(***************************************************************************)
(* The conversions of common.c and client.c: Base64 in both directions and *)
(* the replacement of strings.  They keep no state: operators, each next   *)
(* to the definition it is compared with.                                  *)
(*                                                                         *)
(* A byte is 0 .. 255, and so is a character of an encoded text, by its    *)
(* ASCII code.                                                             *)
(***************************************************************************)
EXTENDS Integers, Sequences, SequencesExt

CONSTANTS
  CharIsSigned,  \* whether the build has a signed char (x86: yes, ARM: no)
  BeforeTable    \* BeforeTable[v]: the byte at base64_alphabet[v], for v < 0

Byte == 0 .. 255

ASSUME CodecAssumption ==
  /\ CharIsSigned \in BOOLEAN
  /\ BeforeTable \in [-64 .. -1 -> Byte]

Pad == 61    \* '='

-----------------------------------------------------------------------------
(* Encoding.                                                               *)

\* base64_alphabet[v]: A .. Z, a .. z, 0 .. 9, +, /.  An index below 0 reads what
\* the build has put before the table.
base64_alphabet(v) ==
  IF v < 0 THEN BeforeTable[v]
  ELSE IF v < 26 THEN 65 + v
  ELSE IF v < 52 THEN 71 + v
  ELSE IF v < 62 THEN v - 4
  ELSE IF v = 62 THEN 43 ELSE 47

\* The value a byte has as a char.
Char(b) == IF CharIsSigned /\ b >= 128 THEN b - 256 ELSE b

\* Mutant: the shift to the left keeps the bits that leave the byte.
cmove_bits_wide(src, lnum, rnum) == (src * 2^lnum) \div 2^rnum

\* cmove_bits: the byte is shifted to the left, then to the right.
cmove_bits(src, lnum, rnum) == ((src * 2^lnum) % 256) \div 2^rnum

\* How many characters of the last group are '='.
pad_num(m) == IF Len(m) % 3 = 0 THEN 0 ELSE 3 - (Len(m) % 3)

\* The four characters of the group of m that begins after its first i bytes.
EncodeGroup(m, i) ==
  LET b(k) == m[i + k]
      last == (i = Len(m) + pad_num(m) - 3)
      first == base64_alphabet(Char(b(1)) \div 4)
      second == base64_alphabet(cmove_bits(b(1), 6, 2) + cmove_bits(b(2), 0, 4))
  IN IF last /\ pad_num(m) = 1
     THEN <<first, second, base64_alphabet(cmove_bits(b(2), 4, 2)), Pad>>
     ELSE IF last /\ pad_num(m) = 2
     THEN <<first, base64_alphabet(cmove_bits(b(1), 6, 2)), Pad, Pad>>
     ELSE <<first, second,
            base64_alphabet(cmove_bits(b(2), 4, 2) + cmove_bits(b(3), 0, 6)),
            base64_alphabet(b(3) % 64)>>

\* What base64_encode writes into outdata for the bytes m; nothing if there are
\* none.
base64_encode(m) ==
  [k \in 1 .. 4 * ((Len(m) + 2) \div 3) |->
     EncodeGroup(m, 3 * ((k - 1) \div 4))[((k - 1) % 4) + 1]]

\* The 24 bits of group g of m, the last filled with zeros.
ByteOrZero(m, k) == IF k <= Len(m) THEN m[k] ELSE 0
GroupBits(m, g) ==
  ByteOrZero(m, 3*g + 1) * 65536 + ByteOrZero(m, 3*g + 2) * 256 + ByteOrZero(m, 3*g + 3)

\* Base64 as it is defined (RFC 4648): the bits of m, six at a time; the last four
\* characters are filled with '='.
Base64Of(m) ==
  LET sextet(k) == (GroupBits(m, (k - 1) \div 4) \div 64^(3 - ((k - 1) % 4))) % 64
  IN [k \in 1 .. 4 * ((Len(m) + 2) \div 3) |->
        IF 6 * (k - 1) < 8 * Len(m) THEN base64_alphabet(sextet(k)) ELSE Pad]

\* The bytes the encoder treats as a number of six bits by their first char: all
\* of ASCII, and every byte where char is unsigned.
Encodable(m) ==
  \A k \in 1 .. Len(m) : (k % 3 = 1 /\ CharIsSigned) => m[k] < 128

-----------------------------------------------------------------------------
(* Decoding, character by character.                                       *)

Refused == 255
Skipped == 253
PadMark == 254

\* base64_suffix_map[c]: the number of a character of the alphabet; line ends and
\* blanks are skipped.
base64_suffix_map(c) ==
  IF c \in 65 .. 90 THEN c - 65
  ELSE IF c \in 97 .. 122 THEN c - 71
  ELSE IF c \in 48 .. 57 THEN c + 4
  ELSE IF c = 43 THEN 62
  ELSE IF c = 47 THEN 63
  ELSE IF c = Pad THEN PadMark
  ELSE IF c \in {10, 13, 32} THEN Skipped
  ELSE Refused

\* The locals of base64_decode: bits and characters of the group so far, bytes
\* to write for a group, and what was written.
DecodeStart == [t |-> 0, y |-> 0, g |-> 3, out |-> <<>>]

\* Mutant: '=' does not shorten the output.
DecodeCharKeepsLength(d, c) ==
  LET v == base64_suffix_map(c)
      t == d.t * 64 + (IF v = PadMark THEN 0 ELSE v)
      bytes == <<(t \div 65536) % 256, (t \div 256) % 256, t % 256>>
  IN IF v = Skipped THEN d
     ELSE IF d.y < 3 THEN [d EXCEPT !.t = t, !.y = d.y + 1]
     ELSE [d EXCEPT !.t = 0, !.y = 0, !.out = d.out \o bytes]

\* One character that the table does not refuse.  The fourth of a group writes
\* its bytes: one, and a second and a third unless '=' was seen.
DecodeChar(d, c) ==
  LET v == base64_suffix_map(c)
      t == d.t * 64 + (IF v = PadMark THEN 0 ELSE v)
      g == IF v = PadMark THEN d.g - 1 ELSE d.g
      bytes == <<(t \div 65536) % 256>>
                 \o (IF g > 1 THEN <<(t \div 256) % 256>> ELSE <<>>)
                 \o (IF g > 2 THEN <<t % 256>> ELSE <<>>)
  IN IF v = Skipped THEN d
     ELSE IF d.y < 3 THEN [d EXCEPT !.t = t, !.y = d.y + 1, !.g = g]
     ELSE [d EXCEPT !.t = 0, !.y = 0, !.g = g, !.out = d.out \o bytes]

\* What base64_decode returns for a text of characters other than NUL, and what
\* it has written by then.
base64_decode(text) ==
  LET bad == SelectInSeq(text, LAMBDA c : base64_suffix_map(c) = Refused)
      out == FoldLeft(DecodeChar, DecodeStart,
                      IF bad = 0 THEN text ELSE SubSeq(text, 1, bad - 1)).out
  IN IF text = <<>> THEN [ret |-> -1, out |-> <<>>]
     ELSE IF Len(text) % 4 # 0 THEN [ret |-> -2, out |-> <<>>]
     ELSE [ret |-> IF bad = 0 THEN Len(out) ELSE -1, out |-> out]

-----------------------------------------------------------------------------
(* Replacing strings.  A text is a sequence of characters or of longer     *)
(* pieces, of which those equal to rep are all its occurrences: none       *)
(* overlap, neither '"' nor "request" can.                                 *)

\* Mutant: what follows the last occurrence is not copied.
ReplaceLosesTail(data, rep, to) ==
  FoldLeft(LAMBDA buf, p : IF p = rep THEN buf \o to ELSE Append(buf, p), <<>>,
           SubSeq(data, 1, SelectLastInSeq(data, LAMBDA p : p = rep)))

\* _replace_str writes data into new_buf with to in the place of every rep.
_replace_str(data, rep, to) ==
  FoldLeft(LAMBDA buf, p : IF p = rep THEN buf \o to ELSE Append(buf, p), <<>>, data)

Quote == 34
Backslash == 92

\* The text a JSON parser reads from a string of which s are the characters
\* between the quotes; NotJSON if s is not one string.
NotJSON == <<-1>>
Unescape(s) ==
  LET rest[i \in 1 .. Len(s) + 2] ==
        IF i > Len(s) THEN <<>>
        ELSE IF s[i] = Quote \/ s[i] < 32 THEN NotJSON
        ELSE IF s[i] # Backslash THEN <<s[i]>> \o rest[i + 1]
        ELSE IF i < Len(s) /\ s[i + 1] \in {Quote, Backslash}
        THEN <<s[i + 1]>> \o rest[i + 2] ELSE NotJSON
  IN rest[1]

=============================================================================
