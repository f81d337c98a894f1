---------------------------- MODULE Base64Proofs ----------------------------
(***************************************************************************)
(* The codec's round trip and its agreement with RFC 4648, for addresses   *)
(* and texts of every length and content.                                  *)
(***************************************************************************)
EXTENDS Base64, TLAPS

-----------------------------------------------------------------------------
(* Lengths.                                                                *)

(* A length below the range of size_t is not wrapped. *)
LEMMA SizeTSmall ==
    ASSUME NEW x \in Nat, x < SizeMod
    PROVE  SizeT(x) = x
BY Base64Assumption DEF SizeT

(* The length functions, for the lengths that occur. *)
LEMMA EncodedLength ==
    ASSUME NEW n \in 0 .. MaxAddr
    PROVE  /\ base64_encoded_length(n) = ((n + 2) \div 3) * 4
           /\ base64_encoded_length(n) + 3 < SizeMod
<1>1. ((n + 2) \div 3) * 4 + 3 < SizeMod /\ ((n + 2) \div 3) * 4 \in Nat
  BY Base64Assumption
<1>2. SizeT(n + 2) = n + 2
  BY SizeTSmall, Base64Assumption
<1> QED
  BY <1>1, <1>2, SizeTSmall, Base64Assumption DEF base64_encoded_length

LEMMA DecodedLength ==
    ASSUME NEW n \in Nat, n + 3 < SizeMod
    PROVE  base64_decoded_length(n) = ((n + 3) \div 4) * 3
<1>1. ((n + 3) \div 4) * 3 < SizeMod /\ ((n + 3) \div 4) * 3 \in Nat
  BY Base64Assumption
<1>2. SizeT(n + 3) = n + 3
  BY SizeTSmall, Base64Assumption
<1> QED
  BY <1>1, <1>2, SizeTSmall, Base64Assumption DEF base64_decoded_length

-----------------------------------------------------------------------------
(* Letters and bits.                                                       *)

(* Different groups of six bits have different letters, none of them '='. *)
LEMMA LettersDiffer ==
    ASSUME NEW s \in Sixbit, NEW t \in Sixbit
    PROVE  /\ encode_map[s] \in Byte
           /\ encode_map[s] # Pad
           /\ encode_map[s] = encode_map[t] => s = t
<1>1. encode_map[s] \in Byte /\ encode_map[s] # Pad
  <2>1. /\ s < 26 => encode_map[s] = 65 + s
        /\ s \in 26 .. 51 => encode_map[s] = 71 + s
        /\ s \in 52 .. 61 => encode_map[s] = s - 4
        /\ s = 62 => encode_map[s] = 43
        /\ s = 63 => encode_map[s] = 47
    BY DEF Sixbit, encode_map
  <2> QED
    BY <2>1 DEF Sixbit, Byte, Pad
<1>2. encode_map[s] = encode_map[t] => s = t
  BY DEF Sixbit, encode_map
<1> QED
  BY <1>1, <1>2

(* The decoder's table inverts the encoder's. *)
LEMMA LetterDecoded ==
    ASSUME NEW s \in Sixbit
    PROVE  decode_map[encode_map[s]] = s
<1>1. encode_map[s] \in Byte /\ encode_map[s] \in Letters
  BY LettersDiffer DEF Letters
<1>2. decode_map[encode_map[s]] = CHOOSE t \in Sixbit : encode_map[t] = encode_map[s]
  BY <1>1 DEF decode_map
<1> QED
  BY <1>2, LettersDiffer

(* A character that the decoder does not refuse stands for six bits. *)
LEMMA LetterValue ==
    ASSUME NEW ch \in Byte, decode_map[ch] # -1
    PROVE  decode_map[ch] \in Sixbit
<1>1. ch \in Letters
  BY DEF decode_map
<1>2. PICK s \in Sixbit : encode_map[s] = ch
  BY <1>1 DEF Letters
<1> QED
  BY <1>2, LetterDecoded

(* The number that RFC 4648 makes of three bytes. *)
Number(a, b, c) == a * 65536 + b * 256 + c

(* The bits of three bytes, cut into four groups of six, are the four digits
   of their number. *)
LEMMA SixbitsAreDigits ==
    ASSUME NEW a \in Byte, NEW b \in Byte, NEW c \in Byte
    PROVE  \A k \in 0 .. 3 : sixbits(a, b, c)[k + 1] = Digit(Number(a, b, c), k)
<1> DEFINE number == a * 65536 + b * 256 + c
<1> USE DEF Byte
<1>1. Number(a, b, c) = number
  BY DEF Number
<1>2. (number \div 262144) % 64 = a \div 4
  OBVIOUS
<1>3. (number \div 4096) % 64 = (a % 4) * 16 + b \div 16
  <2>1. number \div 4096 = a * 16 + b \div 16
    OBVIOUS
  <2>2. a * 16 + b \div 16 = (a \div 4) * 64 + ((a % 4) * 16 + b \div 16)
    OBVIOUS
  <2>3. (a % 4) * 16 + b \div 16 \in 0 .. 63
    OBVIOUS
  <2>4. ((a \div 4) * 64 + ((a % 4) * 16 + b \div 16)) % 64 = (a % 4) * 16 + b \div 16
    BY <2>3
  <2> QED
    BY <2>1, <2>2, <2>4
<1>4. (number \div 64) % 64 = (b % 16) * 4 + c \div 64
  OBVIOUS
<1>5. (number \div 1) % 64 = c % 64
  OBVIOUS
<1> SUFFICES ASSUME NEW k \in 0 .. 3
             PROVE  sixbits(a, b, c)[k + 1] = Digit(number, k)
  BY <1>1
<1> HIDE DEF number
<1>6. CASE k = 0
  BY <1>2, <1>6 DEF sixbits, Digit
<1>7. CASE k = 1
  BY <1>3, <1>7 DEF sixbits, Digit
<1>8. CASE k = 2
  BY <1>4, <1>8 DEF sixbits, Digit
<1>9. CASE k = 3
  BY <1>5, <1>9 DEF sixbits, Digit
<1> QED
  BY <1>6, <1>7, <1>8, <1>9

(* Each of the four is a value the encoder has a letter for. *)
LEMMA SixbitsInRange ==
    ASSUME NEW a \in Byte, NEW b \in Byte, NEW c \in Byte
    PROVE  \A k \in 0 .. 3 : sixbits(a, b, c)[k + 1] \in Sixbit
<1> USE DEF Byte
<1>1. a \div 4 \in 0 .. 63 /\ c % 64 \in 0 .. 63
  OBVIOUS
<1>2. (a % 4) * 16 + b \div 16 \in 0 .. 63
  OBVIOUS
<1>3. (b % 16) * 4 + c \div 64 \in 0 .. 63
  OBVIOUS
<1> SUFFICES ASSUME NEW k \in 0 .. 3 PROVE sixbits(a, b, c)[k + 1] \in Sixbit
  OBVIOUS
<1>4. k = 0 \/ k = 1 \/ k = 2 \/ k = 3
  OBVIOUS
<1> QED
  BY <1>1, <1>2, <1>3, <1>4 DEF sixbits, Sixbit

(* Putting the four groups together again gives the three bytes. *)
LEMMA OctetsOfSixbits ==
    ASSUME NEW a \in Byte, NEW b \in Byte, NEW c \in Byte
    PROVE  octets(sixbits(a, b, c)[1], sixbits(a, b, c)[2],
                  sixbits(a, b, c)[3], sixbits(a, b, c)[4]) = <<a, b, c>>
<1> USE DEF Byte
<1>1. (a \div 4) * 4 + ((a % 4) * 16 + b \div 16) \div 16 = a
  OBVIOUS
<1>2. (((a % 4) * 16 + b \div 16) % 16) * 16 + ((b % 16) * 4 + c \div 64) \div 4 = b
  OBVIOUS
<1>3. (((b % 16) * 4 + c \div 64) % 4) * 64 + (c % 64) = c
  OBVIOUS
<1> QED
  BY <1>1, <1>2, <1>3 DEF octets, sixbits

(* What four groups of six bits make are bytes. *)
LEMMA OctetsInRange ==
    ASSUME NEW a \in Sixbit, NEW b \in Sixbit, NEW c \in Sixbit, NEW d \in Sixbit
    PROVE  \A k \in 0 .. 2 : octets(a, b, c, d)[k + 1] \in Byte
<1> USE DEF Sixbit, Byte
<1>1. a * 4 + b \div 16 \in 0 .. 255
  OBVIOUS
<1>2. (b % 16) * 16 + c \div 4 \in 0 .. 255
  OBVIOUS
<1>3. (c % 4) * 64 + d \in 0 .. 255
  OBVIOUS
<1> SUFFICES ASSUME NEW k \in 0 .. 2 PROVE octets(a, b, c, d)[k + 1] \in Byte
  OBVIOUS
<1>4. k = 0 \/ k = 1 \/ k = 2
  OBVIOUS
<1> QED
  BY <1>1, <1>2, <1>3, <1>4 DEF octets

-----------------------------------------------------------------------------
(* Blocks of memory.                                                       *)

Cell == Byte \cup {Unset}

Holds(block, len) == len \in Nat /\ block \in [0 .. len - 1 -> Cell]

(* A write within a block leaves its length alone. *)
LEMMA WriteInside ==
    ASSUME NEW block, NEW len, Holds(block, len),
           NEW offset \in Nat, NEW n \in Nat, offset + n <= len,
           NEW values, \A j \in 0 .. n - 1 : values[j] \in Byte
    PROVE  /\ Holds(Write(block, offset, values, n), len)
           /\ \A k \in 0 .. len - 1 :
                 Write(block, offset, values, n)[k] =
                    IF k \in offset .. offset + n - 1 THEN values[k - offset] ELSE block[k]
<1>1. DOMAIN block \cup offset .. offset + n - 1 = 0 .. len - 1
  BY DEF Holds
<1>2. \A k \in offset .. offset + n - 1 : k - offset \in 0 .. n - 1
  OBVIOUS
<1> QED
  BY <1>1, <1>2 DEF Write, Holds, Cell

(* So does clearing its rest. *)
LEMMA ClearInside ==
    ASSUME NEW block, NEW len, Holds(block, len), len < SizeMod, NEW offset \in 0 .. len
    PROVE  /\ Holds(Clear(block, offset, len), len)
           /\ \A k \in 0 .. len - 1 :
                 Clear(block, offset, len)[k] = IF k < offset THEN block[k] ELSE NUL
<1> DEFINE n == len - offset
           zeros == [k \in 0 .. n - 1 |-> NUL]
<1>1. n \in Nat /\ SizeT(n) = n /\ len \in Nat
  BY SizeTSmall, Base64Assumption DEF Holds
<1>2. Clear(block, offset, len) = Write(block, offset, zeros, n)
  BY <1>1 DEF Clear
<1>3. \A j \in 0 .. n - 1 : zeros[j] = NUL /\ zeros[j] \in Byte
  BY DEF NUL, Byte
<1>4. \A k \in 0 .. len - 1 : k >= offset => k - offset \in 0 .. n - 1
  BY <1>1
<1>5. offset + n <= len /\ offset + n - 1 = len - 1 /\ offset \in Nat
  BY <1>1
<1> HIDE DEF n, zeros
<1>6. /\ Holds(Write(block, offset, zeros, n), len)
      /\ \A k \in 0 .. len - 1 :
            Write(block, offset, zeros, n)[k] =
               IF k \in offset .. offset + n - 1 THEN zeros[k - offset] ELSE block[k]
  BY <1>1, <1>3, <1>5, WriteInside
<1>7. ASSUME NEW k \in 0 .. len - 1
      PROVE  Clear(block, offset, len)[k] = IF k < offset THEN block[k] ELSE NUL
  <2>1. CASE k < offset
    BY <1>1, <1>2, <1>6, <2>1
  <2>2. CASE k >= offset
    <3>1. k \in offset .. offset + n - 1
      BY <1>1, <1>5, <2>2
    <3>2. zeros[k - offset] = NUL
      BY <1>3, <1>4, <2>2
    <3> QED
      BY <1>1, <1>2, <1>6, <2>2, <3>1, <3>2
  <2> QED
    BY <1>1, <2>1, <2>2
<1> QED
  BY <1>2, <1>6, <1>7

-----------------------------------------------------------------------------
(* Groups: three bytes of the address, four characters of the text.        *)

Triplet == [0 .. 2 -> Byte]
Quartet == [0 .. 3 -> Byte]

(* Of a quartet without foreign characters, three bytes are made. *)
LEMMA QuartetInRange ==
    ASSUME NEW q, \A k \in 0 .. 3 : q[k] \in Byte, Decodable(q)
    PROVE  \A k \in 0 .. 2 : base64_decode_quartet(q)[k] \in Byte
<1>1. /\ decode_map[q[0]] \in Sixbit /\ decode_map[q[1]] \in Sixbit
      /\ decode_map[q[2]] \in Sixbit /\ decode_map[q[3]] \in Sixbit
  BY LetterValue DEF Decodable
<1> QED
  BY <1>1, OctetsInRange DEF base64_decode_quartet

(* The letters of three bytes decode to the three bytes. *)
LEMMA QuartetDecodes ==
    ASSUME NEW t \in Triplet
    PROVE  LET q == base64_encode_triplet(t)
           IN  /\ \A k \in 0 .. 3 : /\ q[k] \in Byte
                                    /\ q[k] # Pad
                                    /\ q[k] = encode_map[sixbits(t[0], t[1], t[2])[k + 1]]
               /\ DOMAIN q = 0 .. 3
               /\ Decodable(q)
               /\ base64_decode_quartet(q) = t
<1> DEFINE q == base64_encode_triplet(t)
           s(k) == sixbits(t[0], t[1], t[2])[k + 1]
<1>1. t[0] \in Byte /\ t[1] \in Byte /\ t[2] \in Byte
  BY DEF Triplet
<1>2. \A k \in 0 .. 3 : s(k) \in Sixbit
  BY <1>1, SixbitsInRange
<1>3. \A k \in 0 .. 3 : q[k] = encode_map[s(k)]
  BY DEF base64_encode_triplet
<1>4. \A k \in 0 .. 3 : q[k] \in Byte /\ q[k] # Pad
  BY <1>2, <1>3, LettersDiffer
<1>5. \A k \in 0 .. 3 : decode_map[q[k]] = s(k)
  BY <1>2, <1>3, LetterDecoded
<1>6. Decodable(q)
  BY <1>2, <1>5 DEF Decodable, Sixbit
<1>7. base64_decode_quartet(q) = t
  <2>1. /\ decode_map[q[0]] = sixbits(t[0], t[1], t[2])[1]
        /\ decode_map[q[1]] = sixbits(t[0], t[1], t[2])[2]
        /\ decode_map[q[2]] = sixbits(t[0], t[1], t[2])[3]
        /\ decode_map[q[3]] = sixbits(t[0], t[1], t[2])[4]
    BY <1>5
  <2>2. base64_decode_quartet(q) = [k \in 0 .. 2 |-> <<t[0], t[1], t[2]>>[k + 1]]
    BY <1>1, <2>1, OctetsOfSixbits DEF base64_decode_quartet
  <2>3. \A k \in 0 .. 2 : <<t[0], t[1], t[2]>>[k + 1] = t[k]
    <3>1. \A k \in 0 .. 2 : k = 0 \/ k = 1 \/ k = 2
      OBVIOUS
    <3> QED
      BY <3>1
  <2> QED
    BY <2>2, <2>3 DEF Triplet
<1>8. DOMAIN q = 0 .. 3
  BY DEF base64_encode_triplet
<1> QED
  BY <1>3, <1>4, <1>6, <1>7, <1>8

(* Group i of n bytes has rest bytes, three unless it is the last one. *)
GroupOf(n, i, rest) ==
    /\ n \in Nat /\ i \in Nat /\ rest \in 1 .. 3
    /\ 3 * i + rest <= n
    /\ rest < 3 => n = 3 * i + rest

Address(block, n) == n \in Nat /\ block \in [0 .. n - 1 -> Byte]

Triple(block, i, rest) == [k \in 0 .. 2 |-> IF k < rest THEN block[3 * i + k] ELSE 0]

LEMMA TripleType ==
    ASSUME NEW block, NEW n, NEW i, NEW rest, Address(block, n), GroupOf(n, i, rest)
    PROVE  Triple(block, i, rest) \in Triplet
<1>1. 0 \in Byte
  BY DEF Byte
<1>2. \A k \in 0 .. 2 : k < rest => 3 * i + k \in 0 .. n - 1
  BY DEF GroupOf
<1> QED
  BY <1>1, <1>2 DEF Triple, Triplet, Address

(* The number of letters, counted in groups. *)
LEMMA LettersInGroups ==
    ASSUME NEW n, NEW i, NEW rest, GroupOf(n, i, rest), NEW k \in 0 .. 3
    PROVE  /\ 4 * i + k < (8 * n + 5) \div 6 <=> k <= rest
           /\ (4 * i + k) \div 4 = i
           /\ (4 * i + k) % 4 = k
<1> USE DEF GroupOf
<1>1. (4 * i + k) \div 4 = i /\ (4 * i + k) % 4 = k
  OBVIOUS
<1>2. CASE rest = 3
  <2>1. 8 * n + 5 >= 6 * (4 * i + 4)
    BY <1>2
  <2>2. (8 * n + 5) \div 6 >= 4 * i + 4
    BY <2>1
  <2> QED
    BY <1>1, <1>2, <2>2
<1>3. CASE rest < 3
  <2>1. (8 * n + 5) \div 6 = 4 * i + rest + 1
    BY <1>3
  <2> QED
    BY <1>1, <1>3, <2>1
<1> QED
  BY <1>2, <1>3

(* The reference's characters for group i are the letters of its triple and,
   where it has no bytes, padding. *)
LEMMA RfcGroup ==
    ASSUME NEW block, NEW n, NEW i, NEW rest, Address(block, n), GroupOf(n, i, rest)
    PROVE  \A k \in 0 .. 3 :
              RfcChar(block, n, 4 * i + k) =
                 IF k <= rest THEN base64_encode_triplet(Triple(block, i, rest))[k] ELSE Pad
<1> DEFINE t == Triple(block, i, rest)
<1>1. t[0] \in Byte /\ t[1] \in Byte /\ t[2] \in Byte
  BY TripleType DEF Triplet
<1>2. /\ t[0] = At(block, 3 * i, n)
      /\ t[1] = At(block, 3 * i + 1, n)
      /\ t[2] = At(block, 3 * i + 2, n)
  BY DEF Triple, At, GroupOf
<1>3. Group(block, i, n) = Number(t[0], t[1], t[2])
  BY <1>2 DEF Group, Number
<1> HIDE DEF t
<1>4. \A k \in 0 .. 3 : sixbits(t[0], t[1], t[2])[k + 1] = Digit(Group(block, i, n), k)
  BY <1>1, <1>3, SixbitsAreDigits
<1> SUFFICES ASSUME NEW k \in 0 .. 3
             PROVE  RfcChar(block, n, 4 * i + k) =
                       IF k <= rest THEN base64_encode_triplet(t)[k] ELSE Pad
  BY DEF t
<1>5. base64_encode_triplet(t)[k] = encode_map[Digit(Group(block, i, n), k)]
  BY <1>4 DEF base64_encode_triplet
<1>6. /\ 4 * i + k < (8 * n + 5) \div 6 <=> k <= rest
      /\ (4 * i + k) \div 4 = i
      /\ (4 * i + k) % 4 = k
  BY LettersInGroups
<1>7. RfcChar(block, n, 4 * i + k) =
         IF k <= rest THEN encode_map[Digit(Group(block, i, n), k)] ELSE Pad
  BY <1>6 DEF RfcChar
<1> QED
  BY <1>5, <1>7

(* What the encoder writes for a full group, and for the tail. *)
LEMMA TripletWritten ==
    ASSUME NEW block, NEW n, NEW i, Address(block, n), GroupOf(n, i, 3)
    PROVE  LET q == base64_encode_triplet(Slice(block, 3 * i, 3))
           IN  \A k \in 0 .. 3 : q[k] = RfcChar(block, n, 4 * i + k) /\ q[k] \in Byte
<1> DEFINE t == Triple(block, i, 3)
<1>1. Slice(block, 3 * i, 3) = t
  <2>1. \A m \in 0 .. 2 : m < 3
    OBVIOUS
  <2> QED
    BY <2>1 DEF Slice, Triple
<1>2. t \in Triplet
  BY TripleType
<1>3. \A k \in 0 .. 3 : RfcChar(block, n, 4 * i + k) =
                           IF k <= 3 THEN base64_encode_triplet(t)[k] ELSE Pad
  BY RfcGroup
<1> HIDE DEF t
<1>4. \A k \in 0 .. 3 : base64_encode_triplet(t)[k] \in Byte
  BY <1>2, QuartetDecodes
<1> QED
  BY <1>1, <1>3, <1>4

LEMMA TailWritten ==
    ASSUME NEW block, NEW n, NEW i, NEW rest, Address(block, n), GroupOf(n, i, rest)
    PROVE  LET q == base64_encode_tail(Slice(block, 3 * i, rest), rest)
           IN  \A k \in 0 .. 3 : q[k] = RfcChar(block, n, 4 * i + k) /\ q[k] \in Byte
<1> DEFINE t == Triple(block, i, rest)
<1>1. [m \in 0 .. 2 |-> IF m < rest THEN Slice(block, 3 * i, rest)[m] ELSE 0] = t
  <2>1. \A m \in 0 .. 2 : m < rest => m \in 0 .. rest - 1
    BY DEF GroupOf
  <2> QED
    BY <2>1 DEF Slice, Triple
<1>2. \A k \in 0 .. 3 : base64_encode_tail(Slice(block, 3 * i, rest), rest)[k] =
                           IF k > rest THEN Pad ELSE base64_encode_triplet(t)[k]
  BY <1>1 DEF base64_encode_tail
<1>3. t \in Triplet
  BY TripleType
<1>4. \A k \in 0 .. 3 : RfcChar(block, n, 4 * i + k) =
                           IF k <= rest THEN base64_encode_triplet(t)[k] ELSE Pad
  BY RfcGroup
<1> HIDE DEF t
<1>5. \A k \in 0 .. 3 : base64_encode_triplet(t)[k] \in Byte
  BY <1>3, QuartetDecodes
<1>6. Pad \in Byte /\ rest \in Int
  BY DEF Pad, Byte, GroupOf
<1>7. \A k \in 0 .. 3 : k > rest <=> ~ (k <= rest)
  BY <1>6
<1> QED
  BY <1>2, <1>4, <1>5, <1>6, <1>7

(* Where the encoder writes padding, the letter would have been an 'A'. *)
LEMMA PaddingIsA ==
    ASSUME NEW block, NEW n, NEW i, NEW rest, Address(block, n), GroupOf(n, i, rest),
           NEW k \in 0 .. 3, k > rest
    PROVE  base64_encode_triplet(Triple(block, i, rest))[k] = A
<1> DEFINE t == Triple(block, i, rest)
<1>1. t[0] \in Byte /\ t[1] \in Byte /\ t[2] \in Byte
  BY TripleType DEF Triplet
<1>2. /\ rest = 1 \/ rest = 2
      /\ rest <= 1 => t[1] = 0
      /\ rest <= 2 => t[2] = 0
  BY DEF Triple, GroupOf
<1> HIDE DEF t
<1>3. /\ 0 * 4 + 0 \div 64 = 0 /\ 0 % 64 = 0
      /\ 0 % 16 = 0 /\ 0 \div 64 = 0
  OBVIOUS
<1>4. sixbits(t[0], t[1], t[2])[k + 1] = 0
  <2>1. CASE rest = 1
    <3>1. k = 2 \/ k = 3
      BY <2>1
    <3>2. t[1] = 0 /\ t[2] = 0
      BY <1>2, <2>1
    <3> QED
      BY <1>3, <3>1, <3>2 DEF sixbits
  <2>2. CASE rest = 2
    <3>1. k = 3 /\ t[2] = 0
      BY <1>2, <2>2
    <3> QED
      BY <1>3, <3>1 DEF sixbits
  <2> QED
    BY <1>2, <2>1, <2>2
<1>5. encode_map[0] = A
  BY DEF encode_map, Sixbit, A
<1>6. base64_encode_triplet(t)[k] = A
  BY <1>4, <1>5 DEF base64_encode_triplet
<1> QED
  BY <1>6 DEF t

(* The length of a tail is well defined. *)
LEMMA InsizeExists ==
    ASSUME NEW src, NEW n \in 0 .. 4
    PROVE  /\ Insize(src, n) \in 0 .. n
           /\ Insize(src, n) # 0 => src[Insize(src, n) - 1] # Pad
           /\ \A k \in Insize(src, n) .. n - 1 : src[k] = Pad
<1> DEFINE P(m) == \A k \in m .. n - 1 : src[k] = Pad
           Q(m) == (m # 0 => src[m - 1] # Pad) /\ P(m)
<1>1. \E m \in 0 .. n : Q(m)
  <2>1. P(n)
    OBVIOUS
  <2>2. \A m \in 1 .. n : P(m) => P(m - 1) \/ src[m - 1] # Pad
    OBVIOUS
  <2> HIDE DEF P
  <2>3. P(0) \/ \E m \in 1 .. n : P(m) /\ src[m - 1] # Pad
    <3>1. CASE n = 0
      BY <2>1, <3>1
    <3>2. CASE n = 1
      BY <2>1, <2>2, <3>2
    <3>3. CASE n = 2
      BY <2>1, <2>2, <3>3
    <3>4. CASE n = 3
      BY <2>1, <2>2, <3>4
    <3>5. CASE n = 4
      BY <2>1, <2>2, <3>5
    <3> QED
      BY <3>1, <3>2, <3>3, <3>4, <3>5
  <2>4. CASE P(0)
    BY <2>4
  <2>5. CASE \E m \in 1 .. n : P(m) /\ src[m - 1] # Pad
    BY <2>5
  <2> QED
    BY <2>3, <2>4, <2>5
<1> HIDE DEF P
<1>2. Insize(src, n) = CHOOSE m \in 0 .. n : Q(m)
  BY DEF Insize, P
<1>3. Insize(src, n) \in 0 .. n /\ Q(Insize(src, n))
  BY <1>1, <1>2
<1> QED
  BY <1>3 DEF P

-----------------------------------------------------------------------------
(* The steps of the encoder.                                               *)

(* The lengths of a client's text. *)
LEMMA TextLength ==
    ASSUME Shapes, FromClient
    PROVE  /\ addr_len \in 0 .. MaxAddr
           /\ Address(addr, addr_len)
           /\ text_len = ((addr_len + 2) \div 3) * 4
           /\ text_len \in Nat
           /\ text_len + 3 < SizeMod
<1>1. addr_len \in 0 .. MaxAddr
  BY Base64Assumption DEF Shapes, FromClient
<1>2. text_len = base64_encoded_length(addr_len)
  BY DEF Shapes
<1>3. text_len = ((addr_len + 2) \div 3) * 4 /\ text_len + 3 < SizeMod
  BY <1>1, <1>2, EncodedLength
<1> QED
  BY <1>1, <1>3, Base64Assumption DEF Address, Shapes

(* Where the encoder stands. *)
LEMMA WhileEncoding ==
    ASSUME RoundTripInv, pc = "encode"
    PROVE  /\ FromClient
           /\ from \div 3 \in Nat
           /\ from = 3 * (from \div 3)
           /\ to = 4 * (from \div 3)
           /\ from <= addr_len
           /\ SizeT(addr_len - from) = addr_len - from
           /\ Holds(text, text_len + 1)
           /\ \A k \in 0 .. to - 1 : text[k] = RfcChar(addr, addr_len, k)
<1>1. FromClient
  BY DEF RoundTripInv, Shapes
<1>2. addr_len \in 0 .. MaxAddr /\ text_len \in Nat
  BY <1>1, TextLength DEF RoundTripInv
<1>3. /\ from \in 0 .. addr_len /\ from % 3 = 0 /\ to = 4 * (from \div 3)
      /\ \A k \in 0 .. to - 1 : text[k] = RfcChar(addr, addr_len, k)
  BY DEF RoundTripInv, EncodedSoFar
<1>4. from \div 3 \in Nat /\ from = 3 * (from \div 3)
  BY <1>2, <1>3, Base64Assumption
<1>5. addr_len - from \in Nat /\ addr_len - from < SizeMod
  BY <1>2, <1>3, Base64Assumption
<1>6. Holds(text, text_len + 1)
  <2> DEFINE D == 0 .. text_len - (IF FromClient THEN 0 ELSE 1)
  <2>1. D = 0 .. (text_len + 1) - 1 /\ text_len + 1 \in Nat
    BY <1>1, <1>2
  <2>2. text \in [D -> Byte \cup {Unset}]
    BY DEF RoundTripInv, InBounds
  <2> HIDE DEF D
  <2> QED
    BY <2>1, <2>2 DEF Holds, Cell
<1> QED
  BY <1>1, <1>2, <1>3, <1>4, <1>5, <1>6, SizeTSmall

(* Four characters written at the end of those there are: whatever held of
   every character before and holds of the four holds of every character. *)
LEMMA QuartetToText ==
    ASSUME NEW block, NEW len \in Nat, Holds(block, len + 1),
           NEW offset \in Nat, offset + 4 <= len,
           NEW q, \A k \in 0 .. 3 : q[k] \in Byte
    PROVE  /\ Holds(Write(block, offset, q, 4), len + 1)
           /\ \A k \in 0 .. offset - 1 : Write(block, offset, q, 4)[k] = block[k]
           /\ \A k \in 0 .. 3 : Write(block, offset, q, 4)[offset + k] = q[k]
<1> DEFINE n == 4
           size == len + 1
<1>1. n \in Nat /\ offset + n <= size /\ 3 = n - 1 /\ Holds(block, size)
  OBVIOUS
<1>2. \A k \in 0 .. n - 1 : q[k] \in Byte
  BY <1>1
<1> HIDE DEF n, size
<1> DEFINE new == Write(block, offset, q, n)
<1>3. /\ Holds(new, size)
      /\ \A k \in 0 .. size - 1 :
            new[k] = IF k \in offset .. offset + n - 1 THEN q[k - offset] ELSE block[k]
  BY <1>1, <1>2, WriteInside
<1> HIDE DEF new
<1>4. ASSUME NEW k \in 0 .. offset - 1 PROVE new[k] = block[k]
  <2>1. k \in 0 .. size - 1 /\ k \notin offset .. offset + n - 1
    BY <1>1 DEF n, size
  <2> QED
    BY <1>3, <2>1
<1>5. ASSUME NEW k \in 0 .. 3 PROVE new[offset + k] = q[k]
  <2>1. /\ offset + k \in 0 .. size - 1
        /\ offset + k \in offset .. offset + n - 1
        /\ (offset + k) - offset = k
    BY <1>1 DEF n, size
  <2> QED
    BY <1>3, <2>1
<1> QED
  BY <1>3, <1>4, <1>5 DEF n, size, new

LEMMA EncodeTripletStep ==
    ASSUME RoundTripInv, EncodeTriplet
    PROVE  RoundTripInv'
<1> DEFINE i == from \div 3
           q == base64_encode_triplet(Slice(addr, 3 * i, 3))
<1>1. /\ pc = "encode" /\ pc' = "encode"
      /\ SizeT(addr_len - from) >= 3
      /\ UNCHANGED <<addr, addr_len, text_len, out, ret>>
      /\ from' = from + 3 /\ to' = to + 4
      /\ text' = Write(text, to, base64_encode_triplet(Slice(addr, from, 3)), 4)
  BY DEF EncodeTriplet
<1>2. /\ FromClient
      /\ i \in Nat /\ from = 3 * i /\ to = 4 * i
      /\ SizeT(addr_len - from) = addr_len - from
      /\ Holds(text, text_len + 1)
      /\ \A k \in 0 .. to - 1 : text[k] = RfcChar(addr, addr_len, k)
  BY <1>1, WhileEncoding
<1>3. /\ addr_len \in 0 .. MaxAddr /\ Address(addr, addr_len)
      /\ text_len = ((addr_len + 2) \div 3) * 4 /\ text_len \in Nat
  BY <1>2, TextLength DEF RoundTripInv
<1> HIDE DEF i
<1>4. 3 * i + 3 <= addr_len
  BY <1>1, <1>2, <1>3, Base64Assumption
<1>5. GroupOf(addr_len, i, 3)
  BY <1>2, <1>3, <1>4, Base64Assumption DEF GroupOf
<1>6. \A k \in 0 .. 3 : q[k] = RfcChar(addr, addr_len, 4 * i + k) /\ q[k] \in Byte
  BY <1>3, <1>5, TripletWritten
<1>7. text' = Write(text, to, q, 4)
  BY <1>1, <1>2
<1> HIDE DEF q
<1>8. to \in Nat /\ to + 4 <= text_len /\ 4 \in Nat /\ to + 4 <= text_len + 1 /\ 4 - 1 = 3
  BY <1>2, <1>3, <1>4, Base64Assumption
<1>9. /\ Holds(text', text_len + 1)
      /\ \A k \in 0 .. to - 1 : text'[k] = text[k]
      /\ \A k \in 0 .. 3 : text'[to + k] = q[k]
  BY <1>2, <1>3, <1>6, <1>7, <1>8, QuartetToText
<1>10. InBounds'
  <2> DEFINE D == 0 .. text_len' - (IF FromClient' THEN 0 ELSE 1)
  <2>1. D = 0 .. (text_len + 1) - 1
    BY <1>1, <1>2, <1>3 DEF FromClient
  <2>2. text' \in [D -> Byte \cup {Unset}]
    BY <1>9, <2>1 DEF Holds, Cell
  <2> QED
    BY <1>1, <2>2 DEF InBounds
<1>11. EncodedSoFar'
  <2>1. ASSUME NEW k \in 0 .. to' - 1
        PROVE  text'[k] = RfcChar(addr, addr_len, k)
    <3>1. CASE k < to
      <4>1. k \in 0 .. to - 1
        BY <1>8, <3>1
      <4> QED
        BY <1>2, <1>9, <4>1
    <3>2. CASE k >= to
      <4>1. k - to \in 0 .. 3 /\ to + (k - to) = k /\ 4 * i + (k - to) = k
        BY <1>1, <1>2, <1>8, <3>2
      <4>2. text'[to + (k - to)] = RfcChar(addr, addr_len, 4 * i + (k - to))
        BY <1>6, <1>9, <4>1
      <4> QED
        BY <4>1, <4>2
    <3>3. k \in Int /\ to \in Int
      BY <1>1, <1>8
    <3> QED
      BY <3>1, <3>2, <3>3
  <2>2. /\ from' \in 0 .. addr_len /\ from' % 3 = 0
        /\ to' = 4 * (from' \div 3)
    BY <1>1, <1>2, <1>3, <1>4, Base64Assumption
  <2>3. \A k \in 0 .. to' - 1 : text'[k] = RfcChar(addr', addr_len', k)
    BY <1>1, <2>1
  <2> QED
    BY <1>1, <2>2, <2>3 DEF EncodedSoFar
<1>12. Shapes'
  BY <1>1, <1>2 DEF RoundTripInv, Shapes, FromClient
<1> QED
  BY <1>1, <1>10, <1>11, <1>12
     DEF RoundTripInv, EncodesRfc4648, TextIsEncoded, DecodedSoFar, RoundTrip

(* Every character of the reference is a byte. *)
LEMMA RfcCharIsByte ==
    ASSUME NEW block, NEW n, Address(block, n),
           NEW k \in 0 .. ((n + 2) \div 3) * 4 - 1
    PROVE  RfcChar(block, n, k) \in Byte
<1> DEFINE i == k \div 4
           m == k % 4
           rest == IF 3 * i + 3 <= n THEN 3 ELSE n - 3 * i
<1>1. n \in Nat
  BY DEF Address
<1>2. i \in Nat /\ m \in 0 .. 3 /\ 4 * i + m = k
  BY <1>1
<1>3. 3 * i + 1 <= n
  BY <1>1, <1>2
<1>4. GroupOf(n, i, rest)
  BY <1>1, <1>2, <1>3 DEF GroupOf
<1> HIDE DEF i, m, rest
<1>5. Triple(block, i, rest) \in Triplet
  BY <1>4, TripleType
<1>6. base64_encode_triplet(Triple(block, i, rest))[m] \in Byte
  BY <1>2, <1>5, QuartetDecodes
<1>7. RfcChar(block, n, 4 * i + m) =
         IF m <= rest THEN base64_encode_triplet(Triple(block, i, rest))[m] ELSE Pad
  BY <1>2, <1>4, RfcGroup
<1>8. Pad \in Byte
  BY DEF Pad, Byte
<1>9. RfcChar(block, n, 4 * i + m) \in Byte
  BY <1>6, <1>7, <1>8
<1> QED
  BY <1>2, <1>9

LEMMA EncodeEndStep ==
    ASSUME RoundTripInv, EncodeEnd
    PROVE  RoundTripInv'
<1> DEFINE i == from \div 3
           rest == addr_len - from
           q == base64_encode_tail(Slice(addr, 3 * i, rest), rest)
           block == IF from < addr_len THEN Write(text, to, q, 4) ELSE text
<1>1. /\ pc = "encode" /\ pc' = "receive"
      /\ SizeT(addr_len - from) < 3
      /\ UNCHANGED <<addr, addr_len, text_len, out, from, to>>
  BY DEF EncodeEnd
<1>2. /\ FromClient
      /\ i \in Nat /\ from = 3 * i /\ to = 4 * i /\ from <= addr_len
      /\ SizeT(addr_len - from) = rest
      /\ Holds(text, text_len + 1)
      /\ \A k \in 0 .. to - 1 : text[k] = RfcChar(addr, addr_len, k)
  BY <1>1, WhileEncoding
<1>3. /\ addr_len \in 0 .. MaxAddr /\ Address(addr, addr_len)
      /\ text_len = ((addr_len + 2) \div 3) * 4 /\ text_len \in Nat
      /\ text_len + 3 < SizeMod
  BY <1>2, TextLength DEF RoundTripInv
<1>4. /\ text' = Clear(block, IF from < addr_len THEN to + 4 ELSE to, text_len + 1)
      /\ ret' = IF from < addr_len THEN to + 4 ELSE to
  BY <1>2 DEF EncodeEnd
<1> HIDE DEF i
<1>5. /\ (IF from < addr_len THEN to + 4 ELSE to) = text_len
      /\ Holds(block, text_len + 1)
      /\ \A k \in 0 .. text_len - 1 : block[k] = RfcChar(addr, addr_len, k)
  <2>1. CASE from = addr_len
    <3>1. ~ (from < addr_len) /\ to = text_len
      BY <1>2, <1>3, <2>1, Base64Assumption
    <3> QED
      BY <1>2, <3>1
  <2>2. CASE from < addr_len
    <3>1. rest \in 1 .. 2 /\ addr_len = 3 * i + rest
      BY <1>1, <1>2, <1>3, <2>2, Base64Assumption
    <3>2. GroupOf(addr_len, i, rest)
      BY <1>2, <1>3, <3>1, Base64Assumption DEF GroupOf
    <3>3. to \in Nat /\ to + 4 = text_len /\ to + 4 <= text_len
      BY <1>2, <1>3, <3>1, Base64Assumption
    <3>4. \A k \in 0 .. 3 : q[k] = RfcChar(addr, addr_len, 4 * i + k) /\ q[k] \in Byte
      BY <1>3, <3>2, TailWritten
    <3> HIDE DEF q, rest
    <3>5. block = Write(text, to, q, 4)
      BY <2>2
    <3>6. /\ Holds(block, text_len + 1)
          /\ \A k \in 0 .. to - 1 : block[k] = text[k]
          /\ \A k \in 0 .. 3 : block[to + k] = q[k]
      BY <1>2, <1>3, <3>3, <3>4, <3>5, QuartetToText
    <3> HIDE DEF block
    <3>7. ASSUME NEW k \in 0 .. text_len - 1
          PROVE  block[k] = RfcChar(addr, addr_len, k)
      <4>1. CASE k < to
        <5>1. k \in 0 .. to - 1
          BY <3>3, <4>1
        <5> QED
          BY <1>2, <3>6, <5>1
      <4>2. CASE k >= to
        <5>1. k - to \in 0 .. 3 /\ to + (k - to) = k /\ 4 * i + (k - to) = k
          BY <1>2, <3>3, <4>2
        <5>2. block[to + (k - to)] = RfcChar(addr, addr_len, 4 * i + (k - to))
          BY <3>4, <3>6, <5>1
        <5> QED
          BY <5>1, <5>2
      <4> QED
        BY <3>3, <4>1, <4>2
    <3> QED
      BY <2>2, <3>3, <3>6, <3>7
  <2>3. from = addr_len \/ from < addr_len
    BY <1>2, <1>3, Base64Assumption
  <2> QED
    BY <2>1, <2>2, <2>3
<1> HIDE DEF q, rest, block
<1>6. ret' = text_len /\ text' = Clear(block, text_len, text_len + 1)
  BY <1>4, <1>5
<1>7. /\ Holds(text', text_len + 1)
      /\ \A k \in 0 .. text_len : text'[k] = IF k < text_len THEN block[k] ELSE NUL
  <2> DEFINE len == text_len + 1
  <2>1. Holds(block, len) /\ len < SizeMod /\ text_len \in 0 .. len
    BY <1>3, <1>5, Base64Assumption
  <2>2. 0 .. text_len = 0 .. len - 1
    BY <1>3
  <2> HIDE DEF len
  <2>3. /\ Holds(Clear(block, text_len, len), len)
        /\ \A k \in 0 .. len - 1 :
              Clear(block, text_len, len)[k] = IF k < text_len THEN block[k] ELSE NUL
    BY <2>1, ClearInside
  <2>4. text' = Clear(block, text_len, len)
    BY <1>6 DEF len
  <2>5. Holds(text', len) /\ \A k \in 0 .. text_len : text'[k] = IF k < text_len THEN block[k] ELSE NUL
    BY <2>2, <2>3, <2>4
  <2> QED
    BY <2>5 DEF len
<1>8. \A k \in 0 .. text_len : text'[k] = IF k = text_len THEN NUL ELSE RfcChar(addr, addr_len, k)
  <2> TAKE k \in 0 .. text_len
  <2>1. CASE k = text_len
    BY <1>3, <1>7, <2>1
  <2>2. CASE k # text_len
    <3>1. k < text_len /\ k \in 0 .. text_len - 1
      BY <1>3, <2>2
    <3> QED
      BY <1>5, <1>7, <2>2, <3>1
  <2> QED
    BY <2>1, <2>2
<1>9. text' = [k \in 0 .. text_len |-> IF k = text_len THEN NUL
                                       ELSE RfcChar(addr, addr_len, k)]
  <2> DEFINE len == text_len + 1
  <2>1. 0 .. text_len = 0 .. len - 1
    BY <1>3
  <2>2. Holds(text', len)
    BY <1>7
  <2> HIDE DEF len
  <2>3. text' = [k \in 0 .. text_len |-> text'[k]]
    BY <2>1, <2>2 DEF Holds
  <2> QED
    BY <1>8, <2>3
<1>10. text' \in [0 .. text_len -> Byte]
  <2>1. \A k \in 0 .. text_len : k # text_len => RfcChar(addr, addr_len, k) \in Byte
    <3> SUFFICES ASSUME NEW k \in 0 .. text_len, k # text_len
                 PROVE  RfcChar(addr, addr_len, k) \in Byte
      OBVIOUS
    <3>1. k \in 0 .. ((addr_len + 2) \div 3) * 4 - 1
      BY <1>3
    <3> QED
      BY <1>3, <3>1, RfcCharIsByte
  <2>2. NUL \in Byte
    BY DEF NUL, Byte
  <2> QED
    BY <1>9, <2>1, <2>2
<1>11. InBounds'
  <2>1. 0 .. text_len = 0 .. text_len' - (IF FromClient' THEN 0 ELSE 1)
    BY <1>1, <1>2, <1>3 DEF FromClient
  <2> QED
    BY <1>1, <1>10, <2>1 DEF InBounds
<1>12. Shapes'
  BY <1>1, <1>2 DEF RoundTripInv, Shapes, FromClient
<1> QED
  BY <1>1, <1>6, <1>9, <1>11, <1>12
     DEF RoundTripInv, EncodesRfc4648, EncodedSoFar, TextIsEncoded, DecodedSoFar, RoundTrip

-----------------------------------------------------------------------------
(* The steps of the decoder.                                               *)

(* Three bytes written to a block, as four characters are to a text. *)
LEMMA TripletToBlock ==
    ASSUME NEW block, NEW len, Holds(block, len),
           NEW offset \in Nat, offset + 3 <= len,
           NEW v, \A k \in 0 .. 2 : v[k] \in Byte
    PROVE  /\ Holds(Write(block, offset, v, 3), len)
           /\ \A k \in 0 .. offset - 1 : Write(block, offset, v, 3)[k] = block[k]
           /\ \A k \in 0 .. 2 : Write(block, offset, v, 3)[offset + k] = v[k]
<1> DEFINE n == 3
<1>1. n \in Nat /\ offset + n <= len /\ 2 = n - 1 /\ len \in Nat
  BY DEF Holds
<1>2. \A k \in 0 .. n - 1 : v[k] \in Byte
  BY <1>1
<1> HIDE DEF n
<1> DEFINE new == Write(block, offset, v, n)
<1>3. /\ Holds(new, len)
      /\ \A k \in 0 .. len - 1 :
            new[k] = IF k \in offset .. offset + n - 1 THEN v[k - offset] ELSE block[k]
  BY <1>1, <1>2, WriteInside
<1> HIDE DEF new
<1>4. ASSUME NEW k \in 0 .. offset - 1 PROVE new[k] = block[k]
  <2>1. k \in 0 .. len - 1 /\ k \notin offset .. offset + n - 1
    BY <1>1
  <2> QED
    BY <1>3, <2>1
<1>5. ASSUME NEW k \in 0 .. 2 PROVE new[offset + k] = v[k]
  <2>1. /\ offset + k \in 0 .. len - 1
        /\ offset + k \in offset .. offset + n - 1
        /\ (offset + k) - offset = k
    BY <1>1 DEF n
  <2> QED
    BY <1>3, <2>1
<1> QED
  BY <1>3, <1>4, <1>5 DEF n, new

(* Where the decoder stands. *)
LEMMA WhileDecoding ==
    ASSUME RoundTripInv, pc = "decode"
    PROVE  /\ text_len \in Nat
           /\ base64_decoded_length(text_len) = ((text_len + 3) \div 4) * 3
           /\ base64_decoded_length(text_len) < SizeMod
           /\ Holds(out, base64_decoded_length(text_len))
           /\ \A k \in 0 .. text_len - 1 : text[k] \in Byte
           /\ from \div 4 \in Nat
           /\ from = 4 * (from \div 4)
           /\ to = 3 * (from \div 4)
           /\ from <= text_len
           /\ from = text_len => text_len = 0
           /\ SizeT(text_len - from) = text_len - from
           /\ \A k \in 0 .. to - 1 :
                 /\ out[k] \in Byte
                 /\ FromClient => k < addr_len /\ out[k] = addr[k]
<1>1. text_len \in Nat /\ text_len + 3 < SizeMod
  <2>1. CASE FromClient
    BY <2>1, TextLength DEF RoundTripInv
  <2>2. CASE ~ FromClient
    <3>1. addr_len = -1
      BY <2>2 DEF FromClient
    <3>2. base64_encoded_length(addr_len) = 0
      <4>1. SizeT(-1 + 2) = 1
        BY SizeTSmall, Base64Assumption
      <4>2. SizeT((1 \div 3) * 4) = 0
        BY SizeTSmall, Base64Assumption
      <4> QED
        BY <3>1, <4>1, <4>2 DEF base64_encoded_length
    <3> QED
      BY <3>2, Base64Assumption DEF RoundTripInv, Shapes
  <2> QED
    BY <2>1, <2>2
<1>2. base64_decoded_length(text_len) = ((text_len + 3) \div 4) * 3
  BY <1>1, DecodedLength
<1>3. ((text_len + 3) \div 4) * 3 \in Nat /\ ((text_len + 3) \div 4) * 3 < SizeMod
  BY <1>1, Base64Assumption
<1>4. Holds(out, base64_decoded_length(text_len))
  <2> DEFINE size == base64_decoded_length(text_len)
  <2>1. size \in Nat
    BY <1>2, <1>3
  <2>2. out \in [0 .. size - 1 -> Byte \cup {Unset}]
    BY DEF RoundTripInv, InBounds
  <2> HIDE DEF size
  <2>3. Holds(out, size)
    BY <2>1, <2>2 DEF Holds, Cell
  <2> QED
    BY <2>3 DEF size
<1>5. \A k \in 0 .. text_len - 1 : text[k] \in Byte
  <2> DEFINE D == 0 .. text_len - (IF FromClient THEN 0 ELSE 1)
  <2>1. text \in [D -> Byte]
    BY DEF RoundTripInv, InBounds
  <2>2. \A k \in 0 .. text_len - 1 : k \in D
    <3>1. CASE FromClient
      BY <1>1, <3>1
    <3>2. CASE ~ FromClient
      BY <1>1, <3>2
    <3> QED
      BY <3>1, <3>2
  <2> HIDE DEF D
  <2> QED
    BY <2>1, <2>2
<1>6. /\ from \in 0 .. text_len /\ (from = text_len => text_len = 0)
      /\ from % 4 = 0 /\ to = 3 * (from \div 4)
      /\ \A k \in 0 .. to - 1 :
            /\ out[k] \in Byte
            /\ FromClient => k < addr_len /\ out[k] = addr[k]
  BY DEF RoundTripInv, DecodedSoFar
<1>7. from \div 4 \in Nat /\ from = 4 * (from \div 4)
  BY <1>1, <1>6
<1>8. text_len - from \in Nat /\ text_len - from < SizeMod
  BY <1>1, <1>6, Base64Assumption
<1>9. from <= text_len
  BY <1>1, <1>6
<1> QED
  BY <1>1, <1>2, <1>3, <1>4, <1>5, <1>6, <1>7, <1>8, <1>9, SizeTSmall

(* The client's text, group by group. *)
LEMMA ClientGroup ==
    ASSUME RoundTripInv, pc = "decode", FromClient,
           NEW i, NEW rest, GroupOf(addr_len, i, rest)
    PROVE  \A k \in 0 .. 3 :
              text[4 * i + k] = IF k <= rest
                                THEN base64_encode_triplet(Triple(addr, i, rest))[k]
                                ELSE Pad
<1>1. /\ Address(addr, addr_len) /\ addr_len \in 0 .. MaxAddr
      /\ text_len = ((addr_len + 2) \div 3) * 4
  BY TextLength DEF RoundTripInv
<1>2. text = [k \in 0 .. text_len |-> IF k = text_len THEN NUL
                                      ELSE RfcChar(addr, addr_len, k)]
  BY DEF RoundTripInv, TextIsEncoded
<1>3. \A k \in 0 .. 3 : 4 * i + k \in 0 .. text_len /\ 4 * i + k # text_len
  BY <1>1, Base64Assumption DEF GroupOf
<1>4. \A k \in 0 .. 3 : text[4 * i + k] = RfcChar(addr, addr_len, 4 * i + k)
  BY <1>2, <1>3
<1> QED
  BY <1>1, <1>4, RfcGroup

LEMMA ReceiveStep ==
    ASSUME RoundTripInv, Receive
    PROVE  RoundTripInv'
<1>1. /\ pc = "receive" /\ pc' = "decode"
      /\ out' \in Block(base64_decoded_length(text_len))
      /\ from' = 0 /\ to' = 0
      /\ UNCHANGED <<addr, addr_len, text, text_len, ret>>
  BY DEF Receive
<1>2. FromClient' <=> FromClient
  BY <1>1 DEF FromClient
<1>3. text_len \in Nat
  <2>1. CASE FromClient
    BY <2>1, TextLength DEF RoundTripInv
  <2>2. CASE ~ FromClient
    <3>1. addr_len = -1 /\ SizeT(-1 + 2) = 1 /\ SizeT((1 \div 3) * 4) = 0
      BY <2>2, SizeTSmall, Base64Assumption DEF FromClient
    <3>2. base64_encoded_length(addr_len) = 0
      BY <3>1 DEF base64_encoded_length
    <3> QED
      BY <3>2, Base64Assumption DEF RoundTripInv, Shapes
  <2> QED
    BY <2>1, <2>2
<1>4. InBounds'
  <2> DEFINE D == 0 .. text_len - (IF FromClient THEN 0 ELSE 1)
             size == base64_decoded_length(text_len)
  <2>1. text \in [D -> Byte]
    BY <1>1 DEF RoundTripInv, InBounds
  <2>2. out' \in [0 .. size - 1 -> Byte \cup {Unset}]
    BY <1>1 DEF Block
  <2>3. D' = D /\ size' = size
    BY <1>1, <1>2
  <2> HIDE DEF D, size
  <2>4. text' \in [D' -> Byte] /\ out' \in [0 .. size' - 1 -> Byte \cup {Unset}]
    BY <1>1, <2>1, <2>2, <2>3
  <2> QED
    BY <1>1, <2>4 DEF InBounds, D, size
<1>5. DecodedSoFar'
  <2>1. 0 \in 0 .. text_len /\ 0 % 4 = 0 /\ 0 = 3 * (0 \div 4)
    BY <1>3
  <2> QED
    BY <1>1, <1>3, <2>1 DEF DecodedSoFar
<1>6. TextIsEncoded'
  BY <1>1, <1>2 DEF RoundTripInv, TextIsEncoded
<1>7. Shapes'
  BY <1>1, <1>2 DEF RoundTripInv, Shapes
<1> QED
  BY <1>1, <1>4, <1>5, <1>6, <1>7
     DEF RoundTripInv, EncodesRfc4648, EncodedSoFar, RoundTrip

(* The bytes a group of the client's text decodes to. *)
LEMMA GroupOfClient ==
    ASSUME RoundTripInv, pc = "decode", FromClient, text_len - from > 4
    PROVE  /\ GroupOf(addr_len, from \div 4, 3)
           /\ Slice(text, from, 4) = base64_encode_triplet(Triple(addr, from \div 4, 3))
<1> DEFINE i == from \div 4
           q == base64_encode_triplet(Triple(addr, i, 3))
<1>1. /\ Address(addr, addr_len) /\ addr_len \in 0 .. MaxAddr
      /\ text_len = ((addr_len + 2) \div 3) * 4
  BY TextLength DEF RoundTripInv
<1>2. i \in Nat /\ from = 4 * i
  BY WhileDecoding
<1> HIDE DEF i
<1>3. GroupOf(addr_len, i, 3)
  BY <1>1, <1>2, Base64Assumption DEF GroupOf
<1>4. \A k \in 0 .. 3 : text[4 * i + k] = IF k <= 3 THEN q[k] ELSE Pad
  BY <1>3, ClientGroup
<1>5. q = [k \in 0 .. 3 |-> q[k]]
  BY DEF base64_encode_triplet
<1> HIDE DEF q
<1>6. \A k \in 0 .. 3 : text[from + k] = q[k]
  BY <1>2, <1>4
<1>7. Slice(text, from, 4) = [k \in 0 .. 3 |-> text[from + k]]
  BY DEF Slice
<1> QED
  BY <1>3, <1>5, <1>6, <1>7 DEF i, q

LEMMA DecodeQuartetStep ==
    ASSUME RoundTripInv, DecodeQuartet
    PROVE  RoundTripInv'
<1> DEFINE i == from \div 4
           q == Slice(text, from, 4)
           v == base64_decode_quartet(q)
           size == base64_decoded_length(text_len)
<1>1. /\ pc = "decode" /\ pc' = "decode"
      /\ SizeT(text_len - from) > 4
      /\ Decodable(q)
      /\ out' = Write(out, to, v, 3)
      /\ from' = from + 4 /\ to' = to + 3
      /\ UNCHANGED <<addr, addr_len, text, text_len, ret>>
  BY DEF DecodeQuartet
<1>2. FromClient' <=> FromClient
  BY <1>1 DEF FromClient
<1>3. /\ text_len \in Nat /\ size = ((text_len + 3) \div 4) * 3
      /\ Holds(out, size)
      /\ \A k \in 0 .. text_len - 1 : text[k] \in Byte
      /\ i \in Nat /\ from = 4 * i /\ to = 3 * i
      /\ SizeT(text_len - from) = text_len - from
      /\ \A k \in 0 .. to - 1 :
            /\ out[k] \in Byte
            /\ FromClient => k < addr_len /\ out[k] = addr[k]
  BY <1>1, WhileDecoding
<1>4. text_len - from > 4
  BY <1>1, <1>3
<1>5. FromClient => GroupOf(addr_len, i, 3) /\ q = base64_encode_triplet(Triple(addr, i, 3))
  BY <1>1, <1>4, GroupOfClient
<1> HIDE DEF i
<1>6. \A k \in 0 .. 3 : q[k] \in Byte
  <2>1. \A k \in 0 .. 3 : from + k \in 0 .. text_len - 1
    BY <1>3, <1>4
  <2>2. \A k \in 0 .. 3 : q[k] = text[from + k]
    BY DEF Slice
  <2> QED
    BY <1>3, <2>1, <2>2
<1>7. \A k \in 0 .. 2 : v[k] \in Byte
  <2> HIDE DEF q
  <2> QED
    BY <1>1, <1>6, QuartetInRange
<1>8. to \in Nat /\ to + 3 <= size
  BY <1>3, <1>4
<1> HIDE DEF q, size
<1>9. FromClient => \A k \in 0 .. 2 : 3 * i + k < addr_len /\ v[k] = addr[3 * i + k]
  <2> SUFFICES ASSUME FromClient
               PROVE  \A k \in 0 .. 2 : 3 * i + k < addr_len /\ v[k] = addr[3 * i + k]
    OBVIOUS
  <2> DEFINE t == Triple(addr, i, 3)
  <2>1. Address(addr, addr_len) /\ GroupOf(addr_len, i, 3)
    BY <1>5, TextLength DEF RoundTripInv
  <2>2. t \in Triplet
    BY <2>1, TripleType
  <2>3. \A k \in 0 .. 2 : t[k] = addr[3 * i + k]
    BY DEF Triple
  <2> HIDE DEF t
  <2>4. v = t
    BY <1>5, <2>2, QuartetDecodes DEF t
  <2>5. \A k \in 0 .. 2 : 3 * i + k < addr_len
    BY <2>1 DEF GroupOf
  <2> QED
    BY <2>3, <2>4, <2>5
<1> HIDE DEF v
<1>10. /\ Holds(out', size)
       /\ \A k \in 0 .. to - 1 : out'[k] = out[k]
       /\ \A k \in 0 .. 2 : out'[to + k] = v[k]
  <2>1. Holds(out, size) /\ out' = Write(out, to, v, 3)
    BY <1>1, <1>3
  <2>2. /\ Holds(Write(out, to, v, 3), size)
        /\ \A k \in 0 .. to - 1 : Write(out, to, v, 3)[k] = out[k]
        /\ \A k \in 0 .. 2 : Write(out, to, v, 3)[to + k] = v[k]
    BY <1>7, <1>8, <2>1, TripletToBlock
  <2> QED
    BY <2>1, <2>2
<1>11. InBounds'
  <2> DEFINE D == 0 .. text_len - (IF FromClient THEN 0 ELSE 1)
  <2>1. text \in [D -> Byte]
    BY <1>1 DEF RoundTripInv, InBounds
  <2>2. out' \in [0 .. size - 1 -> Byte \cup {Unset}]
    BY <1>10 DEF Holds, Cell
  <2>3. D' = D /\ base64_decoded_length(text_len)' = size
    BY <1>1, <1>2 DEF size
  <2> HIDE DEF D
  <2>4. text' \in [D' -> Byte]
    BY <1>1, <2>1, <2>3
  <2> QED
    BY <1>1, <2>2, <2>3, <2>4 DEF InBounds, D
<1>12. ASSUME NEW k \in 0 .. to' - 1
       PROVE  /\ out'[k] \in Byte
              /\ FromClient => k < addr_len /\ out'[k] = addr[k]
  <2>1. k \in Int /\ to \in Int
    BY <1>1, <1>8
  <2>2. CASE k < to
    <3>1. k \in 0 .. to - 1
      BY <1>8, <2>2
    <3> QED
      BY <1>3, <1>10, <3>1
  <2>3. CASE k >= to
    <3>1. k - to \in 0 .. 2 /\ to + (k - to) = k /\ 3 * i + (k - to) = k
      BY <1>1, <1>3, <1>8, <2>3
    <3>2. out'[to + (k - to)] = v[k - to] /\ v[k - to] \in Byte
      BY <1>7, <1>10, <3>1
    <3>3. FromClient => 3 * i + (k - to) < addr_len /\ v[k - to] = addr[3 * i + (k - to)]
      BY <1>9, <3>1
    <3> QED
      BY <3>1, <3>2, <3>3
  <2> QED
    BY <2>1, <2>2, <2>3
<1>13. DecodedSoFar'
  <2>1. /\ from' \in 0 .. text_len /\ from' # text_len
        /\ from' % 4 = 0 /\ to' = 3 * (from' \div 4)
    BY <1>1, <1>3, <1>4
  <2>2. \A k \in 0 .. to' - 1 :
           /\ out'[k] \in Byte
           /\ FromClient => k < addr_len /\ out'[k] = addr[k]
    BY <1>12
  <2>3. \A k \in 0 .. to' - 1 :
           /\ out'[k] \in Byte
           /\ FromClient' => k < addr_len' /\ out'[k] = addr'[k]
    BY <1>1, <1>2, <2>2
  <2> QED
    BY <1>1, <2>1, <2>3 DEF DecodedSoFar
<1>14. TextIsEncoded'
  BY <1>1, <1>2 DEF RoundTripInv, TextIsEncoded
<1>15. Shapes'
  BY <1>1, <1>2 DEF RoundTripInv, Shapes
<1> QED
  BY <1>1, <1>11, <1>13, <1>14, <1>15
     DEF RoundTripInv, EncodesRfc4648, EncodedSoFar, RoundTrip

(* Only a text that is not a client's may be rejected. *)
LEMMA RejectStep ==
    ASSUME RoundTripInv, pc = "decode", Reject, ~ FromClient
    PROVE  RoundTripInv'
<1>1. pc' = "threw" /\ UNCHANGED <<addr, addr_len, text, text_len>>
  BY DEF Reject
<1>2. FromClient' <=> FromClient
  BY <1>1 DEF FromClient
<1>3. InBounds'
  <2> DEFINE D == 0 .. text_len - (IF FromClient THEN 0 ELSE 1)
  <2>1. text \in [D -> Byte]
    BY <1>1 DEF RoundTripInv, InBounds
  <2>2. D' = D
    BY <1>1, <1>2
  <2> HIDE DEF D
  <2>3. text' \in [D' -> Byte]
    BY <1>1, <2>1, <2>2
  <2> QED
    BY <1>1, <2>3 DEF InBounds, D
<1>4. Shapes'
  BY <1>1, <1>2 DEF RoundTripInv, Shapes
<1> QED
  BY <1>1, <1>2, <1>3, <1>4
     DEF RoundTripInv, EncodesRfc4648, EncodedSoFar, TextIsEncoded, DecodedSoFar, RoundTrip

LEMMA DecodeRejectStep ==
    ASSUME RoundTripInv, DecodeReject
    PROVE  RoundTripInv'
<1>1. /\ pc = "decode" /\ Reject
      /\ SizeT(text_len - from) > 4
      /\ ~ Decodable(Slice(text, from, 4))
  BY DEF DecodeReject
<1>2. ~ FromClient
  <2> SUFFICES ASSUME FromClient PROVE FALSE
    OBVIOUS
  <2> DEFINE t == Triple(addr, from \div 4, 3)
  <2>1. SizeT(text_len - from) = text_len - from
    BY <1>1, WhileDecoding
  <2>2. GroupOf(addr_len, from \div 4, 3) /\ Slice(text, from, 4) = base64_encode_triplet(t)
    BY <1>1, <2>1, GroupOfClient
  <2>3. t \in Triplet
    BY <2>2, TripleType, TextLength DEF RoundTripInv
  <2> HIDE DEF t
  <2> QED
    BY <1>1, <2>2, <2>3, QuartetDecodes
<1> QED
  BY <1>1, <1>2, RejectStep

(* The tail of the client's text: its letters are those of the last bytes,
   and its padding, read as 'A', completes them. *)
LEMMA TailOfClient ==
    ASSUME RoundTripInv, pc = "decode", FromClient, text_len - from <= 4, addr_len # 0
    PROVE  LET i    == from \div 4
               rest == addr_len - 3 * i
               q    == base64_encode_triplet(Triple(addr, i, rest))
               tail == Slice(text, from, 4)
           IN  /\ GroupOf(addr_len, i, rest)
               /\ text_len - from = 4
               /\ Insize(tail, 4) = rest + 1
               /\ \A k \in 0 .. rest : decode_map[tail[k]] # -1
               /\ [k \in 0 .. 3 |-> IF k < rest + 1 THEN tail[k] ELSE A] = q
<1> DEFINE i    == from \div 4
           rest == addr_len - 3 * i
           q    == base64_encode_triplet(Triple(addr, i, rest))
           tail == Slice(text, from, 4)
<1>1. /\ Address(addr, addr_len) /\ addr_len \in 0 .. MaxAddr
      /\ text_len = ((addr_len + 2) \div 3) * 4
  BY TextLength DEF RoundTripInv
<1>2. i \in Nat /\ from = 4 * i /\ from <= text_len /\ from # text_len
  BY <1>1, WhileDecoding, Base64Assumption
<1> HIDE DEF i
<1>3. rest \in 1 .. 3 /\ text_len - from = 4 /\ addr_len = 3 * i + rest
  BY <1>1, <1>2, Base64Assumption
<1> HIDE DEF rest
<1>4. GroupOf(addr_len, i, rest)
  BY <1>1, <1>2, <1>3, Base64Assumption DEF GroupOf
<1>5. /\ \A k \in 0 .. 3 : q[k] # Pad
      /\ Decodable(q) /\ DOMAIN q = 0 .. 3
      /\ q = [k \in 0 .. 3 |-> q[k]]
  <2>1. Triple(addr, i, rest) \in Triplet
    BY <1>1, <1>4, TripleType
  <2>2. q = [k \in 0 .. 3 |-> q[k]]
    BY DEF base64_encode_triplet
  <2> QED
    BY <2>1, <2>2, QuartetDecodes
<1>6. \A k \in 0 .. 3 : k > rest => q[k] = A
  BY <1>1, <1>4, PaddingIsA
<1> HIDE DEF q
<1>7. \A k \in 0 .. 3 : text[4 * i + k] = IF k <= rest THEN q[k] ELSE Pad
  BY <1>4, ClientGroup DEF q
<1>8. \A k \in 0 .. 3 : tail[k] = IF k <= rest THEN q[k] ELSE Pad
  <2>1. \A k \in 0 .. 3 : tail[k] = text[from + k]
    BY DEF Slice
  <2>2. \A k \in 0 .. 3 : text[from + k] = IF k <= rest THEN q[k] ELSE Pad
    BY <1>2, <1>7
  <2> QED
    BY <2>1, <2>2
<1> HIDE DEF tail
<1>9. Insize(tail, 4) = rest + 1
  <2> DEFINE n == Insize(tail, 4)
  <2>1. /\ n \in 0 .. 4
        /\ n # 0 => tail[n - 1] # Pad
        /\ \A k \in n .. 3 : tail[k] = Pad
    <3>1. 4 \in 0 .. 4 /\ 4 - 1 = 3
      OBVIOUS
    <3> QED
      BY <3>1, InsizeExists
  <2> HIDE DEF n
  <2>2. n > rest
    <3> SUFFICES ASSUME ~ (n > rest) PROVE FALSE
      OBVIOUS
    <3>1. rest \in n .. 3 /\ rest \in 0 .. 3 /\ rest <= rest
      BY <1>3, <2>1
    <3>2. tail[rest] = Pad /\ tail[rest] = q[rest]
      BY <1>8, <2>1, <3>1
    <3> QED
      BY <1>5, <3>1, <3>2
  <2>3. n <= rest + 1
    <3> SUFFICES ASSUME ~ (n <= rest + 1) PROVE FALSE
      OBVIOUS
    <3>1. n - 1 \in 0 .. 3 /\ ~ (n - 1 <= rest) /\ n # 0
      BY <1>3, <2>1
    <3>2. tail[n - 1] = Pad
      BY <1>8, <3>1
    <3> QED
      BY <2>1, <3>1, <3>2
  <2>4. n = rest + 1
    BY <1>3, <2>1, <2>2, <2>3
  <2> QED
    BY <2>4 DEF n
<1>10. \A k \in 0 .. rest : decode_map[tail[k]] # -1
  <2>1. \A k \in 0 .. rest : k \in 0 .. 3 /\ k <= rest
    BY <1>3
  <2>2. \A k \in 0 .. rest : tail[k] = q[k]
    BY <1>8, <2>1
  <2> QED
    BY <1>5, <2>1, <2>2 DEF Decodable
<1>11. [k \in 0 .. 3 |-> IF k < rest + 1 THEN tail[k] ELSE A] = q
  <2>1. \A k \in 0 .. 3 : (k < rest + 1 <=> k <= rest) /\ (k > rest <=> ~ (k <= rest))
    BY <1>3
  <2>2. \A k \in 0 .. 3 : (IF k < rest + 1 THEN tail[k] ELSE A) = q[k]
    BY <1>6, <1>8, <2>1
  <2>3. [k \in 0 .. 3 |-> IF k < rest + 1 THEN tail[k] ELSE A] = [k \in 0 .. 3 |-> q[k]]
    BY <2>2
  <2> QED
    BY <1>5, <2>3
<1> QED
  BY <1>3, <1>4, <1>9, <1>10, <1>11 DEF i, rest, q, tail

(* The end of decoding, with the names of DecodeEnd. *)
TailLength == SizeT(text_len - from)
Tail == Slice(text, from, TailLength)
TailInsize == Insize(Tail, TailLength)
TailBytes == IF TailInsize = 0 THEN 0 ELSE TailInsize - 1
Long == [k \in 0 .. 3 |-> IF k < TailInsize THEN Tail[k] ELSE A]
Last == base64_decode_quartet(Long)
Size == base64_decoded_length(text_len)
Decoded == IF TailInsize = 0 THEN out ELSE Write(out, to, Last, 3)

LEMMA DecodeEndCases ==
    ASSUME DecodeEnd
    PROVE  /\ pc = "decode" /\ TailLength <= 4
           /\ Malformed(Tail, TailInsize) => Reject
           /\ ~ Malformed(Tail, TailInsize) =>
                 /\ out' = Clear(Decoded, to + TailBytes, Size)
                 /\ ret' = to + TailBytes
                 /\ pc' = "done"
                 /\ UNCHANGED <<addr, addr_len, text, text_len, from, to>>
BY DEF DecodeEnd, TailLength, Tail, TailInsize, TailBytes, Long, Last, Size, Decoded

(* The decoder's last write: where it ends, and what it leaves in the block. *)
LEMMA LastTripletWritten ==
    ASSUME RoundTripInv, pc = "decode", TailLength <= 4, ~ Malformed(Tail, TailInsize)
    PROVE  /\ Size \in Nat /\ Size < SizeMod
           /\ to \in Nat /\ to + TailBytes \in 0 .. Size
           /\ TailBytes \in 0 .. 3
           /\ Holds(Decoded, Size)
           /\ \A k \in 0 .. to - 1 : Decoded[k] = out[k]
           /\ \A k \in 0 .. 2 : k < TailBytes =>
                 Decoded[to + k] = Last[k] /\ Last[k] \in Byte
<1> DEFINE i == from \div 4
<1>1. /\ text_len \in Nat /\ Size = ((text_len + 3) \div 4) * 3 /\ Size < SizeMod
      /\ Holds(out, Size)
      /\ \A k \in 0 .. text_len - 1 : text[k] \in Byte
      /\ i \in Nat /\ from = 4 * i /\ to = 3 * i /\ from <= text_len
      /\ TailLength = text_len - from
  BY WhileDecoding DEF Size, TailLength
<1> HIDE DEF i
<1>2. TailLength \in 0 .. 4
  BY <1>1
<1>3. /\ TailInsize \in 0 .. TailLength
  BY <1>2, InsizeExists DEF TailInsize
<1>4. \A k \in 0 .. TailLength - 1 : Tail[k] \in Byte
  <2>1. \A k \in 0 .. TailLength - 1 : from + k \in 0 .. text_len - 1
    BY <1>1
  <2>2. \A k \in 0 .. TailLength - 1 : Tail[k] = text[from + k]
    BY DEF Tail, Slice
  <2> QED
    BY <1>1, <2>1, <2>2
<1>5. CASE TailInsize = 0
  <2>1. TailBytes = 0 /\ Decoded = out
    BY <1>5 DEF TailBytes, Decoded
  <2>2. to \in Nat /\ to + TailBytes \in 0 .. Size /\ Size \in Nat /\ TailBytes \in 0 .. 3
    BY <1>1, <2>1
  <2>3. \A k \in 0 .. 2 : ~ (k < TailBytes)
    BY <2>1
  <2> QED
    BY <1>1, <2>1, <2>2, <2>3
<1>6. CASE TailInsize # 0
  <2>1. /\ TailInsize \in 2 .. 4
        /\ \A k \in 0 .. TailInsize - 1 : decode_map[Tail[k]] # -1
    BY <1>2, <1>3, <1>6 DEF Malformed
  <2>2. TailBytes = TailInsize - 1 /\ Decoded = Write(out, to, Last, 3)
    BY <1>6 DEF TailBytes, Decoded
  <2>3. /\ to \in Nat /\ to + 3 <= Size /\ Size \in Nat
        /\ TailBytes \in 1 .. 3 /\ to + TailBytes \in 0 .. Size
    BY <1>1, <1>2, <1>3, <2>1, <2>2
  <2>4. A \in Byte /\ decode_map[A] # -1
    <3>1. 0 \in Sixbit /\ encode_map[0] = A
      BY DEF encode_map, Sixbit, A
    <3> QED
      BY <3>1, LettersDiffer, LetterDecoded
  <2>5. \A k \in 0 .. 3 : Long[k] = IF k < TailInsize THEN Tail[k] ELSE A
    BY DEF Long
  <2>6. \A k \in 0 .. 3 : k < TailInsize => k \in 0 .. TailInsize - 1 /\ k \in 0 .. TailLength - 1
    BY <1>2, <1>3
  <2>7. \A k \in 0 .. 3 : Long[k] \in Byte /\ decode_map[Long[k]] # -1
    BY <1>4, <2>1, <2>4, <2>5, <2>6
  <2>8. \A k \in 0 .. 2 : Last[k] \in Byte
    <3>1. Decodable(Long)
      BY <2>7 DEF Decodable
    <3> QED
      BY <2>7, <3>1, QuartetInRange DEF Last
  <2>9. /\ Holds(Write(out, to, Last, 3), Size)
        /\ \A k \in 0 .. to - 1 : Write(out, to, Last, 3)[k] = out[k]
        /\ \A k \in 0 .. 2 : Write(out, to, Last, 3)[to + k] = Last[k]
    <3>1. Holds(out, Size)
      BY <1>1
    <3> QED
      BY <2>3, <2>8, <3>1, TripletToBlock
  <2>10. TailBytes \in 0 .. 3
    BY <2>3
  <2> QED
    BY <1>1, <2>2, <2>3, <2>8, <2>9, <2>10
<1> QED
  BY <1>5, <1>6

(* The block that set_remote_addr is given. *)
LEMMA DecodedBlock ==
    ASSUME RoundTripInv, DecodeEnd, ~ Malformed(Tail, TailInsize)
    PROVE  /\ Size \in Nat /\ to \in Nat /\ TailBytes \in 0 .. 3 /\ to + TailBytes <= Size
           /\ out' \in [0 .. Size - 1 -> Byte]
           /\ \A k \in 0 .. Size - 1 :
                 out'[k] = IF k < to THEN out[k]
                           ELSE IF k < to + TailBytes THEN Last[k - to]
                           ELSE NUL
<1> DEFINE end == to + TailBytes
<1>1. /\ pc = "decode" /\ TailLength <= 4
      /\ out' = Clear(Decoded, end, Size)
  BY DecodeEndCases
<1>2. /\ Size \in Nat /\ Size < SizeMod
      /\ to \in Nat /\ end \in 0 .. Size /\ TailBytes \in 0 .. 3
      /\ Holds(Decoded, Size)
      /\ \A k \in 0 .. to - 1 : Decoded[k] = out[k]
      /\ \A k \in 0 .. 2 : k < TailBytes => Decoded[to + k] = Last[k] /\ Last[k] \in Byte
  BY <1>1, LastTripletWritten
<1>3. \A k \in 0 .. to - 1 : out[k] \in Byte
  BY <1>1, WhileDecoding
<1> HIDE DEF end
<1>4. /\ Holds(out', Size)
      /\ \A k \in 0 .. Size - 1 : out'[k] = IF k < end THEN Decoded[k] ELSE NUL
  BY <1>1, <1>2, ClearInside
<1>5. NUL \in Byte
  BY DEF NUL, Byte
<1>6. ASSUME NEW k \in 0 .. Size - 1
      PROVE  /\ out'[k] \in Byte
             /\ out'[k] = IF k < to THEN out[k] ELSE IF k < end THEN Last[k - to] ELSE NUL
  <2>1. k \in Nat /\ to \in Nat /\ end \in Nat /\ to <= end
    BY <1>2 DEF end
  <2>2. CASE k < to
    <3>1. k \in 0 .. to - 1 /\ k < end
      BY <2>1, <2>2
    <3> QED
      BY <1>2, <1>3, <1>4, <2>2, <3>1
  <2>3. CASE k >= to /\ k < end
    <3>1. k - to \in 0 .. 2 /\ k - to < TailBytes /\ to + (k - to) = k /\ ~ (k < to)
      BY <1>2, <2>1, <2>3 DEF end
    <3>2. Decoded[to + (k - to)] = Last[k - to] /\ Last[k - to] \in Byte
      BY <1>2, <3>1
    <3>3. Decoded[k] = Last[k - to]
      BY <3>1, <3>2
    <3> QED
      BY <1>4, <2>3, <3>1, <3>2, <3>3
  <2>4. CASE k >= end
    <3>1. ~ (k < to) /\ ~ (k < end)
      BY <2>1, <2>4
    <3> QED
      BY <1>4, <1>5, <3>1
  <2> QED
    BY <2>1, <2>2, <2>3, <2>4
<1>7. out' \in [0 .. Size - 1 -> Byte]
  BY <1>4, <1>6 DEF Holds
<1>8. end <= Size
  BY <1>2
<1> QED
  BY <1>2, <1>6, <1>7, <1>8 DEF end

(* A client's tail is never rejected, and completes its address. *)
LEMMA ClientDecoded ==
    ASSUME RoundTripInv, DecodeEnd, FromClient
    PROVE  /\ ~ Malformed(Tail, TailInsize)
           /\ ret' = addr_len
           /\ \A k \in 0 .. Size - 1 : out'[k] = At(addr, k, addr_len)
<1> DEFINE i == from \div 4
           rest == addr_len - 3 * i
           t == Triple(addr, i, rest)
<1>1. /\ pc = "decode" /\ TailLength <= 4
      /\ ~ Malformed(Tail, TailInsize) => ret' = to + TailBytes
  BY DecodeEndCases
<1>2. /\ text_len \in Nat /\ TailLength = text_len - from
      /\ i \in Nat /\ from = 4 * i /\ to = 3 * i /\ from <= text_len
      /\ \A k \in 0 .. to - 1 : k < addr_len /\ out[k] = addr[k]
      /\ Size = ((text_len + 3) \div 4) * 3
  BY <1>1, WhileDecoding DEF TailLength, Size
<1>3. /\ Address(addr, addr_len) /\ addr_len \in Nat
      /\ text_len = ((addr_len + 2) \div 3) * 4
  BY TextLength, Base64Assumption DEF RoundTripInv
<1>4. CASE addr_len = 0
  <2>1. text_len = 0 /\ from = 0 /\ to = 0 /\ TailLength = 0 /\ Size = 0
    BY <1>2, <1>3, <1>4
  <2>2. TailInsize = 0
    BY <2>1, InsizeExists DEF TailInsize
  <2>3. ~ Malformed(Tail, TailInsize)
    BY <2>2 DEF Malformed
  <2>4. TailBytes = 0
    BY <2>2 DEF TailBytes
  <2>5. ret' = addr_len
    BY <1>1, <1>4, <2>1, <2>3, <2>4
  <2> QED
    BY <2>1, <2>3, <2>5
<1>5. CASE addr_len # 0
  <2>1. /\ GroupOf(addr_len, i, rest)
        /\ TailLength = 4
        /\ TailInsize = rest + 1
        /\ \A k \in 0 .. rest : decode_map[Tail[k]] # -1
        /\ Long = base64_encode_triplet(t)
    <3>1. text_len - from <= 4
      BY <1>1, <1>2
    <3>2. /\ GroupOf(addr_len, i, rest)
          /\ text_len - from = 4
          /\ Insize(Slice(text, from, 4), 4) = rest + 1
          /\ \A k \in 0 .. rest : decode_map[Slice(text, from, 4)[k]] # -1
          /\ [k \in 0 .. 3 |-> IF k < rest + 1 THEN Slice(text, from, 4)[k] ELSE A]
                = base64_encode_triplet(t)
      BY <1>1, <1>5, <3>1, TailOfClient
    <3> HIDE DEF i, rest, t
    <3>3. TailLength = 4
      BY <1>2, <3>2
    <3> QED
      BY <3>2, <3>3 DEF Tail, TailInsize, Long
  <2> HIDE DEF i, t
  <2>2. rest \in 1 .. 3 /\ addr_len = 3 * i + rest
    BY <1>2, <1>3, <2>1 DEF GroupOf
  <2> HIDE DEF rest
  <2>3. ~ Malformed(Tail, TailInsize)
    <3>1. TailInsize # 1 /\ TailInsize - 1 = rest
      BY <2>1, <2>2
    <3> QED
      BY <2>1, <3>1 DEF Malformed
  <2>4. TailBytes = rest
    BY <2>1, <2>2 DEF TailBytes
  <2>5. to + TailBytes = addr_len /\ ret' = addr_len
    BY <1>1, <1>2, <2>2, <2>3, <2>4
  <2>6. Last = t
    <3>1. t \in Triplet
      BY <1>3, <2>1, TripleType DEF t
    <3> QED
      BY <2>1, <3>1, QuartetDecodes DEF Last
  <2>7. /\ Size \in Nat /\ to \in Nat
        /\ \A k \in 0 .. Size - 1 :
              out'[k] = IF k < to THEN out[k]
                        ELSE IF k < to + TailBytes THEN Last[k - to]
                        ELSE NUL
    BY <2>3, DecodedBlock
  <2>8. ASSUME NEW k \in 0 .. Size - 1
        PROVE  out'[k] = At(addr, k, addr_len)
    <3>0. k \in Nat /\ to \in Nat /\ to <= addr_len
      BY <1>2, <2>2, <2>7
    <3>1. CASE k < to
      <4>1. k \in 0 .. to - 1
        BY <3>0, <3>1
      <4>2. out'[k] = addr[k] /\ k < addr_len
        BY <1>2, <2>7, <3>1, <4>1
      <4> QED
        BY <4>2 DEF At
    <3>2. CASE k >= to /\ k < addr_len
      <4>1. k - to \in 0 .. 2 /\ k - to < rest /\ 3 * i + (k - to) = k /\ ~ (k < to)
        BY <1>2, <2>2, <3>0, <3>2
      <4>2. out'[k] = t[k - to]
        BY <2>5, <2>6, <2>7, <3>2, <4>1
      <4>3. t[k - to] = addr[3 * i + (k - to)]
        BY <4>1 DEF t, Triple
      <4>4. out'[k] = addr[k]
        BY <4>1, <4>2, <4>3
      <4> QED
        BY <3>2, <4>4 DEF At
    <3>3. CASE k >= addr_len
      <4>1. ~ (k < to) /\ ~ (k < addr_len)
        BY <1>3, <3>0, <3>3
      <4>2. out'[k] = NUL
        BY <2>5, <2>7, <4>1
      <4> QED
        BY <4>1, <4>2 DEF At, NUL
    <3> QED
      BY <1>3, <3>0, <3>1, <3>2, <3>3
  <2> QED
    BY <2>3, <2>5, <2>8
<1> QED
  BY <1>4, <1>5

LEMMA DecodeEndStep ==
    ASSUME RoundTripInv, DecodeEnd
    PROVE  RoundTripInv'
<1>1. CASE Malformed(Tail, TailInsize)
  BY <1>1, ClientDecoded, DecodeEndCases, RejectStep
<1>2. CASE ~ Malformed(Tail, TailInsize)
  <2>1. /\ pc = "decode" /\ pc' = "done"
        /\ UNCHANGED <<addr, addr_len, text, text_len, from, to>>
    BY <1>2, DecodeEndCases
  <2>2. FromClient' <=> FromClient
    BY <2>1 DEF FromClient
  <2>3. out' \in [0 .. Size - 1 -> Byte]
    BY <1>2, DecodedBlock
  <2>4. InBounds'
    <3> DEFINE D == 0 .. text_len - (IF FromClient THEN 0 ELSE 1)
    <3>1. text \in [D -> Byte]
      BY <2>1 DEF RoundTripInv, InBounds
    <3>2. D' = D /\ base64_decoded_length(text_len)' = Size
      BY <2>1, <2>2 DEF Size
    <3> HIDE DEF D
    <3>3. text' \in [D' -> Byte]
      BY <2>1, <3>1, <3>2
    <3> QED
      BY <2>1, <2>3, <3>2, <3>3 DEF InBounds, D
  <2>5. RoundTrip'
    <3> SUFFICES ASSUME FromClient' PROVE RoundTrip'
      BY DEF RoundTrip
    <3>1. ret' = addr_len /\ \A k \in 0 .. Size - 1 : out'[k] = At(addr, k, addr_len)
      BY <2>2, ClientDecoded
    <3>2. \A k \in DOMAIN out' : out'[k] = At(addr, k, addr_len)
      BY <2>3, <3>1
    <3>3. \A k \in DOMAIN out' : out'[k] = At(addr, k, addr_len)'
      BY <2>1, <3>2 DEF At
    <3> QED
      BY <2>1, <3>1, <3>3 DEF RoundTrip
  <2>6. Shapes'
    BY <2>1, <2>2 DEF RoundTripInv, Shapes
  <2>7. TextIsEncoded'
    BY <2>1, <2>2 DEF RoundTripInv, TextIsEncoded
  <2> QED
    BY <2>1, <2>4, <2>5, <2>6, <2>7
       DEF RoundTripInv, EncodesRfc4648, EncodedSoFar, DecodedSoFar
<1> QED
  BY <1>1, <1>2

-----------------------------------------------------------------------------
(* The invariant of the round trip.                                        *)

LEMMA RoundTripInitial == Init => RoundTripInv
<1> SUFFICES ASSUME Init PROVE RoundTripInv
  OBVIOUS
<1>1. CASE /\ pc = "encode"
           /\ \E n \in 0 .. MaxAddr : addr_len = n /\ addr \in [0 .. n - 1 -> Bytes]
           /\ text_len = base64_encoded_length(addr_len)
           /\ text \in Block(text_len + 1)
  <2>1. /\ addr_len \in 0 .. MaxAddr /\ addr \in [0 .. addr_len - 1 -> Byte]
        /\ FromClient
    BY <1>1, Base64Assumption DEF FromClient
  <2>2. Shapes
    BY <1>1, <2>1, Base64Assumption DEF Shapes
  <2>3. text_len \in Nat
    BY <2>1, <2>2, TextLength
  <2>4. InBounds
    <3> DEFINE D == 0 .. text_len - (IF FromClient THEN 0 ELSE 1)
    <3>1. D = 0 .. (text_len + 1) - 1
      BY <2>1, <2>3
    <3>2. text \in [D -> Byte \cup {Unset}]
      BY <1>1, <3>1 DEF Block
    <3> QED
      BY <1>1, <3>2 DEF InBounds
  <2>5. EncodedSoFar
    <3>1. from = 0 /\ to = 0
      BY DEF Init
    <3>2. 0 \in 0 .. addr_len /\ 0 % 3 = 0 /\ 0 = 4 * (0 \div 3)
      BY <2>1, Base64Assumption
    <3> QED
      BY <3>1, <3>2 DEF EncodedSoFar
  <2> QED
    BY <1>1, <2>2, <2>4, <2>5
       DEF RoundTripInv, EncodesRfc4648, TextIsEncoded, DecodedSoFar, RoundTrip
<1>2. CASE /\ pc = "receive"
           /\ addr_len = -1 /\ addr \in Block(0)
           /\ \E n \in 0 .. MaxText : text_len = n /\ text \in [0 .. n - 1 -> Chars]
  <2>1. ~ FromClient /\ text_len \in 0 .. MaxText /\ text \in [0 .. text_len - 1 -> Byte]
    BY <1>2, Base64Assumption DEF FromClient
  <2>2. InBounds
    BY <1>2, <2>1 DEF InBounds
  <2>3. Shapes
    <3>1. 0 .. 0 - 1 = {} /\ 0 .. addr_len - 1 = {}
      BY <1>2
    <3>2. addr \in [0 .. addr_len - 1 -> Byte]
      BY <1>2, <3>1 DEF Block
    <3>3. addr_len \in -1 .. MaxAddr
      BY <1>2, Base64Assumption
    <3> QED
      BY <1>2, <2>1, <3>2, <3>3 DEF Shapes
  <2> QED
    BY <1>2, <2>1, <2>2, <2>3
       DEF RoundTripInv, EncodedSoFar, EncodesRfc4648, TextIsEncoded, DecodedSoFar, RoundTrip
<1> QED
  BY <1>1, <1>2 DEF Init

LEMMA RoundTripStep == RoundTripInv /\ [Next]_vars => RoundTripInv'
<1> SUFFICES ASSUME RoundTripInv, [Next]_vars PROVE RoundTripInv'
  OBVIOUS
<1>1. CASE EncodeTriplet
  BY <1>1, EncodeTripletStep
<1>2. CASE EncodeEnd
  BY <1>2, EncodeEndStep
<1>3. CASE Receive
  BY <1>3, ReceiveStep
<1>4. CASE DecodeQuartet
  BY <1>4, DecodeQuartetStep
<1>5. CASE DecodeReject
  BY <1>5, DecodeRejectStep
<1>6. CASE DecodeEnd
  BY <1>6, DecodeEndStep
<1>7. CASE UNCHANGED vars
  BY <1>7 DEF vars, RoundTripInv, InBounds, Shapes, EncodedSoFar, EncodesRfc4648,
              TextIsEncoded, DecodedSoFar, RoundTrip, FromClient, RfcChar, Group, At
<1> QED
  BY <1>1, <1>2, <1>3, <1>4, <1>5, <1>6, <1>7 DEF Next, Terminated


-----------------------------------------------------------------------------
(* The decoder and RFC 4648, for any text.                                 *)

(* Of all bytes, the letters are those that the table gives a value. *)
LEMMA LettersHaveValues ==
    ASSUME NEW ch \in Byte
    PROVE  /\ ch \in Letters <=> decode_map[ch] # -1
           /\ ch \in Letters => decode_map[ch] \in Sixbit
<1>1. ch \notin Letters => decode_map[ch] = -1
  BY DEF decode_map
<1>2. ASSUME ch \in Letters PROVE decode_map[ch] \in Sixbit
  <2>1. PICK s \in Sixbit : encode_map[s] = ch
    BY <1>2 DEF Letters
  <2> QED
    BY <2>1, LetterDecoded
<1>3. -1 \notin Sixbit
  BY DEF Sixbit
<1> QED
  BY <1>1, <1>2, <1>3

(* The number that RFC 4648 makes of four letters, and a byte of it. *)
Bits(a, b, c, d) == a * 262144 + b * 4096 + c * 64 + d
Octet(number, k) ==
    (number \div (CASE k = 0 -> 65536 [] k = 1 -> 256 [] k = 2 -> 1)) % 256

(* Four groups of six bits, put together as three bytes, are the three digits
   of their number to the base 256. *)
LEMMA OctetsAreDigits ==
    ASSUME NEW a \in Sixbit, NEW b \in Sixbit, NEW c \in Sixbit, NEW d \in Sixbit,
           NEW k \in 0 .. 2
    PROVE  octets(a, b, c, d)[k + 1] = Octet(Bits(a, b, c, d), k)
<1> DEFINE number == a * 262144 + b * 4096 + c * 64 + d
<1> USE DEF Sixbit
<1>1. Bits(a, b, c, d) = number
  BY DEF Bits
<1>2. (number \div 65536) % 256 = a * 4 + b \div 16
  <2>1. number \div 65536 = a * 4 + b \div 16
    OBVIOUS
  <2>2. a * 4 + b \div 16 \in 0 .. 255
    OBVIOUS
  <2> QED
    BY <2>1, <2>2
<1>3. (number \div 256) % 256 = (b % 16) * 16 + c \div 4
  <2>1. number \div 256 = a * 1024 + b * 16 + c \div 4
    OBVIOUS
  <2>2. a * 1024 + b * 16 + c \div 4
          = (a * 4 + b \div 16) * 256 + ((b % 16) * 16 + c \div 4)
    OBVIOUS
  <2>3. (b % 16) * 16 + c \div 4 \in 0 .. 255
    OBVIOUS
  <2>4. ((a * 4 + b \div 16) * 256 + ((b % 16) * 16 + c \div 4)) % 256
          = (b % 16) * 16 + c \div 4
    BY <2>3
  <2> QED
    BY <2>1, <2>2, <2>4
<1>4. (number \div 1) % 256 = (c % 4) * 64 + d
  <2>1. number = (a * 1024 + b * 16 + c \div 4) * 256 + ((c % 4) * 64 + d)
    OBVIOUS
  <2>2. (c % 4) * 64 + d \in 0 .. 255
    OBVIOUS
  <2>3. ((a * 1024 + b * 16 + c \div 4) * 256 + ((c % 4) * 64 + d)) % 256
          = (c % 4) * 64 + d
    BY <2>2
  <2> QED
    BY <2>1, <2>3
<1> SUFFICES octets(a, b, c, d)[k + 1] = Octet(number, k)
  BY <1>1
<1> HIDE DEF number
<1>5. CASE k = 0
  BY <1>2, <1>5 DEF octets, Octet
<1>6. CASE k = 1
  BY <1>3, <1>6 DEF octets, Octet
<1>7. CASE k = 2
  BY <1>4, <1>7 DEF octets, Octet
<1> QED
  BY <1>5, <1>6, <1>7

(* The bytes of the i-th group of four letters. *)
LEMMA RfcByteOfGroup ==
    ASSUME NEW i \in Nat, NEW s0 \in Sixbit, NEW s1 \in Sixbit, NEW s2 \in Sixbit,
           NEW s3 \in Sixbit,
           Value(4 * i) = s0, Value(4 * i + 1) = s1,
           Value(4 * i + 2) = s2, Value(4 * i + 3) = s3,
           NEW k \in 0 .. 2
    PROVE  RfcByte(3 * i + k) = octets(s0, s1, s2, s3)[k + 1]
<1>1. (3 * i + k) \div 3 = i /\ (3 * i + k) % 3 = k
  OBVIOUS
<1>2. RfcByte(3 * i + k) = Octet(Bits(s0, s1, s2, s3), k)
  BY <1>1 DEF RfcByte, Octet, Bits
<1>3. octets(s0, s1, s2, s3)[k + 1] = Octet(Bits(s0, s1, s2, s3), k)
  BY OctetsAreDigits
<1> QED
  BY <1>2, <1>3

(* The letters of a text end in its last four characters, at one place. *)
IsBody(n) ==
    /\ n \in LastFour .. text_len
    /\ n # LastFour => text[n - 1] # Pad
    /\ \A k \in n .. text_len - 1 : text[k] = Pad

LEMMA LastFourBounds ==
    ASSUME text_len \in Nat
    PROVE  /\ LastFour \in 0 .. text_len /\ text_len - LastFour \in 0 .. 4
           /\ LastFour % 4 = 0
  BY DEF LastFour

LEMMA BodyIsWhereItEnds ==
    ASSUME text_len \in Nat, NEW n, IsBody(n)
    PROVE  Body = n
<1>1. ASSUME NEW m, IsBody(m) PROVE m = n
  <2>1. LastFour \in Nat /\ m \in Nat /\ n \in Nat
        /\ LastFour <= m /\ LastFour <= n /\ m <= text_len /\ n <= text_len
    BY <1>1, LastFourBounds DEF IsBody
  <2>2. CASE m < n
    <3>1. n # LastFour /\ n - 1 \in m .. text_len - 1
      BY <2>1, <2>2
    <3> QED
      BY <1>1, <3>1 DEF IsBody
  <2>3. CASE n < m
    <3>1. m # LastFour /\ m - 1 \in n .. text_len - 1
      BY <2>1, <2>3
    <3> QED
      BY <1>1, <3>1 DEF IsBody
  <2> QED
    BY <2>1, <2>2, <2>3
<1>2. Body = CHOOSE m \in LastFour .. text_len : IsBody(m)
  BY DEF Body, IsBody
<1>3. n \in LastFour .. text_len
  BY DEF IsBody
<1> QED
  BY <1>1, <1>2, <1>3

(* It is found by looking at the last four characters alone. *)
LEMMA BodyFromTail ==
    ASSUME text_len \in Nat
    PROVE  /\ Body = LastFour + Insize(Slice(text, LastFour, text_len - LastFour),
                                       text_len - LastFour)
           /\ IsBody(Body)
<1> DEFINE len == text_len - LastFour
           tail == Slice(text, LastFour, len)
           size == Insize(tail, len)
           n == LastFour + size
<1>1. LastFour \in 0 .. text_len /\ len \in 0 .. 4
  BY LastFourBounds
<1>2. /\ size \in 0 .. len
      /\ size # 0 => tail[size - 1] # Pad
      /\ \A k \in size .. len - 1 : tail[k] = Pad
  BY <1>1, InsizeExists
<1>3. \A k \in 0 .. len - 1 : tail[k] = text[LastFour + k]
  BY DEF Slice
<1> HIDE DEF tail, size
<1>4. n \in LastFour .. text_len
  BY <1>1, <1>2
<1>5. n # LastFour => text[n - 1] # Pad
  <2> SUFFICES ASSUME n # LastFour PROVE text[n - 1] # Pad
    OBVIOUS
  <2>1. size # 0 /\ size - 1 \in 0 .. len - 1 /\ LastFour + (size - 1) = n - 1
    BY <1>1, <1>2
  <2> QED
    BY <1>2, <1>3, <2>1
<1>6. ASSUME NEW k \in n .. text_len - 1 PROVE text[k] = Pad
  <2>1. /\ k - LastFour \in size .. len - 1 /\ k - LastFour \in 0 .. len - 1
        /\ LastFour + (k - LastFour) = k
    BY <1>1, <1>2
  <2> QED
    BY <1>2, <1>3, <2>1
<1>7. IsBody(n)
  BY <1>4, <1>5, <1>6 DEF IsBody
<1> HIDE DEF n, len
<1>8. Body = n
  BY <1>7, BodyIsWhereItEnds
<1> QED
  BY <1>7, <1>8 DEF n, size, tail, len

(* What a character of the text is worth. *)
LEMMA LetterIsValue ==
    ASSUME NEW k, text[k] \in Byte, k < Body
    PROVE  /\ text[k] \in Letters <=> decode_map[text[k]] # -1
           /\ text[k] \in Letters => Value(k) = decode_map[text[k]] /\ Value(k) \in Sixbit
  BY LettersHaveValues DEF Value

(* While the loop runs, a quartet lies before the last four characters. *)
LEMMA QuartetBeforeBody ==
    ASSUME RoundTripInv, pc = "decode", SizeT(text_len - from) > 4
    PROVE  \A k \in 0 .. 3 : /\ from + k \in 0 .. Body - 1
                             /\ text[from + k] \in Byte
                             /\ Slice(text, from, 4)[k] = text[from + k]
<1>1. /\ text_len \in Nat /\ from \div 4 \in Nat /\ from = 4 * (from \div 4)
      /\ text_len - from > 4
      /\ \A k \in 0 .. text_len - 1 : text[k] \in Byte
  BY WhileDecoding
<1> DEFINE i == from \div 4
<1>2. i \in Nat /\ from = 4 * i
  BY <1>1
<1> HIDE DEF i
<1>3. from + 4 <= LastFour
  BY <1>1, <1>2 DEF LastFour
<1>4. Body \in LastFour .. text_len /\ LastFour \in Nat
  BY <1>1, BodyFromTail, LastFourBounds DEF IsBody
<1>5. \A k \in 0 .. 3 : from + k \in 0 .. Body - 1 /\ from + k \in 0 .. text_len - 1
  BY <1>1, <1>2, <1>3, <1>4
<1>6. \A k \in 0 .. 3 : Slice(text, from, 4)[k] = text[from + k]
  BY DEF Slice
<1> QED
  BY <1>1, <1>5, <1>6

(* The reference does not change while the text does not. *)
LEMMA SameText ==
    ASSUME UNCHANGED <<text, text_len>>
    PROVE  /\ Body' = Body /\ LenientText' = LenientText
           /\ \A k : RfcByte(k)' = RfcByte(k)
<1>1. LastFour' = LastFour
  BY DEF LastFour
<1>2. Body' = Body
  BY <1>1 DEF Body
<1> QED
  BY <1>2 DEF LenientText, RfcByte, Value

LEMMA DecodedRfcQuartet ==
    ASSUME RoundTripInv, DecodedRfc, DecodeQuartet
    PROVE  DecodedRfc'
<1> DEFINE i == from \div 4
           q == Slice(text, from, 4)
           v == base64_decode_quartet(q)
           size == base64_decoded_length(text_len)
<1>1. /\ pc = "decode" /\ SizeT(text_len - from) > 4 /\ Decodable(q)
      /\ out' = Write(out, to, v, 3)
      /\ from' = from + 4 /\ to' = to + 3
      /\ UNCHANGED <<text, text_len>>
  BY DEF DecodeQuartet
<1>2. /\ i \in Nat /\ from = 4 * i /\ to = 3 * i
      /\ text_len \in Nat /\ text_len - from > 4
      /\ size = ((text_len + 3) \div 4) * 3 /\ Holds(out, size)
  BY <1>1, WhileDecoding
<1>3. \A k \in 0 .. 3 : /\ from + k \in 0 .. Body - 1 /\ text[from + k] \in Byte
                        /\ q[k] = text[from + k]
  BY <1>1, QuartetBeforeBody
<1>4. to \in Nat /\ to + 3 <= size
  BY <1>2
<1> HIDE DEF i, q, size
<1>5. \A k \in 0 .. 3 : /\ text[from + k] \in Letters
                        /\ Value(from + k) = decode_map[q[k]]
                        /\ Value(from + k) \in Sixbit
  <2> SUFFICES ASSUME NEW k \in 0 .. 3
               PROVE  /\ text[from + k] \in Letters
                      /\ Value(from + k) = decode_map[q[k]]
                      /\ Value(from + k) \in Sixbit
    OBVIOUS
  <2>1. /\ text[from + k] \in Byte /\ q[k] = text[from + k] /\ decode_map[q[k]] # -1
    BY <1>1, <1>3 DEF Decodable
  <2>2. from + k < Body
    <3>1. from + k \in 0 .. Body - 1 /\ Body \in Nat
      BY <1>2, <1>3, BodyFromTail, LastFourBounds DEF IsBody
    <3> QED
      BY <3>1
  <2> QED
    BY <2>1, <2>2, LetterIsValue
<1>6. ASSUME NEW k \in 0 .. 2 PROVE v[k] = RfcByte(3 * i + k)
  <2>1. \A j \in 0 .. 3 : Value(4 * i + j) \in Sixbit /\ Value(4 * i + j) = decode_map[q[j]]
    BY <1>2, <1>5
  <2>2. PICK s0 \in Sixbit, s1 \in Sixbit, s2 \in Sixbit, s3 \in Sixbit :
           /\ decode_map[q[0]] = s0 /\ decode_map[q[1]] = s1
           /\ decode_map[q[2]] = s2 /\ decode_map[q[3]] = s3
    BY <2>1
  <2>3. /\ Value(4 * i) = s0 /\ Value(4 * i + 1) = s1
        /\ Value(4 * i + 2) = s2 /\ Value(4 * i + 3) = s3
    <3>1. 4 * i + 0 = 4 * i
      BY <1>2
    <3> QED
      BY <2>1, <2>2, <3>1
  <2>4. RfcByte(3 * i + k) = octets(s0, s1, s2, s3)[k + 1]
    BY <1>2, <2>3, RfcByteOfGroup
  <2> QED
    BY <2>2, <2>4 DEF base64_decode_quartet
<1>7. \A k \in 0 .. 2 : v[k] \in Byte
  <2>1. \A k \in 0 .. 3 : q[k] \in Byte
    BY <1>3
  <2> QED
    BY <1>1, <2>1, QuartetInRange
<1> HIDE DEF v
<1>8. /\ \A k \in 0 .. to - 1 : out'[k] = out[k]
      /\ \A k \in 0 .. 2 : out'[to + k] = v[k]
  <2>1. /\ \A k \in 0 .. to - 1 : Write(out, to, v, 3)[k] = out[k]
        /\ \A k \in 0 .. 2 : Write(out, to, v, 3)[to + k] = v[k]
    BY <1>2, <1>4, <1>7, TripletToBlock
  <2> QED
    BY <1>1, <2>1
<1>9. ASSUME NEW k \in 0 .. to' - 1 PROVE out'[k] = RfcByte(k)
  <2>1. CASE k < to
    <3>1. k \in 0 .. to - 1
      BY <1>4, <2>1
    <3> QED
      BY <1>1, <1>8, <3>1 DEF DecodedRfc
  <2>2. CASE ~ (k < to)
    <3>1. k - to \in 0 .. 2 /\ to + (k - to) = k /\ 3 * i + (k - to) = k
      BY <1>1, <1>2, <1>4, <2>2
    <3>2. out'[to + (k - to)] = RfcByte(3 * i + (k - to))
      BY <1>6, <1>8, <3>1
    <3> QED
      BY <3>1, <3>2
  <2> QED
    BY <2>1, <2>2
<1>10. ASSUME NEW k \in 0 .. from' - 1 PROVE text'[k] \in Letters
  <2>1. CASE k < from
    <3>1. k \in 0 .. from - 1
      BY <1>2, <2>1
    <3> QED
      BY <1>1, <3>1 DEF DecodedRfc
  <2>2. CASE ~ (k < from)
    <3>1. k - from \in 0 .. 3 /\ from + (k - from) = k
      BY <1>1, <1>2, <2>2
    <3> QED
      BY <1>1, <1>5, <3>1
  <2> QED
    BY <2>1, <2>2
<1>11. \A k \in 0 .. to' - 1 : out'[k] = RfcByte(k)'
  BY <1>1, <1>9, SameText
<1> QED
  BY <1>10, <1>11 DEF DecodedRfc

(* A foreign character before the last four is in no lenient text. *)
LEMMA QuartetRejected ==
    ASSUME RoundTripInv, DecodeReject
    PROVE  ~ LenientText
<1>1. /\ pc = "decode" /\ SizeT(text_len - from) > 4
      /\ ~ Decodable(Slice(text, from, 4))
  BY DEF DecodeReject
<1>2. PICK k \in 0 .. 3 : decode_map[Slice(text, from, 4)[k]] = -1
  BY <1>1 DEF Decodable
<1>3. /\ from + k \in 0 .. Body - 1 /\ text[from + k] \in Byte
      /\ decode_map[text[from + k]] = -1
  BY <1>1, <1>2, QuartetBeforeBody
<1>4. text[from + k] \notin Letters
  BY <1>3, LettersHaveValues
<1> QED
  BY <1>3, <1>4 DEF LenientText

(* At the end what is left is the last four characters, or there are none. *)
LEMMA TailIsLastFour ==
    ASSUME RoundTripInv, pc = "decode", TailLength <= 4
    PROVE  /\ text_len \in Nat /\ from \in Nat /\ from % 4 = 0
           /\ TailLength = text_len - from /\ TailLength \in 0 .. 4
           /\ LastFour = from
           /\ TailInsize \in 0 .. TailLength
           /\ Body = from + TailInsize
           /\ \A k \in 0 .. TailLength - 1 : Tail[k] = text[from + k] /\ Tail[k] \in Byte
<1>1. /\ text_len \in Nat /\ from \div 4 \in Nat /\ from = 4 * (from \div 4)
      /\ from <= text_len /\ (from = text_len => text_len = 0)
      /\ SizeT(text_len - from) = text_len - from
      /\ \A k \in 0 .. text_len - 1 : text[k] \in Byte
  BY WhileDecoding
<1> DEFINE i == from \div 4
<1>2. i \in Nat /\ from = 4 * i
  BY <1>1
<1> HIDE DEF i
<1>3. TailLength = text_len - from /\ TailLength \in 0 .. 4
  BY <1>1, <1>2 DEF TailLength
<1>4. LastFour = from
  <2>1. CASE text_len = 0
    BY <1>1, <1>2, <2>1 DEF LastFour
  <2>2. CASE text_len # 0
    <3>1. text_len - from \in 1 .. 4
      BY <1>1, <1>2, <1>3, <2>2
    <3>2. (text_len - 1) \div 4 = i
      BY <1>1, <1>2, <3>1
    <3> QED
      BY <1>2, <2>2, <3>2 DEF LastFour
  <2> QED
    BY <2>1, <2>2
<1>5. TailInsize \in 0 .. TailLength
  BY <1>3, InsizeExists DEF TailInsize
<1>6. Body = from + TailInsize
  BY <1>1, <1>3, <1>4, BodyFromTail DEF TailInsize, Tail
<1>7. \A k \in 0 .. TailLength - 1 : Tail[k] = text[from + k] /\ Tail[k] \in Byte
  <2>1. \A k \in 0 .. TailLength - 1 : from + k \in 0 .. text_len - 1
    BY <1>1, <1>2, <1>3
  <2>2. \A k \in 0 .. TailLength - 1 : Tail[k] = text[from + k]
    BY DEF Tail, Slice
  <2> QED
    BY <1>1, <2>1, <2>2
<1>8. from \in Nat /\ from % 4 = 0
  BY <1>2
<1> QED
  BY <1>1, <1>3, <1>4, <1>5, <1>6, <1>7, <1>8

(* The decoder refuses a tail exactly if the text is not a lenient one. *)
LEMMA MalformedIsInvalid ==
    ASSUME RoundTripInv, DecodedRfc, pc = "decode", TailLength <= 4
    PROVE  Malformed(Tail, TailInsize) <=> ~ LenientText
<1>1. /\ from \in Nat /\ from % 4 = 0 /\ TailLength \in 0 .. 4
      /\ TailInsize \in 0 .. TailLength
      /\ Body = from + TailInsize
      /\ \A k \in 0 .. TailLength - 1 : Tail[k] = text[from + k] /\ Tail[k] \in Byte
  BY TailIsLastFour
<1>2. \A k \in 0 .. from - 1 : text[k] \in Letters
  BY DEF DecodedRfc
<1> DEFINE n == TailInsize
<1>3. n \in 0 .. 4 /\ n <= TailLength
  BY <1>1
<1>4. Body % 4 = 1 <=> n = 1
  BY <1>1, <1>3
<1>5. \A k \in 0 .. n - 1 : text[from + k] \in Letters <=> decode_map[Tail[k]] # -1
  <2>1. \A k \in 0 .. n - 1 : k \in 0 .. TailLength - 1
    BY <1>1, <1>3
  <2> QED
    BY <1>1, <2>1, LettersHaveValues
<1>6. (\A k \in 0 .. Body - 1 : text[k] \in Letters)
        <=> (\A k \in 0 .. n - 1 : text[from + k] \in Letters)
  <2>1. ASSUME \A k \in 0 .. n - 1 : text[from + k] \in Letters, NEW k \in 0 .. Body - 1
        PROVE  text[k] \in Letters
    <3>1. CASE k < from
      BY <1>1, <1>2, <3>1
    <3>2. CASE ~ (k < from)
      <4>1. k - from \in 0 .. n - 1 /\ from + (k - from) = k
        BY <1>1, <3>2
      <4> QED
        BY <2>1, <4>1
    <3> QED
      BY <3>1, <3>2
  <2>2. \A k \in 0 .. n - 1 : from + k \in 0 .. Body - 1
    BY <1>1, <1>3
  <2> QED
    BY <2>1, <2>2
<1>7. Malformed(Tail, TailInsize) <=> \/ n = 1
                                    \/ \E k \in 0 .. n - 1 : decode_map[Tail[k]] = -1
  <2>1. n = 0 => 0 .. n - 1 = {}
    OBVIOUS
  <2> HIDE DEF n
  <2> QED
    BY <2>1 DEF Malformed, n
<1> HIDE DEF n
<1> QED
  BY <1>4, <1>5, <1>6, <1>7 DEF LenientText

(* The bytes of the last write are those of the last group of letters. *)
LEMMA LastIsRfc ==
    ASSUME RoundTripInv, DecodedRfc, pc = "decode", TailLength <= 4, LenientText
    PROVE  \A k \in 0 .. 2 : Last[k] = RfcByte(to + k)
<1>1. /\ from \in Nat /\ TailLength \in 0 .. 4
      /\ TailInsize \in 0 .. TailLength
      /\ Body = from + TailInsize
      /\ \A k \in 0 .. TailLength - 1 : Tail[k] = text[from + k] /\ Tail[k] \in Byte
  BY TailIsLastFour
<1> DEFINE i == from \div 4
<1>2. i \in Nat /\ from = 4 * i /\ to = 3 * i
  BY WhileDecoding
<1> HIDE DEF i
<1>3. decode_map[A] = 0 /\ 0 \in Sixbit
  <2>1. 0 \in Sixbit /\ encode_map[0] = A
    BY DEF encode_map, Sixbit, A
  <2> QED
    BY <2>1, LetterDecoded
<1>4. ASSUME NEW k \in 0 .. 3
      PROVE  Value(4 * i + k) = decode_map[Long[k]] /\ Value(4 * i + k) \in Sixbit
  <2>1. 4 * i + k = from + k /\ (from + k < Body <=> k < TailInsize)
    BY <1>1, <1>2
  <2>2. CASE k < TailInsize
    <3>1. /\ k \in 0 .. TailLength - 1 /\ from + k \in 0 .. Body - 1 /\ from + k < Body
      BY <1>1, <2>2
    <3>2. text[from + k] \in Letters /\ text[from + k] \in Byte /\ Tail[k] = text[from + k]
      BY <1>1, <3>1 DEF LenientText
    <3>3. Value(from + k) = decode_map[text[from + k]] /\ Value(from + k) \in Sixbit
      BY <3>1, <3>2, LetterIsValue
    <3>4. Long[k] = Tail[k]
      BY <2>2 DEF Long
    <3> QED
      BY <2>1, <3>2, <3>3, <3>4
  <2>3. CASE ~ (k < TailInsize)
    <3>1. Long[k] = A
      BY <2>3 DEF Long
    <3>2. Value(from + k) = 0
      BY <2>1, <2>3 DEF Value
    <3> QED
      BY <1>3, <2>1, <3>1, <3>2
  <2> QED
    BY <2>2, <2>3
<1>5. PICK s0 \in Sixbit, s1 \in Sixbit, s2 \in Sixbit, s3 \in Sixbit :
         /\ decode_map[Long[0]] = s0 /\ decode_map[Long[1]] = s1
         /\ decode_map[Long[2]] = s2 /\ decode_map[Long[3]] = s3
  BY <1>4
<1>6. /\ Value(4 * i) = s0 /\ Value(4 * i + 1) = s1
      /\ Value(4 * i + 2) = s2 /\ Value(4 * i + 3) = s3
  <2>1. 4 * i + 0 = 4 * i
    BY <1>2
  <2> QED
    BY <1>4, <1>5, <2>1
<1>7. ASSUME NEW k \in 0 .. 2 PROVE Last[k] = RfcByte(to + k)
  <2>1. RfcByte(3 * i + k) = octets(s0, s1, s2, s3)[k + 1]
    BY <1>2, <1>6, RfcByteOfGroup
  <2>2. Last[k] = octets(s0, s1, s2, s3)[k + 1]
    BY <1>5 DEF Last, base64_decode_quartet
  <2> QED
    BY <1>2, <2>1, <2>2
<1> QED
  BY <1>7

(* What the decoder returns. *)
LEMMA DecodeEndIsRfc ==
    ASSUME RoundTripInv, DecodedRfc, DecodeEnd, ~ Malformed(Tail, TailInsize)
    PROVE  /\ LenientText
           /\ ret' = (6 * Body) \div 8
           /\ \A k \in DOMAIN out' : out'[k] = IF k < ret' THEN RfcByte(k) ELSE 0
<1>1. pc = "decode" /\ TailLength <= 4 /\ ret' = to + TailBytes
  BY DecodeEndCases
<1>2. LenientText
  BY <1>1, MalformedIsInvalid
<1>3. /\ from \in Nat /\ TailLength \in 0 .. 4 /\ TailInsize \in 0 .. TailLength
      /\ Body = from + TailInsize
  BY <1>1, TailIsLastFour
<1> DEFINE i == from \div 4
<1>4. i \in Nat /\ from = 4 * i /\ to = 3 * i
  BY <1>1, WhileDecoding
<1> HIDE DEF i
<1>5. TailInsize \in {0, 2, 3, 4}
  BY <1>3 DEF Malformed
<1>6. ret' = (6 * Body) \div 8
  <2>1. 6 * Body = 24 * i + 6 * TailInsize
    BY <1>3, <1>4
  <2>2. CASE TailInsize = 0
    BY <1>1, <1>4, <2>1, <2>2 DEF TailBytes
  <2>3. CASE TailInsize = 2
    BY <1>1, <1>4, <2>1, <2>3 DEF TailBytes
  <2>4. CASE TailInsize = 3
    BY <1>1, <1>4, <2>1, <2>4 DEF TailBytes
  <2>5. CASE TailInsize = 4
    BY <1>1, <1>4, <2>1, <2>5 DEF TailBytes
  <2> QED
    BY <1>5, <2>2, <2>3, <2>4, <2>5
<1>7. /\ Size \in Nat /\ to \in Nat /\ TailBytes \in 0 .. 3 /\ to + TailBytes <= Size
      /\ out' \in [0 .. Size - 1 -> Byte]
      /\ \A k \in 0 .. Size - 1 :
            out'[k] = IF k < to THEN out[k]
                      ELSE IF k < to + TailBytes THEN Last[k - to]
                      ELSE NUL
  BY DecodedBlock
<1>8. ASSUME NEW k \in 0 .. Size - 1
      PROVE  out'[k] = IF k < ret' THEN RfcByte(k) ELSE 0
  <2>0. ret' \in Nat /\ to <= ret' /\ ret' = to + TailBytes
    BY <1>1, <1>7
  <2>1. CASE k < to
    <3>1. k \in 0 .. to - 1 /\ k < ret'
      BY <1>7, <2>0, <2>1
    <3> QED
      BY <1>1, <1>7, <2>1, <3>1 DEF DecodedRfc
  <2>2. CASE ~ (k < to) /\ k < ret'
    <3>1. k - to \in 0 .. 2 /\ to + (k - to) = k
      BY <1>7, <2>0, <2>2
    <3>2. Last[k - to] = RfcByte(to + (k - to))
      BY <1>1, <1>2, <3>1, LastIsRfc
    <3> QED
      BY <1>7, <2>0, <2>2, <3>1, <3>2
  <2>3. CASE ~ (k < ret')
    <3>1. ~ (k < to) /\ ~ (k < to + TailBytes)
      BY <1>7, <2>0, <2>3
    <3> QED
      BY <1>7, <2>3, <3>1 DEF NUL
  <2> QED
    BY <2>1, <2>2, <2>3
<1>9. DOMAIN out' = 0 .. Size - 1
  BY <1>7
<1> QED
  BY <1>2, <1>6, <1>8, <1>9

-----------------------------------------------------------------------------
(* The whole invariant.                                                    *)

LEMMA DecoderStep ==
    ASSUME CodecInv, [Next]_vars
    PROVE  DecodedRfc' /\ LenientTexts'
<1>1. RoundTripInv /\ DecodedRfc /\ LenientTexts
  BY DEF CodecInv
<1>2. CASE EncodeTriplet \/ EncodeEnd
  BY <1>2 DEF EncodeTriplet, EncodeEnd, DecodedRfc, LenientTexts
<1>3. CASE Receive
  <2>1. pc' = "decode" /\ from' = 0 /\ to' = 0
    BY <1>3 DEF Receive
  <2> QED
    BY <2>1 DEF DecodedRfc, LenientTexts
<1>4. CASE DecodeQuartet
  BY <1>1, <1>4, DecodedRfcQuartet DEF DecodeQuartet, LenientTexts
<1>5. ASSUME Reject, ~ LenientText
      PROVE  DecodedRfc' /\ LenientTexts'
  <2>1. pc' = "threw" /\ UNCHANGED <<text, text_len>>
    BY <1>5 DEF Reject
  <2>2. ~ LenientText'
    BY <1>5, <2>1, SameText
  <2> QED
    BY <2>1, <2>2 DEF DecodedRfc, LenientTexts
<1>6. CASE DecodeReject
  BY <1>1, <1>5, <1>6, QuartetRejected DEF DecodeReject
<1>7. CASE DecodeEnd
  <2>1. pc = "decode" /\ TailLength <= 4
    BY <1>7, DecodeEndCases
  <2>2. CASE Malformed(Tail, TailInsize)
    BY <1>1, <1>5, <1>7, <2>1, <2>2, DecodeEndCases, MalformedIsInvalid
  <2>3. CASE ~ Malformed(Tail, TailInsize)
    <3>1. pc' = "done" /\ UNCHANGED <<text, text_len>>
      BY <1>7, <2>3, DecodeEndCases
    <3>2. /\ LenientText
          /\ ret' = (6 * Body) \div 8
          /\ \A k \in DOMAIN out' : out'[k] = IF k < ret' THEN RfcByte(k) ELSE 0
      BY <1>1, <1>7, <2>3, DecodeEndIsRfc
    <3>3. LenientText' /\ Body' = Body /\ \A k : RfcByte(k)' = RfcByte(k)
      BY <3>1, <3>2, SameText
    <3> QED
      BY <3>1, <3>2, <3>3 DEF DecodedRfc, LenientTexts
  <2> QED
    BY <2>2, <2>3
<1>8. CASE Terminated \/ UNCHANGED vars
  <2>1. UNCHANGED <<pc, text, text_len, out, ret, from, to>>
    BY <1>8 DEF Terminated, vars
  <2>2. LenientText' = LenientText /\ Body' = Body /\ \A k : RfcByte(k)' = RfcByte(k)
    BY <2>1, SameText
  <2> QED
    BY <1>1, <2>1, <2>2 DEF DecodedRfc, LenientTexts
<1> QED
  BY <1>2, <1>3, <1>4, <1>6, <1>7, <1>8 DEF Next

(* base64.c, client.cpp:80-98 and server.cpp:117-137 together keep CodecInv,
   for every address and every text that the size arithmetic does not wrap. *)
THEOREM CodecInvariant == Spec => []CodecInv
<1>1. Init => CodecInv
  BY RoundTripInitial DEF Init, CodecInv, DecodedRfc, LenientTexts
<1>2. CodecInv /\ [Next]_vars => CodecInv'
  BY RoundTripStep, DecoderStep DEF CodecInv
<1> QED
  BY <1>1, <1>2, PTL DEF Spec

(* No address of any length or content makes the codec write outside the
   blocks that its callers allocate from base64_encoded_length and
   base64_decoded_length, and no byte left by malloc is sent or kept. *)
THEOREM CodecInBounds == Spec => []InBounds
<1>1. CodecInv => InBounds
  BY DEF CodecInv, RoundTripInv
<1> QED
  BY <1>1, CodecInvariant, PTL

(* base64_encode writes RFC 4648's text of every address, and its NUL. *)
THEOREM EncoderIsRfc4648 == Spec => []EncodesRfc4648
<1>1. CodecInv => EncodesRfc4648
  BY DEF CodecInv, RoundTripInv
<1> QED
  BY <1>1, CodecInvariant, PTL

(* base64_decode gives the server every client address back, whole, and never
   rejects one. *)
THEOREM AddressRoundTrip == Spec => []RoundTrip
<1>1. CodecInv => RoundTrip
  BY DEF CodecInv, RoundTripInv
<1> QED
  BY <1>1, CodecInvariant, PTL

(* base64_decode accepts the lenient grammar and nothing else: the letters of a
   text, of any length and any characters, with no regard to how much padding
   ends it, unless a single letter is left over. *)
THEOREM DecoderIsLenient == Spec => []LenientTexts
<1>1. CodecInv => LenientTexts
  BY DEF CodecInv
<1> QED
  BY <1>1, CodecInvariant, PTL

LEMMA PadIsNoLetter == Pad \notin Letters
<1>1. \A s \in Sixbit : encode_map[s] # Pad
  BY LettersDiffer
<1> QED
  BY <1>1 DEF Letters

(* The RFC's grammar is a part of the lenient one, with the same letters. *)
LEMMA RfcTextIsLenient ==
    ASSUME text_len \in Nat, NEW n \in 0 .. text_len, RfcText(n)
    PROVE  Body = n /\ LenientText
<1>1. /\ text_len % 4 = 0 /\ text_len - n <= 2 /\ n \in Nat
      /\ \A k \in 0 .. n - 1 : text[k] \in Letters
      /\ \A k \in n .. text_len - 1 : text[k] = Pad
  BY DEF RfcText
<1>2. n \in LastFour .. text_len
  BY <1>1 DEF LastFour
<1>3. n # LastFour => text[n - 1] # Pad
  <2>1. n # LastFour => n - 1 \in 0 .. n - 1
    BY <1>1, <1>2, LastFourBounds
  <2> QED
    BY <1>1, <2>1, PadIsNoLetter
<1>4. Body = n
  BY <1>1, <1>2, <1>3, BodyIsWhereItEnds DEF IsBody
<1>5. n % 4 # 1
  BY <1>1
<1> QED
  BY <1>1, <1>4, <1>5 DEF LenientText

(* base64_decode decodes every text that RFC 4648 allows, of any length, to the
   bytes that the RFC gives it, and none with characters outside the RFC's
   alphabet or with padding before its last four. *)
THEOREM DecoderIsRfc4648 == Spec => []DecodesRfc4648
<1>1. ASSUME CodecInv PROVE DecodesRfc4648
  <2>1. text_len \in Nat /\ LenientTexts
    <3>1. Shapes /\ LenientTexts
      BY <1>1 DEF CodecInv, RoundTripInv
    <3>2. CASE FromClient
      BY <3>1, <3>2, TextLength
    <3>3. CASE ~ FromClient
      <4>1. addr_len = -1 /\ text_len \in 0 .. MaxText \cup {base64_encoded_length(addr_len)}
        BY <3>1, <3>3 DEF Shapes, FromClient
      <4> QED
        BY <3>1, <4>1, Base64Assumption DEF base64_encoded_length, SizeT
    <3> QED
      BY <3>1, <3>2, <3>3
  <2>2. ASSUME NEW n \in 0 .. text_len, RfcText(n)
        PROVE  /\ pc # "threw"
               /\ pc = "done" =>
                     /\ ret = (6 * n) \div 8
                     /\ \A k \in DOMAIN out : out[k] = IF k < ret THEN RfcByte(k) ELSE 0
    <3>1. Body = n /\ LenientText
      BY <2>1, <2>2, RfcTextIsLenient
    <3> QED
      BY <2>1, <3>1 DEF LenientTexts
  <2>3. ASSUME pc = "done", NEW k \in 0 .. text_len - 1
        PROVE  text[k] \in Letters \/ (text[k] = Pad /\ k >= LastFour)
    <3>1. LenientText /\ IsBody(Body)
      BY <2>1, <2>3, BodyFromTail DEF LenientTexts
    <3>2. Body \in LastFour .. text_len /\ LastFour \in 0 .. text_len
      BY <2>1, <3>1, LastFourBounds DEF IsBody
    <3>3. CASE k < Body
      <4>1. k \in 0 .. Body - 1
        BY <3>2, <3>3
      <4> QED
        BY <3>1, <4>1 DEF LenientText
    <3>4. CASE ~ (k < Body)
      <4>1. k \in Body .. text_len - 1 /\ k >= LastFour
        BY <2>1, <3>2, <3>4
      <4> QED
        BY <3>1, <4>1 DEF IsBody
    <3> QED
      BY <3>3, <3>4
  <2> QED
    BY <2>2, <2>3 DEF DecodesRfc4648
<1> QED
  BY <1>1, CodecInvariant, PTL
=============================================================================
