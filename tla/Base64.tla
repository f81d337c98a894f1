------------------------------- MODULE Base64 -------------------------------
(***************************************************************************)
(* The base64 codec (base64.c) as client and server call it for a worker   *)
(* address: Client::single_run encodes its address, Server::single_run     *)
(* decodes the text of the request and hands the address to the backend.   *)
(* Blocks of memory are functions from offsets, as in C; one step is one   *)
(* turn of a loop.                                                         *)
(***************************************************************************)
EXTENDS Integers

CONSTANTS
    Bytes, MaxAddr,   \* the addresses: bytes, greatest length
    Chars, MaxText,   \* other texts given to the decoder
    SizeMod           \* 2^w, for the w bits of size_t

Byte == 0 .. 255

ASSUME Base64Assumption ==
    /\ Bytes \subseteq Byte
    /\ Chars \subseteq Byte
    /\ MaxAddr \in Nat /\ MaxText \in Nat
    /\ SizeMod \in Nat
    /\ 2 * MaxAddr + 8 < SizeMod /\ MaxText + 8 < SizeMod

(* The result of size_t arithmetic. *)
SizeT(x) == x % SizeMod

Unset == -1   \* what malloc left in a block
NUL == 0      \* '\0'
A   == 65     \* 'A'
Pad == 61     \* '='

Sixbit == 0 .. 63

encode_map == [s \in Sixbit |-> CASE s < 26         -> 65 + s
                                  [] s \in 26 .. 51 -> 71 + s
                                  [] s \in 52 .. 61 -> s - 4
                                  [] s = 62         -> 43
                                  [] s = 63         -> 47]

Letters == {encode_map[s] : s \in Sixbit}

decode_map == [ch \in Byte |->
                 IF ch \in Letters THEN CHOOSE s \in Sixbit : encode_map[s] = ch
                 ELSE -1]

base64_encoded_length(srclen) == SizeT((SizeT(srclen + 2) \div 3) * 4)

(* Mutant: rounded down. *)
decoded_length_down(srclen) == (srclen \div 4) * 3

base64_decoded_length(srclen) == SizeT((SizeT(srclen + 3) \div 4) * 3)

(* memcpy of n values to an offset of a block.  A write beyond the end of a
   block would show as a block that has grown. *)
Write(block, offset, values, n) ==
    [k \in DOMAIN block \cup offset .. offset + n - 1 |->
        IF k \in offset .. offset + n - 1 THEN values[k - offset] ELSE block[k]]

(* memset to NUL of what is left of a block of length destlen. *)
Clear(block, offset, destlen) ==
    LET n == SizeT(destlen - offset)
    IN  Write(block, offset, [k \in 0 .. n - 1 |-> NUL], n)

Slice(block, offset, n) == [k \in 0 .. n - 1 |-> block[offset + k]]

-----------------------------------------------------------------------------
(* Three bytes to four letters and back.                                   *)

(* Mutant: the two high bits of c are lost. *)
sixbits_without_c(a, b, c) ==
    <<a \div 4, (a % 4) * 16 + b \div 16, (b % 16) * 4, c % 64>>

(* The bits of three bytes in four groups of six, the first one first. *)
sixbits(a, b, c) ==
    <<a \div 4, (a % 4) * 16 + b \div 16, (b % 16) * 4 + c \div 64, c % 64>>

base64_encode_triplet(src) ==
    [k \in 0 .. 3 |-> encode_map[sixbits(src[0], src[1], src[2])[k + 1]]]

(* The last one or two bytes, filled up with zeros, and '=' for the letters
   that stand for nothing but zeros. *)
base64_encode_tail(src, srclen) ==
    LET long == [k \in 0 .. 2 |-> IF k < srclen THEN src[k] ELSE 0]
    IN  [k \in 0 .. 3 |-> IF k > srclen THEN Pad ELSE base64_encode_triplet(long)[k]]

(* Mutant: the bits of c that belong to the third byte are dropped. *)
octets_without_c(a, b, c, d) ==
    <<a * 4 + b \div 16, (b % 16) * 16 + c \div 4, d>>

(* Four groups of six bits as three bytes. *)
octets(a, b, c, d) ==
    <<a * 4 + b \div 16, (b % 16) * 16 + c \div 4, (c % 4) * 64 + d>>

Decodable(src) == \A k \in 0 .. 3 : decode_map[src[k]] # -1

base64_decode_quartet(src) ==
    [k \in 0 .. 2 |-> octets(decode_map[src[0]], decode_map[src[1]],
                             decode_map[src[2]], decode_map[src[3]])[k + 1]]

(* The length of a tail without its trailing padding. *)
Insize(src, srclen) ==
    CHOOSE n \in 0 .. srclen :
        /\ n # 0 => src[n - 1] # Pad
        /\ \A k \in n .. srclen - 1 : src[k] = Pad

(* Mutant: a tail of one letter is not rejected. *)
malformed_accepts_one(src, insize) ==
    insize # 0 /\ \E k \in 0 .. insize - 1 : decode_map[src[k]] = -1

(* Mutant: two letters, which make one byte, are rejected too. *)
malformed_rejects_two(src, insize) ==
    \/ insize \in 1 .. 2
    \/ insize # 0 /\ \E k \in 0 .. insize - 1 : decode_map[src[k]] = -1

(* One letter is malformed; two or three are filled up with 'A'. *)
Malformed(src, insize) ==
    \/ insize = 1
    \/ insize # 0 /\ \E k \in 0 .. insize - 1 : decode_map[src[k]] = -1

-----------------------------------------------------------------------------
VARIABLES
    pc,
    addr, addr_len,   \* the client's worker address
    text, text_len,   \* enc_buf and enc_size, or another text
    out, ret,         \* the block decoded into; the last return value
    from, to,         \* offsets in source and destination of the loop
    m_remote_addr_size

vars == <<pc, addr, addr_len, text, text_len, out, ret, from, to, m_remote_addr_size>>

Block(n) == [0 .. n - 1 -> {Unset}]

(* A client about to encode its address into a block with room for a NUL, or
   any other text on its way to the decoder.  Both callers allocate what the
   length functions tell them, so that neither call can return EOVERFLOW. *)
Init ==
    /\ \/ /\ pc = "encode"
          /\ \E n \in 0 .. MaxAddr : addr_len = n /\ addr \in [0 .. n - 1 -> Bytes]
          /\ text_len = base64_encoded_length(addr_len)
          /\ text \in Block(text_len + 1)
       \/ /\ pc = "receive"
          /\ addr_len = -1 /\ addr \in Block(0)
          /\ \E n \in 0 .. MaxText : text_len = n /\ text \in [0 .. n - 1 -> Chars]
    /\ out \in Block(0)
    /\ ret = 0
    /\ from = 0
    /\ to = 0
    /\ m_remote_addr_size = 0

FromClient == addr_len # -1

EncodeTriplet ==
    /\ pc = "encode"
    /\ SizeT(addr_len - from) >= 3
    /\ text' = Write(text, to, base64_encode_triplet(Slice(addr, from, 3)), 4)
    /\ from' = from + 3
    /\ to' = to + 4
    /\ UNCHANGED <<pc, addr, addr_len, text_len, out, ret, m_remote_addr_size>>

(* After the loop: the tail, if there is one, and the NULs.  The text goes to
   the server, with its length. *)
EncodeEnd ==
    /\ pc = "encode"
    /\ SizeT(addr_len - from) < 3
    /\ LET rest == addr_len - from
           end  == IF from < addr_len THEN to + 4 ELSE to
       IN  /\ text' = Clear(IF from < addr_len
                            THEN Write(text, to, base64_encode_tail(Slice(addr, from, rest), rest), 4)
                            ELSE text, end, text_len + 1)
           /\ ret' = end
    /\ pc' = "receive"
    /\ UNCHANGED <<addr, addr_len, text_len, out, from, to, m_remote_addr_size>>

(* Server::single_run allocates a block and calls the decoder. *)
Receive ==
    /\ pc = "receive"
    /\ out' \in Block(base64_decoded_length(text_len))
    /\ from' = 0
    /\ to' = 0
    /\ pc' = "decode"
    /\ UNCHANGED <<addr, addr_len, text, text_len, ret, m_remote_addr_size>>

(* The decoder returns -1: the server frees the block and throws. *)
Reject ==
    /\ ret' = -1
    /\ out' \in Block(0)
    /\ pc' = "threw"
    /\ UNCHANGED <<addr, addr_len, text, text_len, from, to, m_remote_addr_size>>

DecodeQuartet ==
    /\ pc = "decode"
    /\ SizeT(text_len - from) > 4
    /\ Decodable(Slice(text, from, 4))
    /\ out' = Write(out, to, base64_decode_quartet(Slice(text, from, 4)), 3)
    /\ from' = from + 4
    /\ to' = to + 3
    /\ UNCHANGED <<pc, addr, addr_len, text, text_len, ret, m_remote_addr_size>>

DecodeReject ==
    /\ pc = "decode"
    /\ SizeT(text_len - from) > 4
    /\ ~ Decodable(Slice(text, from, 4))
    /\ Reject

(* The tail, of up to four letters, and the NULs.  set_remote_addr is given
   the length of the block. *)
DecodeEnd ==
    /\ pc = "decode"
    /\ SizeT(text_len - from) <= 4
    /\ LET tail   == Slice(text, from, SizeT(text_len - from))
           insize == Insize(tail, SizeT(text_len - from))
           more   == IF insize = 0 THEN 0 ELSE insize - 1
           long   == [k \in 0 .. 3 |-> IF k < insize THEN tail[k] ELSE A]
           size   == base64_decoded_length(text_len)
       IN  IF Malformed(tail, insize)
           THEN Reject
           ELSE /\ out' = Clear(IF insize = 0 THEN out
                                ELSE Write(out, to, base64_decode_quartet(long), 3),
                                to + more, size)
                /\ ret' = to + more
                /\ m_remote_addr_size' = size
                /\ pc' = "done"
                /\ UNCHANGED <<addr, addr_len, text, text_len, from, to>>

Terminated == pc \in {"done", "threw"} /\ UNCHANGED vars

Next ==
    \/ EncodeTriplet \/ EncodeEnd \/ Receive
    \/ DecodeQuartet \/ DecodeReject \/ DecodeEnd \/ Terminated

Spec == Init /\ [][Next]_vars

-----------------------------------------------------------------------------
(* The reference: RFC 4648 reads three bytes as a number of 24 bits and
   writes it as four digits to the base 64. *)

At(block, k, n) == IF k < n THEN block[k] ELSE 0
Group(block, i, n) ==
    At(block, 3 * i, n) * 65536 + At(block, 3 * i + 1, n) * 256 + At(block, 3 * i + 2, n)
Digit(number, k) ==
    (number \div (CASE k = 0 -> 262144 [] k = 1 -> 4096 [] k = 2 -> 64 [] k = 3 -> 1)) % 64

RfcChar(block, n, k) ==
    IF k < (8 * n + 5) \div 6
    THEN encode_map[Digit(Group(block, k \div 4, n), k % 4)]
    ELSE Pad

(* The letters of a text: all but the padding at the end of its last four. *)
LastFour == IF text_len = 0 THEN 0 ELSE ((text_len - 1) \div 4) * 4
Body ==
    CHOOSE n \in LastFour .. text_len :
        /\ n # LastFour => text[n - 1] # Pad
        /\ \A k \in n .. text_len - 1 : text[k] = Pad

(* The RFC's own texts: n letters, then the padding to a multiple of four. *)
RfcText(n) ==
    /\ text_len % 4 = 0 /\ text_len - n <= 2
    /\ \A k \in 0 .. n - 1 : text[k] \in Letters
    /\ \A k \in n .. text_len - 1 : text[k] = Pad

(* More than the RFC's: the padding may be short, absent or too long, as in
   "AA", "AAAA=" and "===", but no single letter may be left over. *)
LenientText == Body % 4 # 1 /\ \A k \in 0 .. Body - 1 : text[k] \in Letters

Value(k) == IF k < Body THEN decode_map[text[k]] ELSE 0
RfcByte(k) ==
    LET i == 4 * (k \div 3)
        number == Value(i) * 262144 + Value(i + 1) * 4096 + Value(i + 2) * 64 + Value(i + 3)
    IN  (number \div (CASE k % 3 = 0 -> 65536 [] k % 3 = 1 -> 256 [] k % 3 = 2 -> 1)) % 256

(* Every write of the codec stays within the block that its caller allocated
   from the length functions, and nothing is sent, or kept as an address, that
   is still as malloc left it. *)
InBounds ==
    /\ text \in [0 .. text_len - (IF FromClient THEN 0 ELSE 1) ->
                   IF pc = "encode" THEN Byte \cup {Unset} ELSE Byte]
    /\ pc \in {"decode", "done"} =>
          out \in [0 .. base64_decoded_length(text_len) - 1 ->
                      IF pc = "decode" THEN Byte \cup {Unset} ELSE Byte]

(* What the client sends is the RFC's text for its address, complete, with
   a NUL after it; the encoder returns its length. *)
EncodesRfc4648 ==
    (FromClient /\ pc = "receive") =>
        /\ ret = text_len
        /\ text = [k \in 0 .. text_len |-> IF k = text_len THEN NUL
                                           ELSE RfcChar(addr, addr_len, k)]

(* The server has exactly the client's address, followed by NULs only; no
   address is rejected. *)
RoundTrip ==
    FromClient =>
        /\ pc # "threw"
        /\ pc = "done" =>
              /\ ret = addr_len
              /\ \A k \in DOMAIN out : out[k] = At(addr, k, addr_len)

(* Every text of the RFC's grammar is decoded, to the bytes that the RFC gives
   it and NULs after them; a text with any other character, or with padding
   before its last four, is never decoded.  (What else is accepted is
   LenientTexts'.) *)
DecodesRfc4648 ==
    /\ \A n \in 0 .. text_len :
          RfcText(n) => /\ pc # "threw"
                        /\ pc = "done" =>
                              /\ ret = (6 * n) \div 8
                              /\ \A k \in DOMAIN out :
                                    out[k] = IF k < ret THEN RfcByte(k) ELSE 0
    /\ pc = "done" => \A k \in 0 .. text_len - 1 :
                         text[k] \in Letters \/ (text[k] = Pad /\ k >= LastFour)

(* What the decoder accepts is the lenient grammar, and no more: the padding
   is neither required nor counted.  It returns the whole bytes that the bits
   of the letters make. *)
LenientTexts ==
    /\ pc = "threw" => ~ LenientText
    /\ pc = "done" => /\ LenientText
                      /\ ret = (6 * Body) \div 8
                      /\ \A k \in DOMAIN out : out[k] = IF k < ret THEN RfcByte(k) ELSE 0

(* base64.h:37: base64_decoded_length does not return the size of the decoded
   data.  The size kept with an address is the size of the address. *)
AddressSizeIsDecodedSize == pc = "done" => m_remote_addr_size = ret

-----------------------------------------------------------------------------
(* The inductive invariant: how far the loops have come.                   *)

Shapes ==
    /\ pc \in {"encode", "receive", "decode", "done", "threw"}
    /\ addr_len \in -1 .. MaxAddr
    /\ addr \in [0 .. addr_len - 1 -> Byte]
    /\ text_len \in 0 .. MaxText \cup {base64_encoded_length(addr_len)}
    /\ FromClient => text_len = base64_encoded_length(addr_len)
    /\ pc = "encode" => FromClient

(* Whole triplets are encoded, up to both offsets. *)
EncodedSoFar ==
    pc = "encode" =>
        /\ from \in 0 .. addr_len
        /\ from % 3 = 0
        /\ to = 4 * (from \div 3)
        /\ \A k \in 0 .. to - 1 : text[k] = RfcChar(addr, addr_len, k)

(* The client's text arrives as it was sent. *)
TextIsEncoded ==
    (FromClient /\ pc # "encode") =>
        text = [k \in 0 .. text_len |-> IF k = text_len THEN NUL
                                        ELSE RfcChar(addr, addr_len, k)]

(* Whole quartets are decoded, up to both offsets, and something is left for
   the tail. *)
DecodedSoFar ==
    pc = "decode" =>
        /\ from \in 0 .. text_len
        /\ from = text_len => text_len = 0
        /\ from % 4 = 0
        /\ to = 3 * (from \div 4)
        /\ \A k \in 0 .. to - 1 :
              /\ out[k] \in Byte
              /\ FromClient => k < addr_len /\ out[k] = addr[k]

(* What is decoded is the RFC's, and there were only letters. *)
DecodedRfc ==
    pc = "decode" => /\ \A k \in 0 .. to - 1 : out[k] = RfcByte(k)
                     /\ \A k \in 0 .. from - 1 : text[k] \in Letters

(* What the round trip rests on. *)
RoundTripInv ==
    /\ InBounds
    /\ Shapes
    /\ EncodedSoFar
    /\ EncodesRfc4648
    /\ TextIsEncoded
    /\ DecodedSoFar
    /\ RoundTrip

CodecInv ==
    /\ RoundTripInv
    /\ DecodedRfc
    /\ LenientTexts
=============================================================================
