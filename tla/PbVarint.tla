------------------------------ MODULE PbVarint ------------------------------
(***************************************************************************)
(* Varints in nanopb (pb_decode.c, pb_encode.c), with every width scaled   *)
(* down: a byte carries Payload bits and a continuation bit, words have    *)
(* Word bits (uint32_t) and Long bits (uint64_t), and the counter bitpos   *)
(* wraps at BitposSize (uint_fast8_t).  The two decoders read the same     *)
(* bytes, which are any bytes or those that pb_encode_varint wrote.        *)
(***************************************************************************)
EXTENDS Integers, Sequences, Bitwise

CONSTANTS
    Payload, Word, Long, BitposSize,    \* 7, 32, 64 and 256
    Sizes,          \* the widths of integer fields, Word and Long among them
    MaxBytes        \* bound: the bytes of a varint

VarintAssumption ==
    /\ {Payload, Word, Long, BitposSize, MaxBytes} \subseteq Nat \ {0}
    /\ Payload < Word /\ Word < Long /\ Long % Payload = 1 /\ Long < BitposSize
    /\ {Word, Long} \subseteq Sizes /\ \A s \in Sizes : s \in 1 .. Word \cup {Long}

VARIABLES
    sent,       \* << >>, or the value that was encoded
    input,      \* its bytes that are still to be read
    count,      \* the bytes that were read
    low, above, \* the number they make: its Long low bits, and if there are others
    d32,        \* pb_decode_varint32: st, bitpos, result
    d64         \* pb_decode_varint

vars == <<sent, input, count, low, above, d32, d64>>

Full == 2 ^ Payload - 1                             \* 0x7f
Byte == [p : 0 .. Full, more : BOOLEAN]

\* The bits of a byte at a position, in a word of some width.
Shifted(p, bitpos, width) == (p * 2 ^ bitpos) % 2 ^ width

-----------------------------------------------------------------------------
\* pb_encode_varint: a byte for a small value, else bytes until nothing is left.
EncodeVarint(v) ==
    LET n == CHOOSE i \in 1 .. Long : v < 2 ^ (Payload * i)
                                      /\ (i > 1 => v >= 2 ^ (Payload * (i - 1)))
    IN  [i \in 1 .. n |-> [p |-> (v \div 2 ^ (Payload * (i - 1))) % 2 ^ Payload,
                           more |-> i < n]]

\* The byte that continues a negative number beyond a word: 0xff, and 0x01 at the end.
SignExtension(bitpos) ==
    IF bitpos < Long - 1 THEN [p |-> Full, more |-> TRUE] ELSE [p |-> 1, more |-> FALSE]

\* The position after the byte that straddles the end of a word (35), and whether
\* a byte there has bits that do not fit (byte & 0x70).
Straddled == (Word \div Payload + 1) * Payload
Spills(b) == b.p \div 2 ^ (Word - Straddled + Payload) # 0

\* A turn of the loop in pb_decode_varint32_eof, with the check after the loop.
Decode32(d, b) ==
    LET bad == d.bitpos >= Word /\ b.p # 0
               /\ (d.result < 2 ^ (Word - 1) \/ b # SignExtension(d.bitpos))
        next == (d.bitpos + Payload) % BitposSize
    IN  IF bad \/ (~b.more /\ next = Straddled /\ Spills(b))
        THEN [d EXCEPT !.st = "overflow"]
        ELSE [st |-> IF b.more THEN "more" ELSE "ok", bitpos |-> next,
              result |-> IF d.bitpos >= Word THEN d.result
                         ELSE d.result | Shifted(b.p, d.bitpos, Word)]

\* A turn of the loop in pb_decode_varint.
Decode64(d, b) ==
    IF d.bitpos >= Long THEN [d EXCEPT !.st = "overflow"]
    ELSE [st |-> IF b.more THEN "more" ELSE "ok",
          bitpos |-> (d.bitpos + Payload) % BitposSize,
          result |-> d.result | Shifted(b.p, d.bitpos, Long)]

-----------------------------------------------------------------------------
New == [st |-> "more", bitpos |-> 0, result |-> 0]

Init ==
    /\ \/ sent = << >> /\ input = << >>
       \/ \E v \in 0 .. 2 ^ Long - 1 : sent = <<v>> /\ input = EncodeVarint(v)
    /\ count = 0 /\ low = 0 /\ above = FALSE /\ d32 = New /\ d64 = New

Running == d32.st = "more" \/ d64.st = "more"

Read(b) ==
    /\ Running /\ count < MaxBytes
    /\ count' = count + 1
    /\ LET at == Payload * count
       IN  IF at >= Long THEN low' = low /\ above' = (above \/ b.p # 0)
           ELSE /\ low' = low + Shifted(b.p, at, Long)
                /\ above' = (above \/ b.p * 2 ^ at >= 2 ^ Long)
    /\ d32' = IF d32.st = "more" THEN Decode32(d32, b) ELSE d32
    /\ d64' = IF d64.st = "more" THEN Decode64(d64, b) ELSE d64
    /\ UNCHANGED sent

ReadSent == input # << >> /\ Read(input[1]) /\ input' = Tail(input)
ReadAny == sent = << >> /\ (\E b \in Byte : Read(b)) /\ UNCHANGED input

Next == ReadSent \/ ReadAny

Spec == Init /\ [][Next]_vars

-----------------------------------------------------------------------------
(***************************************************************************)
(* Integer fields.  A result is << >> for "integer too large".             *)
(***************************************************************************)
\* A cast to a signed integer of some width.
Signed(x, width) == ((x + 2 ^ (width - 1)) % 2 ^ width) - 2 ^ (width - 1)
Unsigned(x, width) == x % 2 ^ width

IfSame(clamped, x) == IF clamped = x THEN <<x>> ELSE << >>

\* pb_dec_varint: a field of at most a word takes the value as a word first.
DecVarint(value, size) ==
    LET s == Signed(value, IF size = Long THEN Long ELSE Word)
    IN  IfSame(Signed(s, size), s)
DecUvarint(value, size) == IfSame(Unsigned(value, size), value)

\* pb_encode_svarint and pb_decode_svarint
ZigZag(v) == IF v < 0 THEN 2 ^ Long - 1 - Unsigned(2 * v, Long) ELSE 2 * v
UnZigZagOffByOne(z) == IF z % 2 = 1 THEN -(z \div 2) ELSE z \div 2
UnZigZag(z) == IF z % 2 = 1 THEN -(z \div 2) - 1 ELSE z \div 2

DecSvarint(value, size) == LET v == UnZigZag(value) IN IfSame(Signed(v, size), v)

-----------------------------------------------------------------------------
\* The value as a number with a sign, and whether the bytes are those of a number
\* that fits a word or of a negative one that was sent with all its bits.
IsWord == ~above /\ low < 2 ^ Word
IsNegative == sent # << >> /\ low >= 2 ^ Long - 2 ^ (Word - 1)

\* Every number of a word is accepted by pb_decode_varint32, however many empty bytes
\* follow it, and so is every negative one that was encoded with 64 bits.
FitsIsAccepted ==
    ~Running /\ input = << >> /\ (IsWord \/ IsNegative) =>
        d32.st = "ok" /\ d32.result = low % 2 ^ Word

\* A field of every size takes a value that was encoded exactly if it fits, and then
\* has that value, for the three kinds of integers.
FieldsKeepValues ==
    sent # << >> /\ d64.st = "ok" =>
        LET v == Signed(sent[1], Long)
            Fits(x, size) == Signed(x, size) = x
        IN  /\ d64.result = sent[1]
            /\ \A size \in Sizes :
                 /\ DecUvarint(d64.result, size) = IfSame(Unsigned(sent[1], size), sent[1])
                 /\ Fits(v, Word) \/ size = Long =>
                      DecVarint(d64.result, size) = IF Fits(v, size) THEN <<v>> ELSE << >>
                 /\ DecSvarint(ZigZag(v), size) = IF Fits(v, size) THEN <<v>> ELSE << >>
=============================================================================
