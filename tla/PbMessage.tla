----------------------------- MODULE PbMessage -----------------------------
(***************************************************************************)
(* Messages in nanopb: pb_encode (pb_encode.c), pb_decode_noinit with the  *)
(* field decoders (pb_decode.c) and the field iterator (pb_common.c).  The *)
(* fields are static (no pointers, no callbacks).  A byte is a            *)
(* small number: a tag is 2 * tag + wire type, of which there are two,     *)
(* WT_VARINT and WT_STRING, and every number is one byte (module PbVarint  *)
(* has the others).                                                        *)
(***************************************************************************)
EXTENDS Integers, Sequences, FiniteSets

CONSTANTS
    Types,          \* message types: sequences of fields [tag, h, l, size, sub]
    Sources,        \* what is decoded: [type, input, sent]
    WordBits,       \* the bits of a word of fields_seen: 32
    MaxRequired     \* PB_MAX_REQUIRED_FIELDS: 64

(***************************************************************************)
(* h is "required", "optional", "repeated", "fixed" (repeated without a    *)
(* counter), "oneof" or "ext" (the place of the extensions, whose tags are *)
(* those of `sub'); l is "scalar", "bytes" or "sub".  `size' is array_size.*)
(***************************************************************************)
MessageAssumption ==
    /\ {WordBits, MaxRequired} \subseteq Nat \ {0}
    /\ \A s \in Sources : s.type \in DOMAIN Types

VARIABLES
    source,     \* what is decoded
    pos,        \* stream->state: the bytes that were read
    stack,      \* one frame for each message under way
    status,     \* "run", "ok" or "error"
    result      \* the message, once it is decoded

vars == <<source, pos, stack, status, result>>

WT_VARINT == 0
WT_STRING == 1

-----------------------------------------------------------------------------
(***************************************************************************)
(* A message holds, for each field, the sequence of its values.            *)
(***************************************************************************)
Empty(type) == [i \in DOMAIN Types[type] |-> << >>]

\* encode_array and encode_basic_field: scalars of an array are packed.
RECURSIVE Encode(_, _)
EncodeValue(f, v) ==
    CASE f.l = "scalar" -> <<2 * f.tag + WT_VARINT, v>>
      [] f.l = "bytes"  -> <<2 * f.tag + WT_STRING, Len(v)>> \o v
      [] f.l = "sub"    -> LET e == Encode(f.sub, v) IN <<2 * f.tag + WT_STRING, Len(e)>> \o e

RECURSIVE EncodeValues(_, _)
EncodeValues(f, vs) ==
    IF vs = << >> THEN << >> ELSE EncodeValue(f, vs[1]) \o EncodeValues(f, Tail(vs))

EncodeField(f, vs) ==
    CASE vs = << >> -> << >>
      [] f.h = "ext" -> EncodeValue([tag |-> vs[1][1], l |-> "scalar"], vs[1][2])
      [] f.h \in {"repeated", "fixed"} /\ f.l = "scalar" ->
            <<2 * f.tag + WT_STRING, Len(vs)>> \o vs
      [] OTHER -> EncodeValues(f, vs)

\* pb_encode
RECURSIVE EncodeFrom(_, _, _)
EncodeFrom(type, m, i) ==
    IF i > Len(Types[type]) THEN << >>
    ELSE EncodeField(Types[type][i], m[i]) \o EncodeFrom(type, m, i + 1)
Encode(type, m) == EncodeFrom(type, m, 1)

-----------------------------------------------------------------------------
(***************************************************************************)
(* Decoding.                                                               *)
(***************************************************************************)
Top == stack[Len(stack)]
Fields == Types[Top.type]
ByteAt(i) == source.input[pos + i]

\* A frame: the bytes its stream has left, whether a 0 tag ended it, the required
\* fields it has seen, the fixed count field it is in, and the message.
Frame(type, left, m, into) ==
    [type |-> type, left |-> left, ended |-> FALSE, seen |-> {}, fixed |-> 0,
     msg |-> m, into |-> into]

Init ==
    /\ source \in Sources
    /\ pos = 0 /\ status = "run" /\ result = << >>
    /\ stack = <<Frame(source.type, Len(source.input), Empty(source.type), 0)>>

SetTop(f) == [stack EXCEPT ![Len(stack)] = f]
Fail == status' = "error" /\ UNCHANGED <<source, pos, stack, result>>

\* n bytes are read, and the frame is f but for them.
Consume(f, n) ==
    /\ pos' = pos + n
    /\ stack' = SetTop([f EXCEPT !.left = @ - n])
    /\ UNCHANGED <<source, status, result>>

\* pb_field_iter_find
Found(tag) == {i \in DOMAIN Fields : Fields[i].tag = tag /\ Fields[i].h # "ext"}
\* find_extension_field and decode_extension: a field that takes the tag as one of
\* its extensions, the tag being in its range.
Extending(tag) ==
    {i \in DOMAIN Fields : Fields[i].h = "ext" /\ tag >= Fields[i].tag /\ tag \in Fields[i].sub}

\* iter.required_field_index
RequiredIndex(fields, i) == Cardinality({j \in 1 .. i - 1 : fields[j].h = "required"})

\* Another fixed count field begins although the last one is not complete.
FixedShort(f) == f.fixed # 0 /\ Len(f.msg[f.fixed]) # Types[f.type][f.fixed].size
CutShort(f, i) == Types[f.type][i].h = "fixed" /\ f.fixed # i /\ FixedShort(f)

\* What is noted of a field before it is decoded.
Entered(f, i) ==
    LET h == Fields[i].h  k == RequiredIndex(Fields, i)
        g == IF h = "required" /\ k < MaxRequired THEN [f EXCEPT !.seen = @ \cup {k}] ELSE f
    IN  IF h = "fixed" /\ f.fixed # i THEN [g EXCEPT !.fixed = i, !.msg[i] = << >>] ELSE g

\* A value goes where the kind of the field says; a union has one member.
Stored(f, i, v) ==
    LET h == Fields[i].h
    IN  [f EXCEPT !.msg = [j \in DOMAIN @ |->
            IF j = i THEN (IF h \in {"repeated", "fixed"} THEN Append(@[i], v) ELSE <<v>>)
            ELSE IF h = "oneof" /\ Fields[j].h = "oneof" THEN << >> ELSE @[j]]]

IsArray(i) == Fields[i].h \in {"repeated", "fixed"}
Packed(i, wt) == IsArray(i) /\ wt = WT_STRING /\ Fields[i].l = "scalar"

\* (*size)++ >= array_size, and how many values a packed array takes.
Overflows(i, f) == IsArray(i) /\ Len(f.msg[i]) >= Fields[i].size
Room(i, f) == Fields[i].size - Len(f.msg[i])

-----------------------------------------------------------------------------
(***************************************************************************)
(* The loop of pb_decode_noinit, one action for each kind of field.        *)
(***************************************************************************)
AtField == status = "run" /\ Top.left > 0 /\ ~Top.ended
Tag == ByteAt(1) \div 2
Wire == ByteAt(1) % 2

\* pb_decode_tag: a tag byte of 0 ends the message.
ZeroTag ==
    /\ AtField /\ ByteAt(1) = 0
    /\ Consume([Top EXCEPT !.ended = TRUE], 1)

\* pb_skip_field: a number, or a length and as many bytes.
SkipLengthWrapping == IF Top.left < 2 \/ Wire = WT_VARINT THEN 2 ELSE (2 + ByteAt(2)) % 8
SkipLength == IF Top.left < 2 \/ Wire = WT_VARINT THEN 2 ELSE 2 + ByteAt(2)

SkipUnknown ==
    /\ AtField /\ ByteAt(1) # 0 /\ Found(Tag) = {} /\ Extending(Tag) = {}
    /\ IF Top.left < SkipLength THEN Fail ELSE Consume(Top, SkipLength)

\* default_extension_decoder, for an extension that is a number.
Extension ==
    /\ AtField /\ ByteAt(1) # 0 /\ Found(Tag) = {}
    /\ \E i \in Extending(Tag) :
          IF Top.left < 2 THEN Fail
          ELSE Consume([Top EXCEPT !.msg[i] = <<<<Tag, ByteAt(2)>>>>], 2)

\* decode_static_field for a number; the wire type is not looked at.
Scalar ==
    /\ AtField
    /\ \E i \in Found(Tag) :
          /\ Fields[i].l = "scalar" /\ ~Packed(i, Wire)
          /\ LET f == Entered(Top, i)
             IN  IF CutShort(Top, i) \/ Overflows(i, f) \/ Top.left < 2 THEN Fail
                 ELSE Consume(Stored(f, i, ByteAt(2)), 2)

PackedArray ==
    /\ AtField
    /\ \E i \in Found(Tag) :
          /\ Packed(i, Wire)
          /\ LET f == Entered(Top, i)
                 n == IF Top.left < 2 THEN 0 ELSE ByteAt(2)
             IN  IF CutShort(Top, i) \/ Top.left < 2 + n \/ n > Room(i, f) THEN Fail
                 ELSE Consume([f EXCEPT !.msg[i] =
                                  @ \o SubSeq(source.input, pos + 3, pos + 2 + n)], 2 + n)

\* pb_dec_bytes into a static field of a given size.
Bytes ==
    /\ AtField
    /\ \E i \in Found(Tag) :
          /\ Fields[i].l = "bytes"
          /\ LET f == Entered(Top, i)
                 n == IF Top.left < 2 THEN 0 ELSE ByteAt(2)
             IN  IF Top.left < 2 + n \/ n > Fields[i].size THEN Fail
                 ELSE Consume(Stored(f, i, SubSeq(source.input, pos + 3, pos + 2 + n)), 2 + n)

\* pb_dec_submessage: pb_make_string_substream, and a message that is merged into
\* the one that is there unless it is an element of an array or a member of a union.
Initial(i, f) ==
    IF Fields[i].h \in {"required", "optional"} /\ f.msg[i] # << >> THEN f.msg[i][1]
    ELSE Empty(Fields[i].sub)

Submessage ==
    /\ AtField
    /\ \E i \in Found(Tag) :
          /\ Fields[i].l = "sub"
          /\ LET f == Entered(Top, i)
                 n == IF Top.left < 2 THEN 0 ELSE ByteAt(2)
             IN  IF Overflows(i, f) \/ Top.left < 2 + n THEN Fail
                 ELSE /\ pos' = pos + 2
                      /\ stack' = Append(SetTop([f EXCEPT !.left = @ - 2 - n]),
                                         Frame(Fields[i].sub, n, Initial(i, f), i))
                      /\ UNCHANGED <<source, status, result>>

-----------------------------------------------------------------------------
\* The number of required fields, found by going to the last field.
RequiredCount(fields) ==
    RequiredIndex(fields, Len(fields))
        + (IF fields[Len(fields)].h = "required" THEN 1 ELSE 0)

\* The words of fields_seen, whole ones and the last.
AllSeen(f) ==
    LET c == RequiredCount(Types[f.type])
        n == IF c > MaxRequired THEN MaxRequired ELSE c
    IN  /\ \A w \in 0 .. (n \div WordBits) - 1 : w * WordBits .. (w + 1) * WordBits - 1 \subseteq f.seen
        /\ n % WordBits # 0 =>
              {k \in f.seen : k \div WordBits = n \div WordBits} = (n \div WordBits) * WordBits .. n - 1

\* pb_close_string_substream: the rest of the message is skipped.
NotSkipped(f) == 0
Skipped(f) == f.left

EndOfMessage ==
    /\ status = "run" /\ (Top.left = 0 \/ Top.ended)
    /\ IF FixedShort(Top) \/ ~AllSeen(Top) THEN Fail
       ELSE IF Len(stack) = 1
       THEN /\ status' = "ok" /\ result' = Top.msg
            /\ UNCHANGED <<source, pos, stack>>
       ELSE LET d == Len(stack) - 1
                up == stack[d]
                h == Types[up.type][Top.into].h
            IN  /\ pos' = pos + Skipped(Top)
                /\ stack' = SubSeq(stack, 1, d - 1) \o
                            <<[up EXCEPT !.msg = [j \in DOMAIN @ |->
                                  IF j = Top.into
                                  THEN (IF h = "repeated" THEN Append(@[j], Top.msg) ELSE <<Top.msg>>)
                                  ELSE IF h = "oneof" /\ Types[up.type][j].h = "oneof" THEN << >>
                                  ELSE @[j]]]>>
                /\ UNCHANGED <<source, status, result>>

Next ==
    \/ ZeroTag \/ SkipUnknown \/ Extension \/ Scalar \/ PackedArray \/ Bytes
    \/ Submessage \/ EndOfMessage

Spec == Init /\ [][Next]_vars /\ WF_vars(Next)

-----------------------------------------------------------------------------
RECURSIVE Left(_)
Left(d) == IF d = 0 THEN 0 ELSE stack[d].left + Left(d - 1)

\* Wherever messages nest, and however a submessage ended, the place in the input is
\* the one that the lengths of the substreams say.
PositionsAgree == status # "error" => pos + Left(Len(stack)) = Len(source.input)

\* What pb_encode wrote, with or without a 0 at the end, decodes to the same message.
RoundTrip == source.sent # << >> /\ status # "run" => status = "ok" /\ result = source.sent[1]

\* Every message that is decoded has its required fields, those inside it too.
RECURSIVE HasRequired(_, _)
HasRequired(type, m) ==
    \A i \in DOMAIN m :
        LET f == Types[type][i]
        IN  /\ f.h = "required" => m[i] # << >>
            /\ f.l = "sub" => \A j \in DOMAIN m[i] : HasRequired(f.sub, m[i][j])
RequiredPresent == status = "ok" => HasRequired(source.type, result)

\* A fixed count field of a decoded message is absent or complete.
RECURSIVE FixedFull(_, _)
FixedFull(type, m) ==
    \A i \in DOMAIN m :
        LET f == Types[type][i]
        IN  /\ f.h = "fixed" => Len(m[i]) \in {0, f.size}
            /\ f.l = "sub" => \A j \in DOMAIN m[i] : FixedFull(f.sub, m[i][j])
FixedCountFull == status = "ok" => FixedFull(source.type, result)
=============================================================================
