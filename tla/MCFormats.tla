----------------------------- MODULE MCFormats ------------------------------
(***************************************************************************)
(* What is written is read back: the log and the tables of LevelDB, and    *)
(* the varints and the messages of nanopb.  The four share no state; a     *)
(* behaviour is one of one part, and the others stay in an initial state.  *)
(***************************************************************************)
EXTENDS Integers, Sequences, FiniteSets

VARIABLES
    part,           \* the part: "log", "table", "varint", "message" or none of these
    logFile, blockOffset, adding, logPhase, logPos, endOfBuffer, eof,
    initialOffset, resyncing, scratch, inFragmented, prospective,
    lastRecordOffset, out, reports, logCrashes, logErrors, lengths, misaligned,
    reopened, zeroed,                                       \* LogFormat
    added, rep, tableFile,                                  \* Table
    sent, input, count, low, above, d32, d64,               \* PbVarint
    source, pos, stack, status, result                      \* PbMessage

logVars == <<logFile, blockOffset, adding, logPhase, logPos, endOfBuffer, eof,
             initialOffset, resyncing, scratch, inFragmented, prospective,
             lastRecordOffset, out, reports, logCrashes, logErrors, lengths,
             misaligned, reopened, zeroed>>
tableVars == <<added, rep, tableFile>>
varintVars == <<sent, input, count, low, above, d32, d64>>
messageVars == <<source, pos, stack, status, result>>
formatVars == <<logVars, tableVars, varintVars, messageVars>>

-----------------------------------------------------------------------------
Log == INSTANCE LogFormat
    WITH BlockSize <- 7, HeaderSize <- 3, Lengths <- {0, 6},
         InitialOffsets <- {0, 6, 8}, MaxRecords <- 2, MaxCrashes <- 1,
         MaxErrors <- 1, file <- logFile, pos <- logPos, phase <- logPhase,
         crashes <- logCrashes, errors <- logErrors

\* Keys over the bytes 0 to 3, the last standing for 0xff: prefixes of one
\* another, keys with room between them, and keys of 0xff only.
MCUserKeys == {<<0>>, <<0, 1>>, <<2, 1>>, <<3, 0>>, <<3, 3>>}
MCHash == [u \in MCUserKeys |-> (u[1] * 21 + Len(u) * 5 + u[Len(u)] * 11) % 32]

Tables == INSTANCE Table
    WITH MaxByte <- 3, UserKeys <- MCUserKeys, MaxSeq <- 2, MaxEntries <- 3,
         MaxSize <- 2, FilterBase <- 2, Hash <- MCHash, HashBits <- 5,
         Turned <- 3, BitsPerKey <- 3, MinBits <- 5, ByteBits <- 4, Probes <- 2,
         file <- tableFile

Varint == INSTANCE PbVarint
    WITH Payload <- 3, Word <- 5, Long <- 10, BitposSize <- 16,
         Sizes <- {2, 4, 5, 10}, MaxBytes <- 7

-----------------------------------------------------------------------------
(***************************************************************************)
(* Four message types that nest, all inputs of up to MaxInput bytes, and   *)
(* the encodings of longer messages.                                       *)
(***************************************************************************)
MaxInput == 3

F(tag, h, l, size, sub) == [tag |-> tag, h |-> h, l |-> l, size |-> size, sub |-> sub]

MCTypes == <<
    <<F(1, "required", "scalar", 1, 0), F(2, "optional", "sub", 1, 2),
      F(3, "required", "bytes", 1, 0)>>,
    <<F(1, "required", "scalar", 1, 0), F(2, "fixed", "scalar", 2, 0),
      F(3, "fixed", "scalar", 2, 0)>>,
    <<F(1, "oneof", "scalar", 1, 0), F(2, "oneof", "sub", 1, 4), F(3, "repeated", "sub", 2, 4)>>,
    <<F(1, "repeated", "scalar", 2, 0), F(2, "ext", "scalar", 1, {3})>> >>

M4 == {<<a, e>> : a \in {<< >>, <<5>>, <<0, 2>>}, e \in {<< >>, <<<<3, 1>>>>}}
M2 == {<<<<1>>, <<0, 2>>, <<3, 3>>>>, <<<<0>>, <<6, 4>>, <<0, 0>>>>}
M1 == {<<<<7>>, a, <<b>>>> : a \in {<< >>} \cup {<<m>> : m \in M2}, b \in {<< >>, <<0>>}}
M3 == {<<a, << >>, r>> : a \in {<< >>, <<0>>}, r \in {<< >>} \cup {<<m, n>> : m, n \in M4}}
      \cup {<< << >>, <<m>>, <<n>> >> : m, n \in M4}
MCMessages == <<M1, M2, M3, M4>>

\* pb_encode, which asks for the types only.
Encoder == INSTANCE PbMessage
    WITH Types <- MCTypes, Sources <- {}, WordBits <- 2, MaxRequired <- 4

\* With a 0 at the end, other bytes may follow.
Sent(t, m) ==
    {[type |-> t, input |-> Encoder!Encode(t, m) \o end, sent |-> <<m>>] : end \in {<< >>, <<0>>, <<0, 3, 1>>}}

\* A fixed count field that another one follows, complete or not; a submessage
\* that a 0 ends early.
Longer ==
    {[type |-> 2, input |-> <<2, 1>> \o a \o <<7, 2, 1, 1>>, sent |-> << >>] :
        a \in {<<4, 1>>, <<4, 1, 4, 1>>, <<4, 1, 4, 1, 4, 1>>, <<5, 1, 3>>}}
    \cup {[type |-> 3, input |-> <<5, 2, 0, a>> \o b, sent |-> << >>] :
            a \in 0 .. 7, b \in {<< >>, <<2, 1>>}}

NoBytes == [type |-> 1, input |-> << >>, sent |-> << >>]

MCSources ==
    Longer \cup
    (UNION {{[type |-> t, input |-> s, sent |-> << >>] : s \in [1 .. n -> 0 .. 7]} :
              t \in 1 .. 4, n \in 0 .. MaxInput})
    \cup UNION {UNION {Sent(t, m) : m \in MCMessages[t]} : t \in 1 .. 4}

Message == INSTANCE PbMessage
    WITH Types <- MCTypes, Sources <- MCSources, WordBits <- 2, MaxRequired <- 4

ASSUME FormatsAssumption ==
    /\ Log!LogAssumption /\ Tables!TableAssumption /\ Varint!VarintAssumption
    /\ Message!MessageAssumption

-----------------------------------------------------------------------------
FormatPart == {"log", "table", "varint", "message"}

FormatsInit ==
    /\ Log!Init
    /\ Tables!Init
    /\ part # "varint" => sent = << >>
    /\ Varint!Init
    /\ \/ part = "message" /\ Message!Init
       \/ /\ part # "message"
          /\ source = NoBytes /\ pos = 0 /\ stack = << >>
          /\ status = "run" /\ result = << >>

FormatsNext ==
    \/ part = "log" /\ Log!Next
         /\ UNCHANGED <<part, tableVars, varintVars, messageVars>>
    \/ part = "table" /\ Tables!Next
         /\ UNCHANGED <<part, logVars, varintVars, messageVars>>
    \/ part = "varint" /\ Varint!Next
         /\ UNCHANGED <<part, logVars, tableVars, messageVars>>
    \/ part = "message" /\ Message!Next
         /\ UNCHANGED <<part, logVars, tableVars, varintVars>>

\* The caller of ReadRecord goes on reading, and decoding goes on.
Reads ==
    /\ part = "log" /\ (Log!ReadBlock \/ Log!ReadRecord)
    /\ UNCHANGED <<part, tableVars, varintVars, messageVars>>
Decodes ==
    part = "message" /\ Message!Next /\ UNCHANGED <<part, logVars, tableVars, varintVars>>

-----------------------------------------------------------------------------
\* ReadRecord returns records that were given to AddRecord, whole and in order,
\* whatever happened to the file; it returns every record whose blocks are as
\* they were written, whatever the other blocks look like; a log that ends early
\* because its writer died is not reported as corrupt; writer and reader stay
\* inside their block.
LogIsRead ==
    Log!OnlyWritten /\ Log!DamageIsLocal /\ Log!CrashIsNoCorruption /\ Log!TypeOK

\* A table that BuildTable keeps answers every lookup with the newest entry it
\* was given, with and without its filter, or with an error; the keys of its index
\* separate its blocks, however short they are; ApproximateOffsetOf never goes
\* back; the assertions of TableBuilder and FilterBlockBuilder hold.
TableIsRight ==
    /\ Tables!LookupIsRight /\ Tables!SeparatorsSeparate
    /\ Tables!OffsetsMonotone /\ Tables!TypeOK

\* Every number of a word is accepted by pb_decode_varint32, however it was
\* encoded, and a field of every size takes a value exactly if it fits, and keeps
\* it.
VarintsKeepValues == Varint!FitsIsAccepted /\ Varint!FieldsKeepValues

\* A message decodes to what was encoded; whatever the input, a message that is
\* accepted has its required fields and complete fixed count fields, and the
\* nested substreams agree on the place in the input.
MessageIsRight ==
    /\ Message!RoundTrip /\ Message!RequiredPresent
    /\ Message!FixedCountFull /\ Message!PositionsAgree

\* Reading a log and decoding a message come to an end, whatever the input.
DecodingEnds == Log!ReadingEnds /\ (part = "message" ~> status # "run")
=============================================================================
