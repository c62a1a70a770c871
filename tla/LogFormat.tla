------------------------------ MODULE LogFormat -----------------------------
(***************************************************************************)
(* The log files of LevelDB (write-ahead log and MANIFEST): log::Writer    *)
(* cuts records into fragments that never cross a block boundary, and      *)
(* log::Reader puts them together again after a crash, on a file whose end *)
(* may be missing or zeroed and in which bytes may have rotted.            *)
(*                                                                         *)
(* A file is a sequence of cells, one per byte.  A header is HeaderSize    *)
(* cells that tell the type, the length and, in place of the checksum, the *)
(* record and the position its payload starts at; a payload cell tells its *)
(* record and its position in it.  So a checksum matches exactly when all  *)
(* cells are the ones that were written together.  A header made of cells  *)
(* that do not belong together may read as any length.                     *)
(***************************************************************************)
EXTENDS Integers, Sequences

CONSTANTS
    BlockSize, HeaderSize,  \* kBlockSize, kHeaderSize
    Lengths,                \* lengths of records
    InitialOffsets,         \* what a Reader may be told to start at
    MaxRecords,             \* bound on calls of AddRecord
    MaxCrashes,             \* bound on crashes of the writer
    MaxErrors               \* bound on rotten bytes and failing appends

LogAssumption ==
    /\ HeaderSize \in Nat \ {0} /\ BlockSize \in Nat /\ BlockSize > HeaderSize
    /\ Lengths \subseteq Nat /\ InitialOffsets \subseteq Nat
    /\ MaxRecords \in Nat /\ MaxCrashes \in Nat /\ MaxErrors \in Nat

VARIABLES
    file,           \* the cells that are in the file
    blockOffset,    \* Writer::block_offset_
    adding,         \* AddRecord under way: << >> or <<[id, done, begin]>>
    phase,          \* "writing", "closed", "reading", "done", "failed"
    pos,            \* where buffer_ starts, as an offset in the file
    endOfBuffer,    \* end_of_buffer_offset_, where it ends
    eof,            \* eof_
    initialOffset, resyncing,
    scratch,        \* the fragments of the record being read
    inFragmented,   \* in_fragmented_record
    prospective,    \* prospective_record_offset
    lastRecordOffset,
    out,            \* the records ReadRecord has returned: [id, data]
    reports,        \* Corruption was called so often
    crashes, errors,    \* counters for the bounds
    lengths,        \* history: lengths[id] of each record that was added
    misaligned,     \* history: an append failed, so that blockOffset is wrong
    reopened,       \* history: the file was appended to after a crash
    zeroed          \* history: a crash left zeros in the file

writerVars == <<blockOffset, adding, crashes, lengths, misaligned,
                reopened, zeroed>>
readerVars == <<pos, endOfBuffer, eof, initialOffset, resyncing, scratch,
                inFragmented, prospective, lastRecordOffset, out, reports>>
vars == <<file, phase, errors, writerVars, readerVars>>

-----------------------------------------------------------------------------
Full == "full"
First == "first"
Middle == "middle"
Last == "last"
Eof == "eof"
BadRecord == "bad"

\* The cells of a header and of a payload; a zero; a byte that rotted.
HeadCell(i, type, len, id, from) == <<"head", i, type, len, id, from>>
Data(id, i) == <<"data", id, i>>
Zero == <<"zero">>
Rot == <<"rot">>

Payload(id, from, len) == [i \in 1 .. len |-> Data(id, from + i)]
Record(type, id, from, len) ==
    [i \in 1 .. HeaderSize |-> HeadCell(i, type, len, id, from)]
        \o Payload(id, from, len)
Zeros(n) == [i \in 1 .. n |-> Zero]
Smaller(a, b) == IF a < b THEN a ELSE b

Init ==
    /\ file = << >> /\ blockOffset = 0 /\ adding = << >>
    /\ phase = "writing"
    /\ pos = 0 /\ endOfBuffer = 0 /\ eof = FALSE
    /\ initialOffset = 0 /\ resyncing = FALSE
    /\ scratch = << >> /\ inFragmented = FALSE
    /\ prospective = 0 /\ lastRecordOffset = 0
    /\ out = << >> /\ reports = 0
    /\ crashes = 0 /\ errors = 0
    /\ lengths = << >> /\ misaligned = FALSE /\ reopened = FALSE
    /\ zeroed = FALSE

-----------------------------------------------------------------------------
(***************************************************************************)
(* log::Writer                                                             *)
(***************************************************************************)

\* Writer::AddRecord is called.
AddRecord(len) ==
    /\ phase = "writing" /\ adding = << >>
    /\ Len(lengths) < MaxRecords
    /\ adding' = <<[id |-> Len(lengths) + 1, done |-> 0, begin |-> TRUE]>>
    /\ lengths' = Append(lengths, len)
    /\ UNCHANGED <<file, phase, errors, blockOffset, crashes, misaligned,
                   reopened, zeroed, readerVars>>

\* What is left of the block is too short for a header: it is filled with
\* zeros, and the next block begins.
NoRoom == BlockSize - blockOffset < HeaderSize
Trailer == IF NoRoom THEN Zeros(BlockSize - blockOffset) ELSE << >>

\* The next fragment: where its block starts counting, its length, its type.
Fragment ==
    LET a == adding[1]
        left == lengths[a.id] - a.done
        start == IF NoRoom THEN 0 ELSE blockOffset
        len == Smaller(left, BlockSize - start - HeaderSize)
    IN  [start |-> start, len |-> len, end |-> left = len,
         type |-> CASE a.begin /\ left = len -> Full
                    [] a.begin /\ left # len -> First
                    [] ~a.begin /\ left = len -> Last
                    [] OTHER -> Middle]

\* One turn of the loop of AddRecord with its EmitPhysicalRecord.
EmitPhysicalRecord ==
    /\ phase = "writing" /\ adding # << >>
    /\ LET a == adding[1]
           f == Fragment
       IN  /\ file' = file \o Trailer \o Record(f.type, a.id, a.done, f.len)
           /\ blockOffset' = f.start + HeaderSize + f.len
           /\ adding' = IF f.end THEN << >>
                        ELSE <<[a EXCEPT !.done = @ + f.len, !.begin = FALSE]>>
    /\ UNCHANGED <<phase, errors, crashes, lengths, misaligned, reopened,
                   zeroed, readerVars>>

\* An append of it fails: part of the fragment is in the file, block_offset_
\* moves on as if all of it were, and AddRecord returns the error.
EmitFails ==
    /\ phase = "writing" /\ adding # << >>
    /\ errors < MaxErrors
    /\ errors' = errors + 1
    /\ LET a == adding[1]
           f == Fragment
           all == Record(f.type, a.id, a.done, f.len)
       IN  /\ \E n \in 0 .. Len(all) - 1 :
                 file' = file \o Trailer \o SubSeq(all, 1, n)
           /\ blockOffset' = f.start + HeaderSize + f.len
    /\ adding' = << >>
    /\ misaligned' = TRUE
    /\ UNCHANGED <<phase, crashes, lengths, reopened, zeroed, readerVars>>

\* The machine stops: the file ends anywhere, or there are zeros from there on.
Crash ==
    /\ phase = "writing"
    /\ crashes < MaxCrashes
    /\ crashes' = crashes + 1
    /\ \E n \in 0 .. Len(file) :
          \/ file' = SubSeq(file, 1, n) /\ UNCHANGED zeroed
          \/ file' = SubSeq(file, 1, n) \o Zeros(Len(file) - n) /\ zeroed' = TRUE
    /\ adding' = << >>
    /\ phase' = "closed"
    /\ UNCHANGED <<errors, blockOffset, lengths, misaligned, reopened, readerVars>>

\* Writer(dest, dest_length): the file is appended to (reuse_logs).
Reopen ==
    /\ phase = "closed"
    /\ phase' = "writing"
    /\ blockOffset' = Len(file) % BlockSize
    /\ reopened' = TRUE
    /\ UNCHANGED <<file, errors, adding, crashes, lengths, misaligned, zeroed,
                   readerVars>>

\* A byte on the disk changes.
Decay ==
    /\ phase = "closed"
    /\ errors < MaxErrors
    /\ errors' = errors + 1
    /\ \E n \in DOMAIN file : file' = [file EXCEPT ![n] = Rot]
    /\ UNCHANGED <<phase, writerVars, readerVars>>

-----------------------------------------------------------------------------
(***************************************************************************)
(* log::Reader                                                             *)
(***************************************************************************)

\* Reader(file, reporter, checksum, initial_offset) and, at the first
\* ReadRecord, SkipToInitialBlock.
OpenReader(offset) ==
    /\ phase \in {"writing", "closed"} /\ adding = << >>
    /\ phase' = "reading"
    /\ initialOffset' = offset
    /\ resyncing' = (offset > 0)
    /\ LET inBlock == offset % BlockSize
           start == (offset - inBlock)
                      + IF inBlock > BlockSize - (HeaderSize - 1)
                          THEN BlockSize ELSE 0
       IN  pos' = start /\ endOfBuffer' = start
    /\ UNCHANGED <<file, errors, writerVars, eof, scratch, inFragmented,
                   prospective, lastRecordOffset, out, reports>>

BufferLeft == endOfBuffer - pos

\* A full block taken for the last one, and an end that goes unnoticed.
FullIsLastBlock(n) == n <= BlockSize
\* A short block is the last.
LastBlock(n) == n < BlockSize

\* ReadPhysicalRecord reads the next block, or fails to.
ReadBlock ==
    /\ phase = "reading"
    /\ BufferLeft < HeaderSize /\ ~eof
    /\ LET n == Smaller(BlockSize, IF endOfBuffer < Len(file)
                                     THEN Len(file) - endOfBuffer ELSE 0)
       IN  /\ pos' = endOfBuffer
           /\ endOfBuffer' = endOfBuffer + n
           /\ eof' = LastBlock(n)
    /\ UNCHANGED <<file, phase, errors, writerVars, initialOffset, resyncing,
                   scratch, inFragmented, prospective, lastRecordOffset, out,
                   reports>>

ReadFails ==
    /\ phase = "reading"
    /\ BufferLeft < HeaderSize /\ ~eof
    /\ errors < MaxErrors
    /\ errors' = errors + 1
    /\ reports' = reports + 1
    /\ eof' = TRUE
    /\ phase' = "failed"
    /\ UNCHANGED <<file, writerVars, pos, endOfBuffer, initialOffset, resyncing,
                   scratch, inFragmented, prospective, lastRecordOffset, out>>

\* The header at pos is whole: its cells were written together.
WholeHeader ==
    /\ file[pos + 1][1] = "head"
    /\ \A i \in 1 .. HeaderSize :
          LET h == file[pos + 1]
          IN  file[pos + i] = HeadCell(i, h[3], h[4], h[5], h[6])

ZeroHeader == \A i \in 1 .. HeaderSize : file[pos + i] = Zero

\* The payload is the one the header was written for.
ChecksumMatches(h, data) == data = Payload(h[5], h[6], h[4])

Drop(type, report) ==
    [type |-> type, next |-> endOfBuffer, data |-> << >>, id |-> 0,
     report |-> report /\ pos >= initialOffset]

\* A record that is longer than the rest of the block: at the end of the file
\* its writer died.
TooLong == IF eof THEN Drop(Eof, FALSE) ELSE Drop(BadRecord, TRUE)

\* What ReadPhysicalRecord may return: the type, where the buffer starts next,
\* the fragment (and the record it is of), and whether a drop was reported.
Physical ==
    LET h == file[pos + 1]
        next == pos + HeaderSize + h[4]
        data == SubSeq(file, pos + HeaderSize + 1, next)
    IN  IF BufferLeft < HeaderSize THEN {Drop(Eof, FALSE)}
        ELSE IF ZeroHeader THEN {Drop(BadRecord, FALSE)}
        ELSE IF ~WholeHeader THEN {TooLong, Drop(BadRecord, TRUE)}
        ELSE IF next > endOfBuffer THEN {TooLong}
        ELSE IF ~ChecksumMatches(h, data) THEN {Drop(BadRecord, TRUE)}
        ELSE {[type |-> IF pos < initialOffset THEN BadRecord ELSE h[3],
               next |-> next, data |-> data, id |-> h[5], report |-> FALSE]}

\* One turn of the loop of ReadRecord, on what ReadPhysicalRecord returned.
Turn(o) ==
    /\ phase = "reading"
    /\ BufferLeft >= HeaderSize \/ eof
    /\ o \in Physical
    /\ pos' = o.next
    /\ UNCHANGED <<file, errors, writerVars, endOfBuffer, eof, initialOffset>>

\* ReportDrop, for drops of at least n bytes that end where the buffer starts.
Report(o, n, cond) ==
    reports' = reports + (IF o.report THEN 1 ELSE 0)
                 + (IF cond /\ o.next - n >= initialOffset THEN 1 ELSE 0)

\* Reading from the middle of the file: the end of a record whose start was
\* not read is passed over.
Resync(o) ==
    /\ Turn(o)
    /\ resyncing /\ o.type \in {Middle, Last}
    /\ resyncing' = (o.type = Middle)
    /\ Report(o, 0, FALSE)
    /\ UNCHANGED <<phase, scratch, inFragmented, prospective, lastRecordOffset,
                   out>>

Returned(id, data, offset) ==
    /\ out' = Append(out, [id |-> id, data |-> data])
    /\ lastRecordOffset' = offset
    /\ prospective' = offset
    /\ scratch' = << >> /\ inFragmented' = FALSE

OnFull(o) ==
    /\ Turn(o)
    /\ o.type = Full
    /\ resyncing' = FALSE
    /\ Report(o, Len(scratch), inFragmented /\ scratch # << >>)
    /\ Returned(o.id, o.data, pos)
    /\ UNCHANGED phase

OnFirst(o) ==
    /\ Turn(o)
    /\ o.type = First
    /\ resyncing' = FALSE
    /\ Report(o, Len(scratch), inFragmented /\ scratch # << >>)
    /\ prospective' = pos
    /\ scratch' = o.data
    /\ inFragmented' = TRUE
    /\ UNCHANGED <<phase, lastRecordOffset, out>>

OnMiddleOrLast(o) ==
    /\ Turn(o)
    /\ ~resyncing /\ o.type \in {Middle, Last}
    /\ Report(o, Len(o.data), ~inFragmented)
    /\ IF inFragmented /\ o.type = Last
         THEN Returned(o.id, scratch \o o.data, prospective)
         ELSE /\ scratch' = IF inFragmented THEN scratch \o o.data ELSE scratch
              /\ UNCHANGED <<inFragmented, prospective, out, lastRecordOffset>>
    /\ UNCHANGED <<phase, resyncing>>

\* The end, or a record that the writer did not complete: ReadRecord returns
\* false.
OnEof(o) ==
    /\ Turn(o)
    /\ o.type = Eof
    /\ resyncing' = FALSE
    /\ Report(o, 0, FALSE)
    /\ scratch' = << >>
    /\ phase' = "done"
    /\ UNCHANGED <<inFragmented, prospective, lastRecordOffset, out>>

OnBadRecord(o) ==
    /\ Turn(o)
    /\ o.type = BadRecord
    /\ resyncing' = FALSE
    /\ Report(o, Len(scratch), inFragmented)
    /\ scratch' = << >>
    /\ inFragmented' = FALSE
    /\ UNCHANGED <<phase, prospective, lastRecordOffset, out>>

ReadRecord ==
    \E o \in Physical :
        \/ Resync(o)
        \/ OnFull(o)
        \/ OnFirst(o)
        \/ OnMiddleOrLast(o)
        \/ OnEof(o)
        \/ OnBadRecord(o)

Next ==
    \/ \E len \in Lengths : AddRecord(len)
    \/ EmitPhysicalRecord
    \/ EmitFails
    \/ Crash
    \/ Reopen
    \/ Decay
    \/ \E offset \in InitialOffsets : OpenReader(offset)
    \/ ReadBlock
    \/ ReadFails
    \/ ReadRecord

Spec == Init /\ [][Next]_vars /\ WF_vars(ReadBlock \/ ReadRecord)

-----------------------------------------------------------------------------
(***************************************************************************)
(* Correctness.                                                            *)
(***************************************************************************)

TypeOK ==
    /\ blockOffset \in 0 .. BlockSize
    /\ pos \in Nat /\ endOfBuffer \in Nat /\ BufferLeft <= BlockSize
    /\ adding = << >> \/ adding[1].done \in 0 .. lengths[adding[1].id]
    /\ phase = "reading" => pos <= endOfBuffer
    /\ Len(out) <= Len(lengths)
    /\ lastRecordOffset <= Len(file)

\* ReadRecord returns records that were given to AddRecord, whole and in their
\* order: whatever is missing, zeroed or rotten, and even after an append that
\* failed, no record is returned twice or put together from pieces of two.
OnlyWritten ==
    /\ \A i \in DOMAIN out :
          out[i].data = Payload(out[i].id, 0, lengths[out[i].id])
    /\ \A i, j \in DOMAIN out : i < j => out[i].id < out[j].id

\* The headers of record id that are in the file.
HeadersOf(id) ==
    {n \in DOMAIN file : /\ file[n][1] = "head" /\ file[n][2] = 1
                         /\ file[n][5] = id}

\* The fragment whose header starts at n is in the file as it was written.
WholeAt(n) ==
    LET h == file[n]
        end == n + HeaderSize + h[4] - 1
    IN  /\ end <= Len(file)
        /\ SubSeq(file, n, end) = Record(h[3], h[5], h[6], h[4])

CellsAt(n) == n .. n + HeaderSize + file[n][4] - 1
BlockOf(n) == (n - 1) \div BlockSize

\* The cells that are part of whole fragments.
WholeCells ==
    UNION {CellsAt(n) : n \in {m \in UNION {HeadersOf(id) : id \in DOMAIN lengths} :
                                 WholeAt(m)}}

\* The blocks in which every cell is part of a whole fragment or fills the end.
WholeBlocks ==
    LET whole == WholeCells
        good(n) == \/ n \in whole
                   \/ /\ file[n] = Zero
                      /\ n + HeaderSize > (BlockOf(n) + 1) * BlockSize + 1
    IN  {BlockOf(n) : n \in DOMAIN file}
            \ {BlockOf(n) : n \in {m \in DOMAIN file : ~good(m)}}

\* All fragments of record id are in the file.
Complete(id) ==
    /\ \E n \in HeadersOf(id) : file[n][3] \in {Full, First}
    /\ \E n \in HeadersOf(id) : file[n][3] \in {Full, Last}
    /\ \A i \in 1 .. lengths[id] : \E n \in DOMAIN file : file[n] = Data(id, i)

Starts(id) == CHOOSE n \in HeadersOf(id) : file[n][3] \in {Full, First}

BlocksOf(id) ==
    {BlockOf(n) : n \in {m \in DOMAIN file :
                            \/ file[m][1] = "head" /\ file[m][5] = id
                            \/ file[m][1] = "data" /\ file[m][2] = id}}

\* Damage is local: a record is read if it is completely in the file and every
\* block it touches is as it was written, whatever the other blocks look like;
\* appending to a file after a crash does not change that.  Records that start
\* before the initial offset are the ones left out.
DamageIsLocal ==
    phase = "done" /\ ~misaligned =>
        \A id \in DOMAIN lengths :
            /\ Complete(id) /\ BlocksOf(id) \subseteq WholeBlocks
            /\ Starts(id) - 1 >= initialOffset
            => \E i \in DOMAIN out : out[i].id = id

\* A file whose end is missing because the writer died is not reported as
\* corrupt, wherever it ends.
CrashIsNoCorruption ==
    phase = "done" /\ errors = 0 /\ ~reopened /\ ~zeroed /\ initialOffset = 0
        => reports = 0

\* Reading comes to an end.
ReadingEnds == phase = "reading" ~> phase # "reading"
=============================================================================
