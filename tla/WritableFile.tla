---------------------------- MODULE WritableFile ----------------------------
(***************************************************************************)
(* PosixWritableFile (util/env_posix.cc): a file with a write buffer of    *)
(* its own.  Bytes are numbered as they are appended.                      *)
(***************************************************************************)
EXTENDS Integers, Sequences

CONSTANTS
    BufferSize,     \* kWritableFileBufferSize
    MaxBytes,       \* bound: bytes appended
    MaxWriteErrors  \* bound: write errors

ASSUME BufferAssumption ==
    BufferSize \in Nat \ {0} /\ MaxBytes \in Nat /\ MaxWriteErrors \in Nat

VARIABLES
    appended,   \* the bytes given to Append so far
    buf,        \* buf_[0 .. pos_ - 1]
    file,       \* what write() has put into the file
    open,       \* fd_ >= 0
    ok,         \* no operation has failed so far
    flushed,    \* history: the bytes appended when Flush, Sync or Close last succeeded
    writeErrors

bufferVars == <<appended, buf, file, open, ok, flushed, writeErrors>>

BufferInit ==
    /\ appended = 0 /\ buf = << >> /\ file = << >> /\ open = TRUE /\ ok = TRUE
    /\ flushed = 0 /\ writeErrors = 0

Bytes(a, b) == [i \in 1 .. b - a |-> a + i]
Least(a, b) == IF a < b THEN a ELSE b

\* WriteUnbuffered: all of it, or an error after some of it.
Writes(data, good) ==
    IF good THEN file' = file \o data /\ UNCHANGED writeErrors
    ELSE /\ writeErrors < MaxWriteErrors /\ writeErrors' = writeErrors + 1 /\ data # << >>
         /\ \E k \in 0 .. Len(data) - 1 : file' = file \o SubSeq(data, 1, k)

\* Append: as much as fits into the buffer; then the full buffer is written,
\* and the rest goes into the buffer or, if it is too large, to the file.
FittingOneMore(n) == Least(n, BufferSize - Len(buf) + 1)
Fitting(n) == Least(n, BufferSize - Len(buf))
Small(rest) == rest < BufferSize

AppendFits(n) ==
    /\ Fitting(n) = n
    /\ buf' = buf \o Bytes(appended, appended + n) /\ appended' = appended + n
    /\ UNCHANGED <<file, open, ok, flushed, writeErrors>>

AppendFlushes(n, good) ==
    LET c == Fitting(n)
        full == buf \o Bytes(appended, appended + c)
        rest == Bytes(appended + c, appended + n)
    IN  /\ c < n /\ appended' = appended + n
        /\ \/ good /\ Small(n - c) /\ Writes(full, TRUE) /\ buf' = rest
           \/ good /\ ~Small(n - c) /\ Writes(full \o rest, TRUE) /\ buf' = << >>
           \/ ~good /\ Writes(full, FALSE) /\ buf' = << >>
           \/ ~good /\ ~Small(n - c) /\ buf' = << >>
              /\ writeErrors < MaxWriteErrors /\ writeErrors' = writeErrors + 1
              /\ \E k \in 0 .. n - c - 1 : file' = file \o full \o SubSeq(rest, 1, k)
        /\ ok' = (ok /\ good) /\ UNCHANGED <<open, flushed>>

AppendBytes(n) ==
    /\ open /\ appended + n <= MaxBytes
    /\ AppendFits(n) \/ \E good \in BOOLEAN : AppendFlushes(n, good)

\* FlushBuffer empties the buffer whether or not the write succeeds.
AfterFlush(good) == << >>
FlushBuffer(good) ==
    /\ Writes(buf, good) /\ buf' = AfterFlush(good)
    /\ ok' = (ok /\ good) /\ flushed' = IF good THEN appended ELSE flushed
    /\ UNCHANGED appended

\* Flush, Sync (with the descriptor's own sync) and Close
Flush(good) == open /\ FlushBuffer(good) /\ UNCHANGED open
CloseFile(good) == open /\ FlushBuffer(good) /\ open' = FALSE

BufferNext ==
    \/ \E n \in 1 .. 2 * BufferSize + 1 : AppendBytes(n)
    \/ \E good \in BOOLEAN : Flush(good) \/ CloseFile(good)

BufferSpec == BufferInit /\ [][BufferNext]_bufferVars

-----------------------------------------------------------------------------
\* As long as nothing failed, the file and then the buffer hold what was
\* appended, each byte once and in order, and the buffer is never overrun.
AllIsThere ==
    /\ Len(buf) <= BufferSize
    /\ ok => file \o buf = Bytes(0, appended)

\* Once an error has been reported the file may have a hole, but its bytes are
\* still in order and none is there twice.
BytesInOrder == \A i, j \in 1 .. Len(file) : i < j => file[i] < file[j]

\* A flush that succeeds has the whole file out, if nothing failed before.
FlushIsComplete == ok => Len(file) >= flushed

\* While nothing has failed, file and buffer hold all that was appended, and a
\* flush leaves nothing in the buffer; after an error too, no byte is in the file
\* twice or out of order.
NothingLost == AllIsThere /\ FlushIsComplete /\ BytesInOrder
=============================================================================
