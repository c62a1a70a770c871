------------------------------- MODULE Bytes -------------------------------
(***************************************************************************)
(* Keys as sequences of bytes, a byte being a number below 256 of which    *)
(* the small instances use a few: leveldb::Slice and the comparator of     *)
(* util/comparator.cc.                                                     *)
(***************************************************************************)
EXTENDS Integers, Sequences

CONSTANT MaxByte        \* 0xff

SmallerOf(i, j) == IF i < j THEN i ELSE j

\* The number of leading bytes in which two keys agree.
SharedPrefix(a, b) ==
    LET n == SmallerOf(Len(a), Len(b))
    IN  CHOOSE i \in 0 .. n : /\ \A j \in 1 .. i : a[j] = b[j]
                              /\ i < n => a[i + 1] # b[i + 1]

\* Slice::compare: memcmp over the shorter length, then the length.
Compare(a, b) ==
    LET i == SharedPrefix(a, b) + 1
    IN  IF i > Len(a) \/ i > Len(b) THEN Len(a) - Len(b) ELSE a[i] - b[i]

\* A key from `start' on and before `limit' that is as short as possible.
FindShortestSeparator(start, limit) ==
    LET i == SharedPrefix(start, limit) + 1
    IN  IF i <= Len(start) /\ i <= Len(limit) /\ start[i] < MaxByte /\ start[i] + 1 < limit[i]
        THEN SubSeq(start, 1, i - 1) \o <<start[i] + 1>>
        ELSE start

\* A short key from `key' on: the first byte that can be incremented is.
FindShortSuccessor(key) ==
    LET S == {i \in 1 .. Len(key) : key[i] # MaxByte}
        i == CHOOSE j \in S : \A k \in S : j <= k
    IN  IF S = {} THEN key ELSE SubSeq(key, 1, i - 1) \o <<key[i] + 1>>
=============================================================================
