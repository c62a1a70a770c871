------------------------------- MODULE Block -------------------------------
(***************************************************************************)
(* table/block_builder.cc and table/block.cc.  A block stores each key as  *)
(* what it shares with the key before it and the rest, and starts afresh   *)
(* at restart points.  An iterator rebuilds keys on its way through the    *)
(* block.  Offsets into the block are the numbers of its entries; the end  *)
(* of the entries, restarts_, is the number after the last.                *)
(***************************************************************************)
EXTENDS Bytes, FiniteSetsExt, SequencesExt

CONSTANTS
    MaxLen,         \* the longest key
    MaxEntries,     \* bound: entries of a block
    Intervals,      \* values of block_restart_interval
    Damages         \* what may be wrong with one entry: {}, or "torn", "long"

BlockAssumption ==
    /\ MaxByte \in Nat /\ MaxLen \in Nat /\ MaxEntries \in Nat
    /\ Intervals \subseteq Nat \ {0}
    /\ Damages \subseteq {"torn", "long"}

VARIABLES
    keys,       \* the keys that were added, in order
    block,      \* [entries, restarts]: what Finish() wrote
    it,         \* the iterator: current_, restart_index_, key_, value_, status_
    op,         \* the last operation
    walked      \* history: since SeekToFirst or SeekToLast, the way and the keys

vars == <<keys, block, it, op, walked>>

Key == UNION {[1 .. n -> 0 .. MaxByte] : n \in 0 .. MaxLen}

\* Keys as numbers, in the order of the keys, for the cursor below.
Weight(i) == (MaxByte + 2) ^ (MaxLen - i)
Rank(k) == SumSet({(k[i] + 1) * Weight(i) : i \in DOMAIN k})

-----------------------------------------------------------------------------
(***************************************************************************)
(* The builder.                                                            *)
(***************************************************************************)

NewBlockBuilder == [entries |-> << >>, restarts |-> <<1>>, counter |-> 0, last |-> << >>]

BuilderAdd(b, key, interval) ==
    LET restart == b.counter >= interval
        shared == IF restart THEN 0 ELSE SharedPrefix(b.last, key)
    IN  [entries |-> Append(b.entries, [shared |-> shared, torn |-> FALSE,
                                        rest |-> SubSeq(key, shared + 1, Len(key)),
                                        value |-> key]),
         restarts |-> IF restart THEN Append(b.restarts, Len(b.entries) + 1) ELSE b.restarts,
         counter |-> (IF restart THEN 0 ELSE b.counter) + 1,
         last |-> key]

Finish(ks, interval) ==
    LET b == FoldLeft(LAMBDA x, k : BuilderAdd(x, k, interval), NewBlockBuilder, ks)
    IN  [entries |-> b.entries, restarts |-> b.restarts]

\* A block that changed on the medium and is read without its checksum: an entry
\* that does not decode, or one that shares more than any key has.
Damaged(b, i, d) ==
    IF d = "torn" THEN [b EXCEPT !.entries[i].torn = TRUE]
    ELSE [b EXCEPT !.entries[i].shared = MaxLen + 1]

-----------------------------------------------------------------------------
(***************************************************************************)
(* The iterator.  `next' is where value_ ends.  Restart points are counted *)
(* from 1.                                                                 *)
(***************************************************************************)

Restarts == Len(block.entries) + 1          \* restarts_
NumRestarts == Len(block.restarts)
GetRestartPoint(i) == block.restarts[i]

NewIterator == [current |-> Restarts, restart |-> NumRestarts + 1, key |-> << >>,
                value |-> << >>, next |-> 1, failed |-> FALSE]

SeekToRestartPoint(x, i) ==
    [x EXCEPT !.key = << >>, !.restart = i, !.next = GetRestartPoint(i)]

AtEnd(x) == [x EXCEPT !.current = Restarts, !.restart = NumRestarts + 1]

CorruptionErrorUnsaid(x) == [AtEnd(x) EXCEPT !.key = << >>, !.value = << >>]
CorruptionError(x) == [AtEnd(x) EXCEPT !.failed = TRUE, !.key = << >>, !.value = << >>]

\* The last restart point before the entry, looked for from the present one on.
RestartOf(x, current) ==
    Max({x.restart} \cup {i \in x.restart + 1 .. NumRestarts : GetRestartPoint(i) < current})

\* key_.resize(shared), which fills up with zeros; key_.append(rest)
Resized(key, e) ==
    [i \in 1 .. e.shared |-> IF i <= Len(key) THEN key[i] ELSE 0] \o e.rest

\* DecodeEntry fails, or more is shared than there is.
BadEntry(x, e) == e.torn \/ Len(x.key) < e.shared

ParseNextKey(x) ==
    IF x.next >= Restarts THEN AtEnd(x)
    ELSE LET e == block.entries[x.next]
         IN  IF BadEntry(x, e) THEN CorruptionError(x)
             ELSE [x EXCEPT !.current = x.next, !.next = x.next + 1,
                            !.key = Resized(x.key, e),
                            !.value = e.value,
                            !.restart = RestartOf(x, x.next)]

Valid(x) == x.current < Restarts

\* The loops of Prev and SeekToLast: on until the entry ends at `original'.
RECURSIVE ParseUpTo(_, _)
ParseUpTo(x, original) ==
    LET y == ParseNextKey(x)
    IN  IF Valid(y) /\ y.next < original THEN ParseUpTo(y, original) ELSE y

\* Whether Prev has to back up further than to a restart point.
NotBefore(i, original) == GetRestartPoint(i) >= original

PrevOf(x) ==
    LET S == {i \in 1 .. x.restart : ~NotBefore(i, x.current)}
    IN  IF S = {} THEN AtEnd(x) ELSE ParseUpTo(SeekToRestartPoint(x, Max(S)), x.current)

\* The binary search of Seek: the last restart point whose key is before the
\* target, or 0 if an entry at a restart point is no such entry.
RECURSIVE SearchRestarts(_, _, _)
SearchRestarts(t, left, right) ==
    IF left >= right THEN left
    ELSE LET mid == (left + right + 1) \div 2
             e == block.entries[GetRestartPoint(mid)]
         IN  IF e.torn \/ e.shared # 0 THEN 0
             ELSE IF Compare(e.rest, t) < 0 THEN SearchRestarts(t, mid, right)
             ELSE SearchRestarts(t, left, mid - 1)

RECURSIVE ParseUntil(_, _)
ParseUntil(x, t) ==
    LET y == ParseNextKey(x)
    IN  IF Valid(y) /\ Compare(y.key, t) < 0 THEN ParseUntil(y, t) ELSE y

-----------------------------------------------------------------------------
Here(x) == IF Valid(x) THEN {x.key} ELSE {}

Init ==
    /\ \E K \in SUBSET Key :
          Cardinality(K) <= MaxEntries /\ keys = SetToSortSeq(K, LAMBDA a, b : Compare(a, b) < 0)
    /\ \E n \in Intervals :
          \/ block = Finish(keys, n)
          \/ \E i \in DOMAIN keys, d \in Damages : block = Damaged(Finish(keys, n), i, d)
    /\ it = NewIterator /\ op = <<"new">> /\ walked = <<"none", {}>>

SeekToFirst ==
    /\ op' = <<"first">>
    /\ it' = ParseNextKey(SeekToRestartPoint(it, 1))
    /\ walked' = <<"next", Here(it')>>
    /\ UNCHANGED <<keys, block>>

SeekToLast ==
    /\ op' = <<"last">>
    /\ it' = ParseUpTo(SeekToRestartPoint(it, NumRestarts), Restarts)
    /\ walked' = <<"prev", Here(it')>>
    /\ UNCHANGED <<keys, block>>

Seek(t) ==
    /\ op' = <<"seek", Rank(t)>>
    /\ LET left == SearchRestarts(t, 1, NumRestarts)
       IN  it' = IF left = 0 THEN CorruptionError(it)
                 ELSE ParseUntil(SeekToRestartPoint(it, left), t)
    /\ walked' = <<"none", {}>>
    /\ UNCHANGED <<keys, block>>

Walked(way) == IF walked[1] = way THEN <<way, walked[2] \cup Here(it')>> ELSE <<"none", {}>>

Next ==
    /\ Valid(it) /\ op' = <<"next">>
    /\ it' = ParseNextKey(it)
    /\ walked' = Walked("next")
    /\ UNCHANGED <<keys, block>>

Prev ==
    /\ Valid(it) /\ op' = <<"prev">>
    /\ it' = PrevOf(it)
    /\ walked' = Walked("prev")
    /\ UNCHANGED <<keys, block>>

Move == SeekToFirst \/ SeekToLast \/ Next \/ Prev \/ \E t \in Key : Seek(t)

Spec == Init /\ [][Move]_vars

-----------------------------------------------------------------------------
Sound == \A i \in DOMAIN block.entries : ~block.entries[i].torn /\ block.entries[i].shared <= MaxLen

\* The iterator of an undamaged block is a cursor over the keys that BlockBuilder::Add
\* was called with, wherever the restart points fall.  (Nothing is said here of a
\* damaged block: its cursor is one that never moves.)
Flat == INSTANCE Cursor WITH
            Target <- {Rank(k) : k \in Key},
            items <- {Rank(keys[i]) : i \in DOMAIN keys},
            at <- IF Sound /\ Valid(it) THEN <<Rank(it.key)>> ELSE << >>,
            op <- IF Sound THEN op ELSE <<"new">>
IsCursor == Flat!Spec

\* Whatever happened to the block, key() is the key of the entry that value()
\* belongs to, and one that was added.
KeyIsStored == Valid(it) => it.key = keys[it.current] /\ it.value = it.key

\* Who walks a whole block one way or the other and is told of no error has seen all
\* of its keys.
NoSilentLoss ==
    walked[1] # "none" /\ ~Valid(it) /\ ~it.failed => walked[2] = ToSet(keys)
=============================================================================
