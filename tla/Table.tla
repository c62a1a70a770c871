------------------------------- MODULE Table -------------------------------
(***************************************************************************)
(* How a table is written and searched: db/builder.cc, table/table.cc,     *)
(* table/table_builder.cc, table/filter_block.cc, util/bloom.cc and the    *)
(* order of internal keys in db/dbformat.cc.  Inside a block the keys are  *)
(* a sorted sequence (module Block).  Values are of any size, so a block   *)
(* may be full after any Add and take any room in the file.                *)
(***************************************************************************)
EXTENDS Bytes, FiniteSets, FiniteSetsExt

CONSTANTS
    UserKeys,       \* the user keys, sequences of bytes
    MaxSeq,         \* the newest sequence number in a table
    MaxEntries,     \* bound: the keys of a table
    MaxSize,        \* bound: the size of a block in the file
    FilterBase,     \* kFilterBase, in the same unit
    Hash,           \* BloomHash, a number of HashBits bits for each user key
    HashBits, Turned,   \* the width of a hash, and how far `delta' is turned
    BitsPerKey, MinBits, ByteBits, Probes   \* bits_per_key_, 64, 8 and k_, scaled

TableAssumption ==
    /\ \A u \in UserKeys : u \in Seq(0 .. MaxByte)
    /\ Hash \in [UserKeys -> 0 .. 2 ^ HashBits - 1]
    /\ {MaxSeq, MaxEntries, MaxSize, FilterBase, BitsPerKey, MinBits, ByteBits, Probes}
         \subseteq Nat \ {0}
    /\ Turned \in 1 .. HashBits - 1

VARIABLES
    added,      \* the keys the source iterator has yielded
    rep,        \* the builder, a TableBuilder::Rep with its FilterBlockBuilder
    file        \* "open", "kept" or "deleted"

vars == <<added, rep, file>>

-----------------------------------------------------------------------------
(***************************************************************************)
(* Internal keys: a user key and a sequence number, the newest first.      *)
(***************************************************************************)
SeekSeq == MaxSeq + 1                       \* kMaxSequenceNumber
InternalKey == {<<u, s>> : u \in UserKeys, s \in 1 .. MaxSeq}

InternalCompare(a, b) ==
    LET r == Compare(a[1], b[1]) IN IF r = 0 THEN b[2] - a[2] ELSE r

\* The user part is shortened if that makes it larger, and then stands before
\* everything stored under it.
Shortened(key, tmp) ==
    IF Len(tmp) < Len(key[1]) /\ Compare(key[1], tmp) < 0 THEN <<tmp, SeekSeq>> ELSE key

InternalSeparator(a, limit) == Shortened(a, FindShortestSeparator(a[1], limit[1]))
InternalSuccessor(a) == Shortened(a, FindShortSuccessor(a[1]))

-----------------------------------------------------------------------------
(***************************************************************************)
(* The Bloom filter of a set of user keys: a number of bytes, the bits     *)
(* that are set, and the number of probes.                                 *)
(***************************************************************************)
Rotated(h) == (h \div 2 ^ Turned) + ((h * 2 ^ (HashBits - Turned)) % 2 ^ HashBits)

BitPositions(u, bits, k) ==
    {((Hash[u] + j * Rotated(Hash[u])) % 2 ^ HashBits) % bits : j \in 0 .. k - 1}

BytesFor(bits) == (bits + ByteBits - 1) \div ByteBits
BitsFor(n) == IF n * BitsPerKey < MinBits THEN MinBits ELSE n * BitsPerKey

\* The number of bits a key is hashed to when a filter of n keys is made.
BitsAsAsked(n) == BitsFor(n)
BitsInBytes(n) == BytesFor(BitsFor(n)) * ByteBits

CreateFilter(K) ==
    LET n == Cardinality(K)
    IN  [bytes |-> BytesFor(BitsFor(n)), k |-> Probes,
         set |-> UNION {BitPositions(u, BitsInBytes(n), Probes) : u \in K}]

NoFilter == [bytes |-> 0, k |-> 0, set |-> {}]      \* len < 2

BloomMayMatch(u, f) ==
    f.bytes > 0 /\ BitPositions(u, f.bytes * ByteBits, f.k) \subseteq f.set

\* GenerateFilter; with no keys, the filter is empty.
Filter(K) == IF K = {} THEN NoFilter ELSE CreateFilter(K)

\* StartBlock: how many filters there are before a block that starts at `from'.
FiltersBelow(from) == from \div FilterBase

\* The loop of StartBlock: the first new filter gets the keys added so far.
StartBlock(r, from) ==
    LET n == FiltersBelow(from)  have == Len(r.filters)
    IN  IF n <= have THEN r
        ELSE [r EXCEPT !.start = {},
                       !.filters = @ \o [i \in 1 .. n - have |->
                                            IF i = 1 THEN Filter(r.start) ELSE NoFilter]]

\* FilterBlockBuilder::Finish
FinishFilter(r) ==
    IF r.start = {} THEN r
    ELSE [r EXCEPT !.start = {}, !.filters = Append(@, Filter(r.start))]

\* FilterBlockReader::KeyMayMatch: where there is no filter, perhaps.
KeyMayMatch(r, from, u) ==
    LET i == from \div FilterBase + 1
    IN  i <= Len(r.filters) => BloomMayMatch(u, r.filters[i])

-----------------------------------------------------------------------------
(***************************************************************************)
(* The builder.  `err' says what the file does when a block is written:    *)
(* "none", "append" (Append fails) or "flush" (the Flush after it fails).  *)
(***************************************************************************)
NewTableBuilder ==
    [blocks |-> << >>,      \* the data blocks in the file: [offset, keys]
     data |-> << >>,        \* data_block
     offset |-> 0,
     index |-> << >>,       \* index_block: [key, block]
     pending |-> FALSE,     \* pending_index_entry
     last |-> << >>,        \* last_key
     filters |-> << >>,     \* filter_offsets_ and result_
     start |-> {},          \* the keys of the filter under way
     ok |-> TRUE]

\* WriteBlock, with its WriteRawBlock.
WriteBlock(r, size) ==
    [r EXCEPT !.blocks = Append(@, [offset |-> r.offset, keys |-> r.data]),
              !.data = << >>, !.offset = @ + size]

Flush(r, size, err) ==
    IF ~r.ok \/ r.data = << >> THEN r
    ELSE IF err = "append" THEN StartBlock([r EXCEPT !.data = << >>, !.ok = FALSE], r.offset)
    ELSE LET w == WriteBlock(r, size)
         IN  StartBlock([w EXCEPT !.pending = TRUE, !.ok = (err = "none")], w.offset)

\* The index entry of the last block, once it is known what follows.
Indexed(r, key) ==
    IF ~r.pending THEN r
    ELSE [r EXCEPT !.index = Append(@, [key |-> key, block |-> Len(r.blocks)]),
                   !.pending = FALSE]

TableAdd(r, key, full, size, err) ==
    IF ~r.ok THEN r
    ELSE LET x == Indexed(r, InternalSeparator(r.last, key))
             y == [x EXCEPT !.start = @ \cup {key[1]}, !.last = key, !.data = Append(@, key)]
         IN  IF full THEN Flush(y, size, err) ELSE y

\* Finish: the blocks after the data blocks, one of which may fail (`rest').
TableFinish(r, size, err, rest) ==
    LET x == Flush(r, size, err)
    IN  IF ~x.ok THEN x
        ELSE [Indexed(FinishFilter(x), InternalSuccessor(x.last)) EXCEPT !.ok = rest]

-----------------------------------------------------------------------------
(***************************************************************************)
(* BuildTable: the keys of an iterator, and at the end the decision to     *)
(* keep the file.                                                          *)
(***************************************************************************)
Init == added = << >> /\ rep = NewTableBuilder /\ file = "open"

Errors == {"none", "append", "flush"}

Add ==
    /\ file = "open" /\ Len(added) < MaxEntries
    /\ \E key \in InternalKey, size \in 1 .. MaxSize, err \in Errors, full \in BOOLEAN :
          /\ \A i \in DOMAIN added : InternalCompare(added[i], key) < 0
          /\ added' = Append(added, key)
          /\ rep' = TableAdd(rep, key, full, size, err)
    /\ UNCHANGED file

\* Finish, then Sync, Close, opening the table and the iterator's own status, which
\* are all well or not (`kept').
Finish ==
    /\ file = "open" /\ added # << >>
    /\ \E size \in 1 .. MaxSize, err \in Errors, rest, kept \in BOOLEAN :
          /\ rep' = TableFinish(rep, size, err, rest)
          /\ file' = IF rep'.ok /\ kept THEN "kept" ELSE "deleted"
    /\ UNCHANGED added

Next == Add \/ Finish

Spec == Init /\ [][Next]_vars

-----------------------------------------------------------------------------
(***************************************************************************)
(* Searching the table.  `bad' are blocks that cannot be read, `filter'    *)
(* says whether the filter block could.                                    *)
(***************************************************************************)
\* Seek in the index block: the first entry that is not before the key, 0 if none is.
IndexSeek(k) ==
    LET S == {i \in DOMAIN rep.index : InternalCompare(rep.index[i].key, k) >= 0}
    IN  IF S = {} THEN 0 ELSE rep.index[Min(S)].block

\* BlockReader and Seek in the block: << >> or the first key that is not before k.
BlockSeek(b, k) ==
    LET keys == rep.blocks[b].keys
        S == {i \in DOMAIN keys : InternalCompare(keys[i], k) >= 0}
    IN  IF S = {} THEN << >> ELSE keys[Min(S)]

InternalGet(k, bad, filter) ==
    LET b == IndexSeek(k)
    IN  IF b = 0 \/ (filter /\ ~KeyMayMatch(rep, rep.blocks[b].offset, k[1])) THEN << >>
        ELSE IF b \in bad THEN <<"error">> ELSE BlockSeek(b, k)

\* SaveValue: another user key is none.
Get(k, bad, filter) ==
    LET e == InternalGet(k, bad, filter)
    IN  IF Len(e) = 2 /\ e[1] # k[1] THEN << >> ELSE e

\* A key behind the last is at the metaindex block, behind all data.
MetaindexOffset == rep.offset

ApproximateOffsetOf(k) ==
    LET b == IndexSeek(k) IN IF b = 0 THEN MetaindexOffset ELSE rep.blocks[b].offset

-----------------------------------------------------------------------------
LookupKey == {<<u, s>> : u \in UserKeys, s \in 1 .. SeekSeq}

\* What the source iterator yielded for a user key up to a sequence number.
Stored(k) ==
    LET S == {i \in DOMAIN added : added[i][1] = k[1] /\ added[i][2] <= k[2]}
    IN  IF S = {} THEN << >> ELSE added[Min(S)]

\* The builder's assertions: no index entry is pending while a block is filled, and
\* StartBlock never comes too late for a filter.
TypeOK ==
    /\ rep.pending => rep.data = << >>
    /\ file = "open" => Len(rep.filters) <= rep.offset \div FilterBase
    /\ rep.ok => Len(rep.blocks) = Len(rep.index) + (IF rep.pending THEN 1 ELSE 0)

\* An index key is not before the keys of its block and before those of the next,
\* however the comparator shortened it (the example "the r" in table_builder.cc).
SeparatorsSeparate ==
    \A i \in DOMAIN rep.index :
        /\ \A j \in DOMAIN rep.blocks[i].keys :
              InternalCompare(rep.blocks[i].keys[j], rep.index[i].key) <= 0
        /\ i < Len(rep.blocks) => InternalCompare(rep.index[i].key, rep.blocks[i + 1].keys[1]) < 0

\* A table that BuildTable keeps answers every lookup with the newest entry it was
\* given, with and without its filter; a block that cannot be read is an error and
\* not an absent key.
LookupIsRight ==
    file = "kept" =>
        \A k \in LookupKey, filter \in BOOLEAN :
            /\ Get(k, {}, filter) = Stored(k)
            /\ \A b \in DOMAIN rep.blocks : Get(k, {b}, filter) \in {Stored(k), <<"error">>}

\* ApproximateOffsetOf never goes back from a key to a later one.
OffsetsMonotone ==
    file = "kept" =>
        \A k, l \in LookupKey :
            InternalCompare(k, l) <= 0 => ApproximateOffsetOf(k) <= ApproximateOffsetOf(l)
=============================================================================
