-------------------------- MODULE TwoLevelIterator --------------------------
(***************************************************************************)
(* table/two_level_iterator.cc: an index iterator over blocks (or files)   *)
(* and a data iterator over the block it is at.  A block may be empty, and *)
(* one that cannot be read yields nothing but an error.                    *)
(***************************************************************************)
EXTENDS Positions, Sequences

CONSTANTS
    Target,     \* what may be sought
    Layouts     \* sequences of blocks [keys, sep, bad]; sep is the index key

LayoutAssumption ==
    \A l \in Layouts : \A i \in 1 .. Len(l) :
        /\ \A x \in l[i].keys : x <= l[i].sep
        /\ i < Len(l) => \A x \in l[i + 1].keys : x > l[i].sep
        /\ i < Len(l) => l[i].sep <= l[i + 1].sep

VARIABLES
    blocks,     \* the layout
    index,      \* index_iter_: the number of a block, 0 if it is not valid
    data,       \* the block of data_iter_, 0 for nullptr
    pos,        \* the position of data_iter_: << >> or <<key>>
    failed,     \* status_ is an error
    op,         \* the last operation
    passed      \* history: the bad blocks that the last operation ran over

vars == <<blocks, index, data, pos, failed, op, passed>>

First(S) == IF S = {} THEN 0 ELSE Least(S)[1]
LastOf(S) == IF S = {} THEN 0 ELSE Greatest(S)[1]

\* What can be read of a block.
KeysOf(i) == IF blocks[i].bad THEN {} ELSE blocks[i].keys
Block == 1 .. Len(blocks)

Init ==
    /\ blocks \in Layouts
    /\ index = 0 /\ data = 0 /\ pos = << >> /\ failed = FALSE
    /\ op = <<"new">> /\ passed = {}

-----------------------------------------------------------------------------
\* SetDataIterator: the status of the iterator that goes away is saved.
Replaced(S) == \E i \in S : blocks[i].bad
SaveError(S) == failed \/ Replaced(S)

\* InitDataBlock, the index iterator having come to rest at block j.
InitDataBlock(j) == j

\* SkipEmptyDataBlocksForward, with index_iter_ at i and data_iter_ at p in it;
\* `gone' is the block data_iter_ was in before, if it was another.
SkipEmptyDataBlocksForward(i, p, gone) ==
    LET j == IF i = 0 \/ p # << >> THEN i ELSE First({k \in Block : k > i /\ KeysOf(k) # {}})
        over == gone \cup (IF i = 0 \/ p # << >> THEN {}
                           ELSE i .. (IF j = 0 THEN Len(blocks) ELSE j - 1))
    IN  /\ index' = j /\ data' = InitDataBlock(j)
        /\ pos' = IF j = i THEN p ELSE IF j = 0 THEN << >> ELSE Least(KeysOf(j))
        /\ failed' = SaveError(over)
        /\ passed' = {k \in over : blocks[k].bad}
        /\ UNCHANGED blocks

SkipEmptyDataBlocksBackward(i, p, gone) ==
    LET j == IF i = 0 \/ p # << >> THEN i ELSE LastOf({k \in Block : k < i /\ KeysOf(k) # {}})
        over == gone \cup (IF i = 0 \/ p # << >> THEN {} ELSE j + 1 .. i)
    IN  /\ index' = j /\ data' = InitDataBlock(j)
        /\ pos' = IF j = i THEN p ELSE IF j = 0 THEN << >> ELSE Greatest(KeysOf(j))
        /\ failed' = SaveError(over)
        /\ passed' = {k \in over : blocks[k].bad}
        /\ UNCHANGED blocks

\* InitDataBlock keeps the data iterator when the block is the same.
Gone(i) == IF data = 0 \/ data = i THEN {} ELSE {data}

\* index_iter_.Seek: the first block whose index key is not before the target.
IndexSeekBehind(t) == First({i \in Block : blocks[i].sep > t})
IndexSeek(t) == First({i \in Block : blocks[i].sep >= t})

Seek(t) ==
    /\ op' = <<"seek", t>>
    /\ LET i == IndexSeek(t)
       IN  SkipEmptyDataBlocksForward(i,
                IF i = 0 THEN << >> ELSE AtOrAfter(KeysOf(i), t), Gone(i))

SeekToFirst ==
    /\ op' = <<"first">>
    /\ LET i == First(Block)
       IN  SkipEmptyDataBlocksForward(i, IF i = 0 THEN << >> ELSE Least(KeysOf(i)), Gone(i))

SeekToLast ==
    /\ op' = <<"last">>
    /\ LET i == LastOf(Block)
       IN  SkipEmptyDataBlocksBackward(i, IF i = 0 THEN << >> ELSE Greatest(KeysOf(i)), Gone(i))

Next ==
    /\ pos # << >> /\ op' = <<"next">>
    /\ SkipEmptyDataBlocksForward(index, After(KeysOf(data), pos[1]), {})

Prev ==
    /\ pos # << >> /\ op' = <<"prev">>
    /\ SkipEmptyDataBlocksBackward(index, Before(KeysOf(data), pos[1]), {})

Move == SeekToFirst \/ SeekToLast \/ Next \/ Prev \/ \E t \in Target : Seek(t)

Spec == Init /\ [][Move]_vars

-----------------------------------------------------------------------------
\* The data iterator is the block the index is at, and stands on one of its
\* keys or nowhere.
TypeOK ==
    /\ index \in 0 .. Len(blocks) /\ data \in {0, index}
    /\ pos # << >> => data # 0 /\ pos[1] \in KeysOf(data)
    /\ failed \in BOOLEAN

\* The iterator is a cursor over the keys of all blocks that can be read, whichever of
\* them are empty.
Flat == INSTANCE Cursor WITH
            items <- UNION {KeysOf(i) : i \in Block},
            at <- pos
IsCursor == Flat!Spec

\* A block that could not be read is not passed over in silence.
ErrorsShow == passed # {} => failed
=============================================================================
