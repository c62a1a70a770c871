----------------------------- MODULE MCReaders ------------------------------
(***************************************************************************)
(* How LevelDB finds what it holds: the user's iterator over a memtable    *)
(* that grows, the memtable's skip list, the cache of open tables, and the *)
(* iterators over one block and over the blocks of a table.  The five      *)
(* share no state; a behaviour is one of one part, and the others stay in  *)
(* an initial state.                                                       *)
(***************************************************************************)
EXTENDS SkipList, TLC

VARIABLES
    part,           \* "iterator", "list", "cache", "block" or "blocks"
    log, flushed, iter, valid, direction, savedKey, savedValue, pc,
    skipping, valueType, call, op, before,                      \* DBIter
    cache, thread, live,                                        \* TableCache
    keys, block, it, blockOp, walked,                           \* Block
    blocks, index, data, dataPos, failed, tableOp, passed       \* TwoLevelIterator

iterVars == <<log, flushed, iter, valid, direction, savedKey, savedValue, pc,
              skipping, valueType, call, op, before>>
cacheVars == <<cache, thread, live>>
blockVars == <<keys, block, it, blockOp, walked>>
tableVars == <<blocks, index, data, dataPos, failed, tableOp, passed>>
readerVars == <<part, vars, iterVars, cacheVars, blockVars, tableVars>>

-----------------------------------------------------------------------------
Iterator == INSTANCE DBIter WITH MaxKey <- 2, Sequence <- 3, MaxWrites <- 4

\* Three files, two of which hash alike; one costs twice as much.
File == {"f", "g", "h"}
MCHash == "f" :> 1 @@ "g" :> 3 @@ "h" :> 2
MCCharge == "f" :> 1 @@ "g" :> 1 @@ "h" :> 2

Tables == INSTANCE TableCache
    WITH Key <- File, Hash <- MCHash, Charge <- MCCharge, Capacity <- 2, MinLength <- 1,
         Thread <- {"t", "u"}, MaxInserts <- 3

Blocks == INSTANCE Block
    WITH MaxByte <- 1, MaxLen <- 2, MaxEntries <- 4, Intervals <- {1, 3}, Damages <- {"torn", "long"},
         op <- blockOp

\* All layouts of three blocks, each with keys, empty or unreadable.
MCBlocks(i) ==
    {[keys |-> K, sep |-> 2 * i, bad |-> b] : K \in SUBSET {2 * i - 1, 2 * i}, b \in BOOLEAN}
MCLayouts == {<< >>} \cup {<<a, b, c>> : a \in MCBlocks(1), b \in MCBlocks(2), c \in MCBlocks(3)}

TwoLevel == INSTANCE TwoLevelIterator
    WITH Target <- 0 .. 7, Layouts <- MCLayouts,
         pos <- dataPos, op <- tableOp

ASSUME ReadersAssumption ==
    /\ Iterator!BoundAssumption /\ Tables!CacheAssumption /\ Tables!ClientAssumption
    /\ Blocks!BlockAssumption /\ TwoLevel!LayoutAssumption

-----------------------------------------------------------------------------
ReadersInit ==
    /\ part \in {"iterator", "list", "cache", "block", "blocks"}
    /\ part # "iterator" => /\ log = [s \in 1 .. 3 |-> [key |-> 1, type |-> "value"]]
                            /\ flushed = 0
    /\ Init
    /\ Iterator!Init
    /\ Tables!Init
    /\ \/ part = "block" /\ Blocks!Init
       \/ /\ part # "block"
          /\ keys = << >> /\ block = Blocks!Finish(<< >>, 1)
          /\ it = Blocks!NewIterator /\ blockOp = <<"new">> /\ walked = <<"none", {}>>
    /\ part # "blocks" => blocks = << >>
    /\ TwoLevel!Init

ReadersNext ==
    \/ part = "iterator" /\ Iterator!Step
         /\ UNCHANGED <<part, vars, cacheVars, blockVars, tableVars>>
    \/ part = "list" /\ Steps
         /\ UNCHANGED <<part, iterVars, cacheVars, blockVars, tableVars>>
    \/ part = "cache" /\ Tables!Next
         /\ UNCHANGED <<part, vars, iterVars, blockVars, tableVars>>
    \/ part = "block" /\ Blocks!Move
         /\ UNCHANGED <<part, vars, iterVars, cacheVars, tableVars>>
    \/ part = "blocks" /\ TwoLevel!Move
         /\ UNCHANGED <<part, vars, iterVars, cacheVars, blockVars>>

ReadersSpec == ReadersInit /\ [][ReadersNext]_readerVars

-----------------------------------------------------------------------------
\* A table is deleted with its last reference, not before and not later; a cached
\* table is found under its key, also after the hash table has grown, is on the
\* list its references say, and is none of a deleted file.  The cache's charge is
\* right, and within its capacity but for what is in use.
CacheIsSafe ==
    /\ [](/\ Tables!NoUseAfterFree /\ Tables!Found /\ Tables!Lists
          /\ Tables!NoDeadTable /\ Tables!TypeOK)
    /\ Tables!Usage

\* Nothing damaged is passed over in silence: who walks a whole block and is told of
\* no error has seen all of its keys, each as it was stored, and a block of a table
\* that cannot be read leaves an error.
NoSilentLoss ==
    /\ Blocks!NoSilentLoss /\ Blocks!KeyIsStored
    /\ TwoLevel!ErrorsShow /\ TwoLevel!TypeOK

\* The user's iterator is a cursor over the snapshot it was made with, the value it
\* shows is the newest of its key as of then, and its loops look at iter_ only
\* while that is valid.
IteratorIsRight ==
    Iterator!IsSnapshot /\ [](Iterator!ValueIsNewest /\ Iterator!TypeOK)

\* The iterators of a sound block and of a table are cursors over the keys the block
\* was built from, and over those of the table's readable blocks.
TablesAreCursors == Blocks!IsCursor /\ TwoLevel!IsCursor
=============================================================================
