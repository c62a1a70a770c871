------------------------------ MODULE LRUCache ------------------------------
(***************************************************************************)
(* util/cache.cc: one shard of the LRU cache and its hash table.  Every    *)
(* method holds mutex_, so each is one function from a cache to a cache;   *)
(* the clients that interleave are in TableCache.                          *)
(*                                                                         *)
(* A cache is a record [entry, lru, inUse, list, elems, usage]; a handle   *)
(* is the number of its entry, and 0 is nullptr.                           *)
(***************************************************************************)
EXTENDS Integers, Sequences, SequencesExt, FiniteSetsExt

CONSTANTS
    Key,
    Hash,       \* the hash of each key, a natural number
    Capacity,   \* capacity_
    MinLength   \* the hash table's first size, 4 in the code

CacheAssumption ==
    Hash \in [Key -> Nat] /\ Capacity \in Nat /\ MinLength \in Nat \ {0}

-----------------------------------------------------------------------------
\* HandleTable
Length(c) == Cardinality(DOMAIN c.list)
Bucket(c, k) == Hash[k] % Length(c)
Chain(c, k) == c.list[Bucket(c, k)]

\* FindPointer: where the chain holds the key, or the slot at its end.
FindPointer(c, k) ==
    LET at == {i \in 1 .. Len(Chain(c, k)) : c.entry[Chain(c, k)[i]].key = k}
    IN  IF at = {} THEN Len(Chain(c, k)) + 1 ELSE Min(at)

TableLookup(c, k) ==
    LET i == FindPointer(c, k) IN IF i > Len(Chain(c, k)) THEN 0 ELSE Chain(c, k)[i]

\* The first size doubled until it is enough.
NewLength(n) == Min({MinLength * 2 ^ p : p \in 0 .. n} \cap {l \in 1 .. MinLength * 2 ^ n : l >= n})

\* Resize: the chains are walked in order and every entry is put in front of
\* its new chain.
Resize(c) ==
    LET n == NewLength(c.elems)
        all == FlattenSeq([i \in 1 .. Length(c) |-> c.list[i - 1]])
    IN  [c EXCEPT !.list = [b \in 0 .. n - 1 |->
            Reverse(SelectSeq(all, LAMBDA h : Hash[c.entry[h].key] % n = b))]]

TableInsert(c, h) ==
    LET k == c.entry[h].key
        i == FindPointer(c, k)
        old == TableLookup(c, k)
        d == [c EXCEPT !.list[Bucket(c, k)] =
                IF old = 0 THEN Append(@, h) ELSE [@ EXCEPT ![i] = h],
                       !.elems = IF old = 0 THEN @ + 1 ELSE @]
    IN  IF old = 0 /\ d.elems > Length(d) THEN Resize(d) ELSE d

TableRemove(c, k) ==
    IF TableLookup(c, k) = 0 THEN c
    ELSE [c EXCEPT !.list[Bucket(c, k)] = RemoveAt(@, FindPointer(c, k)), !.elems = @ - 1]

-----------------------------------------------------------------------------
\* LRUCache
NewLRUCache ==
    [entry |-> << >>, lru |-> << >>, inUse |-> {}, list |-> [b \in 0 .. MinLength - 1 |-> << >>],
     elems |-> 0, usage |-> 0]

LRU_Remove(c, h) == [c EXCEPT !.lru = SelectSeq(@, LAMBDA x : x # h), !.inUse = @ \ {h}]

Ref(c, h) ==
    LET d == IF c.entry[h].refs = 1 /\ c.entry[h].inCache
             THEN [LRU_Remove(c, h) EXCEPT !.inUse = @ \cup {h}] ELSE c
    IN  [d EXCEPT !.entry[h].refs = @ + 1]

\* Unref: with the last reference the entry is deleted and freed (refs is 0
\* for ever after); left with the cache's own reference, it can be evicted.
ToLRU(c, h) == [LRU_Remove(c, h) EXCEPT !.lru = Append(@, h)]
Unref(c, h) ==
    LET d == [c EXCEPT !.entry[h].refs = @ - 1]
    IN  IF d.entry[h].inCache /\ d.entry[h].refs = 1 THEN ToLRU(d, h) ELSE d

\* FinishErase, of an entry that has been taken out of the hash table.
FinishEraseLeaking(c, h) ==
    IF h = 0 THEN c
    ELSE [LRU_Remove(c, h) EXCEPT !.entry[h].inCache = FALSE, !.usage = @ - c.entry[h].charge]
FinishErase(c, h) ==
    IF h = 0 THEN c
    ELSE Unref([LRU_Remove(c, h) EXCEPT !.entry[h].inCache = FALSE,
                                        !.usage = @ - c.entry[h].charge], h)

Erase(c, k) == FinishErase(TableRemove(c, k), TableLookup(c, k))

Lookup(c, k) == IF TableLookup(c, k) = 0 THEN c ELSE Ref(c, TableLookup(c, k))

\* The loop at the end of Insert: the oldest entries go while there is too much.
Evict(c) ==
    FoldLeft(LAMBDA d, h : IF d.usage > Capacity THEN Erase(d, d.entry[h].key) ELSE d, c, c.lru)

Cached(c, h) ==
    LET d == [c EXCEPT !.entry[h].refs = 2, !.entry[h].inCache = TRUE,
                       !.inUse = @ \cup {h}, !.usage = @ + c.entry[h].charge]
    IN  FinishErase(TableInsert(d, h), TableLookup(d, c.entry[h].key))

\* Insert gives handle Len(entry) + 1.
Insert(c, k, charge) ==
    LET h == Len(c.entry) + 1
        d == [c EXCEPT !.entry = Append(@, [key |-> k, charge |-> charge, inCache |-> FALSE,
                                            refs |-> 1])]
    IN  Evict(IF Capacity > 0 THEN Cached(d, h) ELSE d)

Prune(c) == FoldLeft(LAMBDA d, h : Erase(d, d.entry[h].key), c, c.lru)

-----------------------------------------------------------------------------
\* What the comments of cache.cc say of the two lists.
ListsRight(c) ==
    LET In == {h \in 1 .. Len(c.entry) : c.entry[h].inCache}
    IN  /\ In = ToSet(c.lru) \cup c.inUse
        /\ ToSet(c.lru) \cap c.inUse = {} /\ IsInjective(c.lru)
        /\ \A h \in ToSet(c.lru) : c.entry[h].refs = 1
        /\ \A h \in c.inUse : c.entry[h].refs >= 2

\* The hash table holds the cached entries, every one where it is looked for.
TableRight(c) ==
    LET In == {h \in 1 .. Len(c.entry) : c.entry[h].inCache}
    IN  /\ In = UNION {ToSet(c.list[b]) : b \in DOMAIN c.list}
        /\ \A h \in In : TableLookup(c, c.entry[h].key) = h
        /\ c.elems = Cardinality(In)

\* usage_ is the charge of what is cached.
UsageRight(c) ==
    LET In == {h \in 1 .. Len(c.entry) : c.entry[h].inCache}
    IN  c.usage = MapThenSumSet(LAMBDA h : c.entry[h].charge, In)
=============================================================================
