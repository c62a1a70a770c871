------------------------------ MODULE SkipList ------------------------------
(***************************************************************************)
(* db/skiplist.h, the memtable's index: one writer inserts, readers walk   *)
(* it without a lock.  Nodes are named by their keys; 0 is head_.          *)
(*                                                                         *)
(* Links are stored with release and loaded with acquire, and only one     *)
(* thread stores them, so loads and stores interleave one by one.          *)
(* max_height_ is relaxed: a reader may load any value it ever had.        *)
(***************************************************************************)
EXTENDS Integers, FiniteSets

CONSTANTS
    MaxKey,         \* keys are 1 .. MaxKey
    MaxHeight       \* kMaxHeight

Sizes == MaxKey \in Nat /\ MaxHeight \in Nat \ {0}

ASSUME SizeAssumption == Sizes

VARIABLES
    next,       \* next[n][i]: the link of node n at level i
    maxHeight,  \* max_height_
    heights,    \* the values max_height_ has had
    inserted,   \* the keys whose Insert() has returned
    writer,     \* [pc, key, height, level, prev]
    search,     \* the running search of each thread, [x, level, key, mode]
    node,       \* the reader's node_: a key, or Nil
    reader,     \* the reader's operation, [name, key], and `known', what had
                \* been inserted when it began
    result      \* history: the last finished operation and where it went

vars == <<next, maxHeight, heights, inserted, writer, search, node, reader, result>>

Head == 0
Nil == MaxKey + 1       \* nullptr, which sorts after every key
Junk == MaxKey + 2      \* what the arena's memory holds before it is written
Key == 1 .. MaxKey
Level == 0 .. MaxHeight - 1
Thread == {"writer", "reader"}
NoSearch == [x |-> Head, level |-> 0, key |-> 0, mode |-> "none"]

Init ==
    /\ next = [n \in Key \cup {Head} |-> [i \in Level |-> IF n = Head THEN Nil ELSE Junk]]
    /\ maxHeight = 1 /\ heights = {1} /\ inserted = {}
    /\ writer = [pc |-> "idle", key |-> 0, height |-> 0, level |-> 0,
                 prev |-> [i \in Level |-> Head]]
    /\ search = [t \in Thread |-> NoSearch]
    /\ node = Nil
    /\ reader = [name |-> "none", key |-> 0, known |-> {}]
    /\ result = [name |-> "none", key |-> 0, known |-> {}, node |-> Nil]

-----------------------------------------------------------------------------
GoesOnPast(s, n) ==
    /\ n # Nil
    /\ s.mode \in {"GreaterOrEqual", "LessThan"} => n <= s.key

\* A search goes on along its level: FindGreaterOrEqual and FindLessThan while
\* the next node's key is smaller, FindLast while there is one.
GoesOn(s, n) ==
    /\ n # Nil
    /\ s.mode \in {"GreaterOrEqual", "LessThan"} => n < s.key

GetMaxHeight(t) == IF t = "writer" THEN {maxHeight} ELSE heights

StartLevel(h) == h - 1
StartSearch(t, mode, k) ==
    \E h \in GetMaxHeight(t) :
        search' = [search EXCEPT ![t] = [x |-> Head, level |-> StartLevel(h), key |-> k,
                                         mode |-> mode]]

\* One turn of the loop that does not return.
SearchOn(t) ==
    LET s == search[t]
        n == next[s.x][s.level]
    IN  /\ s.mode # "none"
        /\ \/ GoesOn(s, n) /\ search' = [search EXCEPT ![t].x = n] /\ UNCHANGED writer
           \/ /\ ~GoesOn(s, n) /\ s.level > 0
              /\ search' = [search EXCEPT ![t].level = @ - 1]
              /\ writer' = IF t = "reader" THEN writer
                           ELSE [writer EXCEPT !.prev[s.level] = s.x]
        /\ UNCHANGED <<next, maxHeight, heights, inserted, node, reader, result>>

\* The turn that returns.
Found(t) ==
    LET s == search[t]
    IN  s.mode # "none" /\ s.level = 0 /\ ~GoesOn(s, next[s.x][0])

-----------------------------------------------------------------------------
\* Insert, of a key that is not there.
Insert(k) ==
    /\ writer.pc = "idle" /\ k \notin inserted
    /\ writer' = [writer EXCEPT !.pc = "search", !.key = k]
    /\ StartSearch("writer", "GreaterOrEqual", k)
    /\ UNCHANGED <<next, maxHeight, heights, inserted, node, reader, result>>

\* The levels above the search's are linked from head_.
Prevs == [i \in Level |-> IF i = 0 THEN search["writer"].x
                          ELSE IF i >= maxHeight THEN Head ELSE writer.prev[i]]

\* The levels are linked from the lowest up.
FirstLevel(h) == 0
RandomHeight(h) ==
    /\ writer.pc = "search" /\ Found("writer")
    /\ writer' = [writer EXCEPT !.pc = "init", !.height = h, !.level = FirstLevel(h),
                              !.prev = Prevs]
    /\ maxHeight' = IF h > maxHeight THEN h ELSE maxHeight
    /\ heights' = heights \cup {maxHeight'}
    /\ search' = [search EXCEPT !["writer"] = NoSearch]
    /\ UNCHANGED <<next, inserted, node, reader, result>>

\* x->NoBarrier_SetNext(i, prev[i]->NoBarrier_Next(i))
InitLink ==
    /\ writer.pc = "init"
    /\ next' = [next EXCEPT ![writer.key][writer.level] = next[writer.prev[writer.level]][writer.level]]
    /\ writer' = [writer EXCEPT !.pc = "link"]
    /\ UNCHANGED <<maxHeight, heights, inserted, search, node, reader, result>>

\* prev[i]->SetNext(i, x)
SetNext ==
    /\ writer.pc = "link"
    /\ next' = [next EXCEPT ![writer.prev[writer.level]][writer.level] = writer.key]
    /\ IF writer.level + 1 < writer.height
       THEN /\ writer' = [writer EXCEPT !.pc = "init", !.level = @ + 1]
            /\ UNCHANGED inserted
       ELSE /\ writer' = [writer EXCEPT !.pc = "idle", !.level = 0, !.height = 0, !.key = 0,
                                        !.prev = [i \in Level |-> Head]]
            /\ inserted' = inserted \cup {writer.key}
    /\ UNCHANGED <<maxHeight, heights, search, node, reader, result>>

-----------------------------------------------------------------------------
\* The reader's iterator.
Begin(name, k) == reader' = [name |-> name, key |-> k, known |-> inserted]
End(n) ==
    /\ node' = n
    /\ result' = [name |-> reader'.name, key |-> reader'.key, known |-> reader'.known, node |-> n]
Ready == search["reader"].mode = "none"

Seek(k) ==
    /\ Ready /\ Begin("seek", k) /\ StartSearch("reader", "GreaterOrEqual", k)
    /\ UNCHANGED <<next, maxHeight, heights, inserted, writer, node, result>>

SeekToFirst ==
    /\ Ready /\ Begin("first", 0) /\ End(next[Head][0])
    /\ UNCHANGED <<next, maxHeight, heights, inserted, writer, search>>

SeekToLast ==
    /\ Ready /\ Begin("last", 0) /\ StartSearch("reader", "Last", 0)
    /\ UNCHANGED <<next, maxHeight, heights, inserted, writer, node, result>>

Next ==
    /\ Ready /\ node # Nil /\ Begin("next", node) /\ End(next[node][0])
    /\ UNCHANGED <<next, maxHeight, heights, inserted, writer, search>>

Prev ==
    /\ Ready /\ node # Nil /\ Begin("prev", node) /\ StartSearch("reader", "LessThan", node)
    /\ UNCHANGED <<next, maxHeight, heights, inserted, writer, node, result>>

\* FindGreaterOrEqual returns the next node, the other two the one they are
\* at, which the iterator takes for nothing if it is head_.
Returned(s) ==
    IF s.mode = "GreaterOrEqual" THEN next[s.x][0] ELSE IF s.x = Head THEN Nil ELSE s.x

Return ==
    /\ Found("reader") /\ UNCHANGED reader /\ End(Returned(search["reader"]))
    /\ search' = [search EXCEPT !["reader"] = NoSearch]
    /\ UNCHANGED <<next, maxHeight, heights, inserted, writer>>

Steps ==
    \/ \E k \in Key : Insert(k) \/ Seek(k)
    \/ \E h \in 1 .. MaxHeight : RandomHeight(h)
    \/ InitLink \/ SetNext
    \/ \E t \in Thread : SearchOn(t)
    \/ SeekToFirst \/ SeekToLast \/ Next \/ Prev \/ Return

Spec == Init /\ [][Steps]_vars

-----------------------------------------------------------------------------
\* No link that a reader can follow is to memory that was not written.
TypeOK ==
    /\ node \in Key \cup {Nil}
    /\ maxHeight \in 1 .. MaxHeight
    /\ writer.level \in Level
    /\ \A t \in Thread : /\ search[t].x \in Key \cup {Head}
                         /\ search[t].level \in Level
                         /\ next[search[t].x][search[t].level] # Junk
    /\ result.node # Junk

Linked(i) == {n \in Key : \E m \in Key \cup {Head} : next[m][i] = n}

\* Every level is sorted, and part of the level below, at every moment.
LevelsNested ==
    \A i \in Level :
        /\ \A n \in Linked(i) \cup {Head} : next[n][i] = Nil \/ next[n][i] \in n + 1 .. MaxKey
        /\ i > 0 => Linked(i) \subseteq Linked(i - 1)

\* A key that had been inserted when an operation began is not passed over,
\* whatever the writer does meanwhile.
NothingPassedOver ==
    LET r == result
        skipped == CASE r.name = "seek" -> r.key .. r.node - 1
                     [] r.name = "first" -> 1 .. r.node - 1
                     [] r.name = "next" -> r.key + 1 .. r.node - 1
                     [] r.name = "last" -> IF r.node = Nil THEN Key ELSE r.node + 1 .. MaxKey
                     [] r.name = "prev" -> IF r.node = Nil THEN 1 .. r.key - 1
                                           ELSE r.node + 1 .. r.key - 1
                     [] r.name = "none" -> {}
    IN  skipped \cap r.known = {}

\* What a reader relies on without a lock: the three above.
ListIsSafe == TypeOK /\ LevelsNested /\ NothingPassedOver
=============================================================================
