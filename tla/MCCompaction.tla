---------------------------- MODULE MCCompaction ----------------------------
(***************************************************************************)
(* Instances of Compaction.                                                *)
(***************************************************************************)
EXTENDS Compaction

Scope(K, D, bounds) ==
    [keys |-> K, deleted |-> D, writes |-> bounds[1], snapshots |-> bounds[2],
     iterators |-> bounds[3], manuals |-> bounds[4], seeks |-> bounds[5],
     fails |-> bounds[6]]

\* Readers beside the compactions that sizes ask for; compactions that a seek or
\* CompactRange asks for.
MCScopes ==
    {Scope({1, 2}, {1, 2}, <<3, 1, 1, 0, 0, 1>>),
     Scope({1, 2, 3}, {2}, <<3, 0, 0, 1, 1, 0>>)}

\* A key whose entries are split over two files of a level.
MCSplitScopes == {Scope({1, 2}, {2}, <<4, 1, 0, 0, 0, 0>>)}

\* Files of a level with a gap between them, which CompactRange merges.
MCGapScopes == {Scope({1, 2, 3}, {}, <<5, 0, 0, 1, 0, 0>>)}
=============================================================================
