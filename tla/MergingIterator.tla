-------------------------- MODULE MergingIterator --------------------------
(***************************************************************************)
(* table/merger.cc: one iterator over several children, each an iterator   *)
(* over a set of internal keys (integers here).  The first child may be    *)
(* over the live memtable, to which keys are added while the operation     *)
(* runs: an operation is given the contents `c' of the children at its     *)
(* first step on a child and `d' at its second.                            *)
(***************************************************************************)
EXTENDS Positions

\* A merging iterator: pos[i] is the position of children_[i], cur is the
\* number of current_ or 0, dir is direction_.
Merging(pos, cur, dir) == [pos |-> pos, cur |-> cur, dir |-> dir]
IsValid(m) == m.cur # 0
KeyOf(m) == m.pos[m.cur][1]

Standing(pos) == {i \in DOMAIN pos : pos[i] # << >>}

\* The first of the children at the smallest key, the last of those at the largest.
FindSmallest(pos) ==
    IF Standing(pos) = {} THEN 0
    ELSE CHOOSE i \in Standing(pos) : \A j \in Standing(pos) :
            pos[i][1] < pos[j][1] \/ (pos[i][1] = pos[j][1] /\ i <= j)
FindLargest(pos) ==
    IF Standing(pos) = {} THEN 0
    ELSE CHOOSE i \in Standing(pos) : \A j \in Standing(pos) :
            pos[i][1] > pos[j][1] \/ (pos[i][1] = pos[j][1] /\ i >= j)

Forward(pos) == Merging(pos, FindSmallest(pos), "forward")
Reverse(pos) == Merging(pos, FindLargest(pos), "reverse")

NewMergingIterator(c) == Merging([i \in DOMAIN c |-> << >>], 0, "forward")
MergeSeekToFirst(c) == Forward([i \in DOMAIN c |-> Least(c[i])])
MergeSeekToLast(c) == Reverse([i \in DOMAIN c |-> Greatest(c[i])])
MergeSeek(c, t) == Forward([i \in DOMAIN c |-> AtOrAfter(c[i], t)])

\* Where a child other than current_ is when Next() has turned it around.
TurnedForward(c, d, i, k) ==
    LET s == AtOrAfter(c[i], k)
    IN  IF s = <<k>> THEN After(d[i], k) ELSE s

MergeNext(c, d, m) ==
    LET k == KeyOf(m)
    IN  Forward([i \in DOMAIN c |->
            IF i = m.cur THEN After(d[i], k)
            ELSE IF m.dir = "forward" THEN m.pos[i]
            ELSE TurnedForward(c, d, i, k)])

\* Prev() steps back from the first key that is not smaller; a child without
\* one is put at its last key.
TurnedBackNowhere(c, d, i, k) ==
    LET s == AtOrAfter(c[i], k)
    IN  IF s # << >> THEN Before(d[i], s[1]) ELSE << >>
TurnedBack(c, d, i, k) ==
    LET s == AtOrAfter(c[i], k)
    IN  IF s # << >> THEN Before(d[i], s[1]) ELSE Greatest(d[i])

MergePrev(c, d, m) ==
    LET k == KeyOf(m)
    IN  Reverse([i \in DOMAIN c |->
            IF i = m.cur THEN Before(d[i], k)
            ELSE IF m.dir = "reverse" THEN m.pos[i]
            ELSE TurnedBack(c, d, i, k)])
=============================================================================
