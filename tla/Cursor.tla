------------------------------- MODULE Cursor -------------------------------
(***************************************************************************)
(* What leveldb::Iterator promises (include/leveldb/iterator.h): a cursor  *)
(* over a set of keys, which are integers here.                            *)
(***************************************************************************)
EXTENDS Positions

CONSTANT Target     \* what may be sought

VARIABLES
    items,      \* the keys, which stay the same
    at,         \* << >> or, if Valid(), <<key()>>
    op          \* the last operation, with its argument

vars == <<items, at, op>>

Init == at = << >> /\ op = <<"new">>

SeekToFirst == op' = <<"first">> /\ at' = Least(items)
SeekToLast == op' = <<"last">> /\ at' = Greatest(items)
Seek == op'[1] = "seek" /\ op'[2] \in Target /\ at' = AtOrAfter(items, op'[2])
Next == op' = <<"next">> /\ at # << >> /\ at' = After(items, at[1])
Prev == op' = <<"prev">> /\ at # << >> /\ at' = Before(items, at[1])

Move ==
    /\ SeekToFirst \/ SeekToLast \/ Next \/ Prev \/ Seek
    /\ items' = items

Spec == Init /\ [][Move]_vars
=============================================================================
