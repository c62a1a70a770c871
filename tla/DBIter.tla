------------------------------- MODULE DBIter -------------------------------
(***************************************************************************)
(* db/db_iter.cc: the user's iterator.  It walks the internal keys of the  *)
(* memtable and of the tables through a MergingIterator, one operation on  *)
(* iter_ per step, while writers go on inserting into the memtable.        *)
(*                                                                         *)
(* A write is one sequence number.  An internal key sorts by user key and  *)
(* then by falling sequence number: it is coded as one integer.            *)
(***************************************************************************)
EXTENDS MergingIterator, Sequences

CONSTANTS
    MaxKey,     \* user keys are 1 .. MaxKey
    Sequence,   \* sequence_: the writes before the iterator was made
    MaxWrites   \* bound: all writes

BoundAssumption ==
    MaxKey \in Nat /\ Sequence \in Nat /\ MaxWrites \in Nat /\ Sequence <= MaxWrites

VARIABLES
    log,        \* the writes, [key, type], in the order of their sequence numbers
    flushed,    \* those up to this number are in a table, the others in the memtable
    iter,       \* iter_
    valid, direction, savedKey, savedValue,     \* the fields of the same names
    pc,         \* where the running operation is, "idle" if there is none
    skipping, valueType,    \* the locals of the two loops
    call,       \* the running operation
    op,         \* the last one that ended
    before      \* history: where the iterator was before the running operation

vars == <<log, flushed, iter, valid, direction, savedKey, savedValue, pc,
          skipping, valueType, call, op, before>>

Width == MaxWrites + 2
IKey(k, s) == k * Width + (MaxWrites + 1 - s)
UserKey(x) == x \div Width
SeqOf(x) == MaxWrites + 1 - (x % Width)
TypeOf(x) == log[SeqOf(x)].type

\* The contents of the two children when n writes have been made.
Children(n, l) ==
    <<{IKey(l[s].key, s) : s \in flushed + 1 .. n}, {IKey(l[s].key, s) : s \in 1 .. flushed}>>
Now == Children(Len(log), log)

Write == [key : 1 .. MaxKey, type : {"value", "deletion"}]
None == 0

Init ==
    /\ log \in [1 .. Sequence -> Write]
    /\ flushed \in 0 .. Sequence
    /\ iter = NewMergingIterator(Now)
    /\ valid = FALSE /\ direction = "forward" /\ savedKey = None /\ savedValue = None
    /\ pc = "idle" /\ skipping = FALSE /\ valueType = "deletion"
    /\ call = <<"new">> /\ op = <<"new">> /\ before = << >>

\* A writer inserts into the memtable.
Insert ==
    /\ Len(log) < MaxWrites
    /\ \E w \in Write : log' = Append(log, w)
    /\ UNCHANGED <<flushed, iter, valid, direction, savedKey, savedValue, pc,
                   skipping, valueType, call, op, before>>

\* An insertion may fall between the two steps of one operation on iter_.
Meanwhile == log' = log \/ (Len(log) < MaxWrites /\ \E w \in Write : log' = Append(log, w))
Later == Children(Len(log'), log')

-----------------------------------------------------------------------------
\* key() and value()
At == IF ~valid THEN << >>
      ELSE IF direction = "forward" THEN <<UserKey(KeyOf(iter))>> ELSE <<savedKey>>
Value == IF direction = "forward" THEN SeqOf(KeyOf(iter)) ELSE savedValue

Begin(name) ==
    /\ pc = "idle" /\ call' = name /\ before' = At
    /\ UNCHANGED <<flushed, op>>
End(v) == valid' = v /\ pc' = "idle" /\ op' = call

\* The loops look at iter_ next, or the operation is over.
Enter(loop, it) ==
    /\ iter' = it
    /\ IF IsValid(it) THEN pc' = loop ELSE pc' = "done"

SeekToFirst ==
    /\ Begin(<<"first">>) /\ Enter("find", MergeSeekToFirst(Now))
    /\ direction' = "forward" /\ savedValue' = None /\ skipping' = FALSE
    /\ UNCHANGED <<log, valid, savedKey, valueType>>

\* The target with the iterator's sequence number: newer entries sort before it.
\* saved_key_ holds it for a while, which nothing reads.
SeekKey(t) == IKey(t, Sequence)

Seek(t) ==
    /\ Begin(<<"seek", t>>) /\ Enter("find", MergeSeek(Now, SeekKey(t)))
    /\ direction' = "forward" /\ savedKey' = None /\ savedValue' = None /\ skipping' = FALSE
    /\ UNCHANGED <<log, valid, valueType>>

SeekToLast ==
    /\ Begin(<<"last">>) /\ Enter("back", MergeSeekToLast(Now))
    /\ direction' = "reverse" /\ savedValue' = None /\ valueType' = "deletion"
    /\ UNCHANGED <<log, valid, savedKey, skipping>>

\* Next: moving backwards, iter_ is just before the entries of this key.
Next ==
    /\ valid /\ Begin(<<"next">>) /\ direction' = "forward" /\ skipping' = TRUE
    /\ \/ /\ direction = "reverse" /\ Meanwhile
          /\ Enter("find", IF IsValid(iter) THEN MergeNext(Now, Later, iter)
                           ELSE MergeSeekToFirst(Now))
          /\ UNCHANGED savedKey
       \/ /\ direction = "forward"
          /\ pc' = "find" /\ savedKey' = UserKey(KeyOf(iter))
          /\ UNCHANGED <<log, iter>>
    /\ UNCHANGED <<valid, savedValue, valueType>>

\* Prev: moving forwards, iter_ is at the entry and must leave its key first.
Prev ==
    /\ valid /\ Begin(<<"prev">>) /\ valueType' = "deletion"
    /\ \/ direction = "forward" /\ pc' = "turn" /\ savedKey' = UserKey(KeyOf(iter))
       \/ /\ direction = "reverse" /\ pc' = IF IsValid(iter) THEN "back" ELSE "done"
          /\ UNCHANGED savedKey
    /\ UNCHANGED <<log, iter, valid, direction, savedValue, skipping>>

-----------------------------------------------------------------------------
Visible(x) == SeqOf(x) <= Sequence

Hidden(x, skip, key) == skip /\ UserKey(x) <= key

\* One turn of FindNextUserEntry's loop.
FindNextUserEntry ==
    /\ pc = "find"
    /\ LET x == KeyOf(iter)
           yields == Visible(x) /\ TypeOf(x) = "value" /\ ~Hidden(x, skipping, savedKey)
           deletes == Visible(x) /\ TypeOf(x) = "deletion"
       IN  \/ yields /\ End(TRUE) /\ savedKey' = None /\ UNCHANGED <<log, iter, skipping>>
           \/ /\ ~yields /\ Meanwhile /\ Enter("find", MergeNext(Now, Later, iter))
              /\ savedKey' = IF deletes THEN UserKey(x) ELSE savedKey
              /\ skipping' = (skipping \/ deletes)
              /\ UNCHANGED <<valid, op>>
    /\ UNCHANGED <<flushed, direction, savedValue, valueType, call, before>>

\* Prev's own loop: back until the user key changes.
LeftKey(x) == UserKey(x) < savedKey

TurnAround ==
    /\ pc = "turn" /\ Meanwhile
    /\ LET it == MergePrev(Now, Later, iter)
       IN  /\ iter' = it
           /\ \/ /\ ~IsValid(it) /\ End(FALSE) /\ savedKey' = None /\ savedValue' = None
                 /\ UNCHANGED direction
              \/ /\ IsValid(it)
                 /\ IF LeftKey(KeyOf(it)) THEN pc' = "back" /\ direction' = "reverse"
                    ELSE UNCHANGED <<pc, direction>>
                 /\ UNCHANGED <<valid, op, savedKey, savedValue>>
    /\ UNCHANGED <<flushed, skipping, valueType, call, before>>

\* A value is held and x belongs to a key before it.
Holds(x) == valueType # "deletion" /\ UserKey(x) < savedKey

\* One turn of FindPrevUserEntry's loop.
FindPrevUserEntry ==
    /\ pc = "back"
    /\ LET x == KeyOf(iter)
           ends == Visible(x) /\ Holds(x)
       IN  \/ ends /\ End(TRUE) /\ UNCHANGED <<log, iter, savedKey, savedValue, valueType>>
           \/ /\ ~ends /\ Meanwhile /\ Enter("back", MergePrev(Now, Later, iter))
              /\ valueType' = IF Visible(x) THEN TypeOf(x) ELSE valueType
              /\ savedKey' = IF ~Visible(x) THEN savedKey
                             ELSE IF TypeOf(x) = "deletion" THEN None ELSE UserKey(x)
              /\ savedValue' = IF ~Visible(x) THEN savedValue
                               ELSE IF TypeOf(x) = "deletion" THEN None ELSE SeqOf(x)
              /\ UNCHANGED <<valid, op>>
    /\ UNCHANGED <<flushed, direction, skipping, call, before>>

\* iter_ has run out.
RunOut ==
    /\ pc = "done"
    /\ \/ /\ direction = "forward" /\ End(FALSE) /\ savedKey' = None
          /\ UNCHANGED <<direction, savedValue>>
       \/ /\ direction = "reverse" /\ valueType = "deletion" /\ End(FALSE)
          /\ savedKey' = None /\ savedValue' = None /\ direction' = "forward"
       \/ /\ direction = "reverse" /\ valueType # "deletion" /\ End(TRUE)
          /\ UNCHANGED <<direction, savedKey, savedValue>>
    /\ UNCHANGED <<log, flushed, iter, skipping, valueType, call, before>>

Step ==
    \/ Insert \/ SeekToFirst \/ SeekToLast \/ Next \/ Prev
    \/ \E t \in 0 .. MaxKey + 1 : Seek(t)
    \/ FindNextUserEntry \/ TurnAround \/ FindPrevUserEntry \/ RunOut

Spec == Init /\ [][Step]_vars

-----------------------------------------------------------------------------
\* The iterator's internal position is one the code's asserts allow: iter_ is
\* valid whenever a loop looks at it or key() reads it.
TypeOK ==
    /\ log \in Seq(Write) /\ Len(log) \in Sequence .. MaxWrites
    /\ savedKey \in 0 .. MaxKey /\ savedValue \in 0 .. Sequence
    /\ pc \in {"idle", "find", "turn", "back", "done"}
    /\ pc \in {"find", "turn", "back"} => IsValid(iter)
    /\ pc = "find" => direction = "forward"
    /\ pc = "back" => direction = "reverse"
    /\ pc = "idle" /\ valid /\ direction = "forward" => IsValid(iter)

\* The newest write of a key that the iterator may see, 0 if there is none.
Newest(k) ==
    LET S == {s \in 1 .. Sequence : log[s].key = k} IN IF S = {} THEN 0 ELSE Greatest(S)[1]
VisibleKeys == {k \in 1 .. MaxKey : Newest(k) # 0 /\ log[Newest(k)].type = "value"}

\* Whatever is written meanwhile, the iterator is a cursor over the keys that
\* were there when it was made: nothing newer is seen, nothing deleted returns,
\* and no key is left out or given twice when it turns around.
Snapshot == INSTANCE Cursor WITH
                Target <- 0 .. MaxKey + 1,
                items <- VisibleKeys,
                at <- IF pc = "idle" THEN At ELSE before
IsSnapshot == Snapshot!Spec

\* The value it shows is the newest one of its key as of then.
ValueIsNewest == pc = "idle" /\ valid => Value = Newest(At[1])
=============================================================================
