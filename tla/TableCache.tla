----------------------------- MODULE TableCache -----------------------------
(***************************************************************************)
(* db/table_cache.cc: threads that look for tables in the cache, open the  *)
(* ones they miss outside its mutex, and hold their handles while they     *)
(* read; and files that become obsolete and are evicted.                   *)
(***************************************************************************)
EXTENDS LRUCache

CONSTANTS
    Thread,
    Charge,         \* what an entry of each key is charged with
    MaxInserts      \* bound: entries made

ClientAssumption == Charge \in [Key -> Nat \ {0}] /\ MaxInserts \in Nat

VARIABLES
    cache,
    thread,     \* [pc, file, handle] of every thread; handle 0 is none
    live        \* the files that exist

vars == <<cache, thread, live>>

None == "none"
Idle == [pc |-> "idle", file |-> None, handle |-> 0]

Init ==
    /\ cache = NewLRUCache /\ live = Key
    /\ thread = [t \in Thread |-> Idle]

\* FindTable: a hit takes a reference, a miss opens the file.
FindTable(t, f) ==
    /\ thread[t].pc = "idle" /\ f \in live
    /\ LET h == TableLookup(cache, f)
       IN  thread' = [thread EXCEPT ![t] =
                [pc |-> IF h = 0 THEN "open" ELSE "use", file |-> f, handle |-> h]]
    /\ cache' = Lookup(cache, f) /\ UNCHANGED live

\* The opened table is inserted, whether or not somebody else was faster.
Opened(t) ==
    /\ thread[t].pc = "open" /\ Len(cache.entry) < MaxInserts
    /\ cache' = Insert(cache, thread[t].file, Charge[thread[t].file])
    /\ thread' = [thread EXCEPT ![t].pc = "use", ![t].handle = Len(cache.entry) + 1]
    /\ UNCHANGED live

OpenFails(t) ==
    /\ thread[t].pc = "open" /\ thread' = [thread EXCEPT ![t] = Idle]
    /\ UNCHANGED <<cache, live>>

\* Get releases the handle after reading; an iterator does when it is deleted.
UnrefEntry(t) ==
    /\ thread[t].pc = "use" /\ cache' = Unref(cache, thread[t].handle)
    /\ thread' = [thread EXCEPT ![t] = Idle] /\ UNCHANGED live

\* DeleteObsoleteFiles: nobody uses the file any more.  Evict drops it here.
EvictTable(f) == Erase(cache, f)
DeleteFile(f) ==
    /\ f \in live /\ \A t \in Thread : thread[t].file # f
    /\ live' = live \ {f} /\ cache' = EvictTable(f) /\ UNCHANGED thread

PruneCache == cache.lru # << >> /\ cache' = Prune(cache) /\ UNCHANGED <<thread, live>>

Next ==
    \/ \E t \in Thread : Opened(t) \/ OpenFails(t) \/ UnrefEntry(t)
    \/ \E t \in Thread, f \in Key : FindTable(t, f)
    \/ \E f \in Key : DeleteFile(f)
    \/ PruneCache

Spec == Init /\ [][Next]_vars

-----------------------------------------------------------------------------
Holders(h) == {t \in Thread : thread[t].handle = h}

\* A thread that uses a table has its handle.
TypeOK ==
    /\ thread \in [Thread -> [pc : {"idle", "open", "use"}, file : Key \cup {None},
                              handle : 0 .. MaxInserts]]
    /\ \A t \in Thread : /\ thread[t].handle # 0 <=> thread[t].pc = "use"
                         /\ thread[t].file # None <=> thread[t].pc # "idle"
    /\ live \subseteq Key /\ Len(cache.entry) <= MaxInserts

\* The two lists are what the code's comments say: every cached entry is in one
\* of them, referenced by nobody but the cache or by somebody else too.
Lists == ListsRight(cache)

\* Every cached entry is found under its key and no other is, also when a key
\* was inserted twice and after the table has grown.
Found == TableRight(cache)

\* An entry is deleted with its last reference, not before and not later: what
\* a thread reads is there, and what nobody can reach has been freed.
NoUseAfterFree ==
    \A h \in 1 .. Len(cache.entry) :
        cache.entry[h].refs = Cardinality(Holders(h)) + (IF cache.entry[h].inCache THEN 1 ELSE 0)

\* The cache's charge is right, and is over the capacity only by what is in
\* use when an entry has been made.
Usage ==
    [][/\ UsageRight(cache)'
       /\ Len(cache'.entry) > Len(cache.entry) => cache'.usage <= Capacity \/ cache'.lru = << >>]_vars

\* No table of a deleted file stays open in the cache.
NoDeadTable ==
    \A h \in 1 .. Len(cache.entry) : cache.entry[h].inCache => cache.entry[h].key \in live
=============================================================================
