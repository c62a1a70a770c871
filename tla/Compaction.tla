----------------------------- MODULE Compaction -----------------------------
(***************************************************************************)
(* The tables of LevelDB: their levels (db/version_set.cc), the background *)
(* compactions that merge them (DoCompactionWork in db/db_impl.cc) and the *)
(* deletion of files that nobody needs any more, beside readers that hold  *)
(* snapshots and old versions.                                             *)
(*                                                                         *)
(* An entry is [key, seq, del]; keys are integers.  A file is [num, es],   *)
(* its size the number of its entries.  A version maps each level to its   *)
(* set of files.  Compaction work reads only files that do not change, so  *)
(* it is one step; before and after it, the mutex is free.  The log, the   *)
(* memtables and the crash are in module DBImpl.                           *)
(***************************************************************************)
EXTENDS Integers, FiniteSets, SequencesExt, FiniteSetsExt

CONSTANTS
    Key,                \* user keys, integers
    NumLevels,          \* config::kNumLevels
    MaxMemCompactLevel, \* config::kMaxMemCompactLevel
    L0Trigger,          \* config::kL0_CompactionTrigger
    LevelSize,          \* MaxBytesForLevel of level 1
    MaxFileSize,        \* MaxFileSizeForLevel
    MaxGrandParentOverlap,  \* MaxGrandParentOverlapBytes
    ExpandLimit,        \* ExpandedCompactionByteSizeLimit
    Scopes              \* the scopes: the bounds

ASSUME CompactionAssumption ==
    /\ Key \subseteq Nat \ {0} /\ Key # {}
    /\ NumLevels \in Nat /\ NumLevels >= 2 /\ MaxMemCompactLevel \in 0 .. NumLevels - 1
    /\ L0Trigger \in Nat \ {0} /\ MaxFileSize \in Nat \ {0}
    /\ LevelSize \in Nat \ {0}

\* A scope has the keys that are set and those that are deleted too, and the
\* bounds on Put and Delete, on snapshots and iterators held at a time, on calls
\* of CompactRange, on compactions that seeks ask for and on failing ones.
ASSUME ScopesAssumption ==
    Scopes \subseteq [keys : SUBSET Key, deleted : SUBSET Key, writes : Nat,
                     snapshots : Nat, iterators : {0, 1}, manuals : Nat,
                     seeks : Nat, fails : Nat]

VARIABLES
    scope,      \* the scope of this behaviour
    mem,        \* the entries that are in no table yet
    lastSequence, nextFile,
    current,    \* the current version
    disk,       \* the numbers of the table files that exist
    snapshots,  \* snapshots_: their sequence numbers
    iter,       \* an iterator: << >> or <<[version, mem, snap]>>
    seekFile,   \* file_to_compact_ and its level: << >> or <<file, level>>
    pointer,    \* compact_pointer_
    manual,     \* manual_compaction_: << >> or <<[level, begin]>>
    work,       \* the compaction under way: << >> or <<record>>
    bgError,
    history,    \* history: all entries ever written
    manuals, seeks, fails       \* counters for the bounds

readVars == <<snapshots, iter>>
userVars == <<mem, lastSequence, history>>
countVars == <<scope, manuals, seeks, fails>>
vars == <<userVars, nextFile, current, disk, readVars, seekFile, pointer, manual, work,
          bgError, countVars>>

-----------------------------------------------------------------------------
(***************************************************************************)
(* Files and versions                                                      *)
(***************************************************************************)
Level == 0 .. NumLevels - 1

\* InternalKeyComparator: by key, and the newest entry of a key first.
Less(a, b) == a.key < b.key \/ (a.key = b.key /\ a.seq > b.seq)
LeastOf(es) == CHOOSE e \in es : \A d \in es \ {e} : Less(e, d)
GreatestOf(es) == CHOOSE e \in es : \A d \in es \ {e} : Less(d, e)
Smallest(f) == LeastOf(f.es)
Largest(f) == GreatestOf(f.es)

EntriesOf(fs) == UNION {f.es : f \in fs}
TotalFileSize(fs) == MapThenSumSet(LAMBDA f : Cardinality(f.es), fs)
FilesOf(v) == UNION {v[l] : l \in Level}
Numbers(fs) == {f.num : f \in fs}
MinNum(S) == CHOOSE n \in S : \A m \in S : n <= m
MaxNum(S) == CHOOSE n \in S : \A m \in S : n >= m

\* GetRange and GetRange2, as user keys.
KeyRange(fs) == [lo |-> LeastOf(EntriesOf(fs)).key, hi |-> GreatestOf(EntriesOf(fs)).key]
Everything == [lo |-> 0, hi |-> MaxNum(Key) + 1]
Overlaps(f, r) == ~(Largest(f).key < r.lo \/ Smallest(f).key > r.hi)
Overlapping(fs, r) == {f \in fs : Overlaps(f, r)}

\* Version::GetOverlappingInputs: in level 0 a file may widen the range.
GetOverlappingInputs(v, l, r) ==
    LET widen(q) == LET fs == Overlapping(v[0], q)
                    IN  IF fs = {} THEN q
                        ELSE [lo |-> MinNum({q.lo, KeyRange(fs).lo}),
                              hi |-> MaxNum({q.hi, KeyRange(fs).hi})]
        range[n \in 0 .. Cardinality(v[0])] == IF n = 0 THEN r ELSE widen(range[n - 1])
    IN  IF l > 0 THEN Overlapping(v[l], r)
        ELSE Overlapping(v[0], range[Cardinality(v[0])])

\* The newest entry of a key that a snapshot sees: << >> or <<entry>>.
Newest(es, k, s) ==
    LET hits == {e \in es : e.key = k /\ e.seq <= s}
    IN  IF hits = {} THEN << >> ELSE <<LeastOf(hits)>>

\* FindFile: the first file of a level that ends at or behind (k, s).
FindFile(fs, k, s) ==
    LET after == {f \in fs : ~Less(Largest(f), [key |-> k, seq |-> s])}
    IN  IF after = {} THEN {}
        ELSE {CHOOSE f \in after : \A g \in after \ {f} : Less(Largest(f), Largest(g))}

\* The files Version::Get searches, in its order: level 0 with the newest
\* first, then one file of each level.
ToSearch(v, k, s) ==
    LET at(l) == {f \in FindFile(v[l], k, s) : Smallest(f).key <= k}
        newestFirst == SetToSortSeq(Overlapping(v[0], [lo |-> k, hi |-> k]),
                                    LAMBDA f, g : f.num > g.num)
    IN  newestFirst \o FlattenSeq([l \in 1 .. NumLevels - 1 |-> SetToSeq(at(l))])

VersionGet(v, k, s) ==
    LET hits == SelectSeq(ToSearch(v, k, s), LAMBDA f : Newest(f.es, k, s) # << >>)
    IN  IF hits = << >> THEN << >> ELSE Newest(hits[1].es, k, s)

\* DBImpl::Get: the memtables first.
Get(m, v, k, s) == IF Newest(m, k, s) # << >> THEN Newest(m, k, s) ELSE VersionGet(v, k, s)

\* What a caller sees: a deleted key is a missing one.
Value(found) == IF found = << >> \/ found[1].del THEN << >> ELSE found

Empty == [l \in Level |-> {}]

\* VersionSet::Builder
Apply(v, l, gone, l2, new) ==
    [i \in Level |-> (v[i] \ gone) \cup (IF i = l2 THEN new ELSE {})]

\* Version::OverlapInLevel and PickLevelForMemTableOutput.
OverlapInLevel(v, l, r) == Overlapping(v[l], r) # {}
PickLevelForMemTableOutput(v, r) ==
    LET fits(l) == /\ ~OverlapInLevel(v, l, r)
                   /\ l + 1 < NumLevels =>
                        TotalFileSize(Overlapping(v[l + 1], r)) <= MaxGrandParentOverlap
    IN  IF OverlapInLevel(v, 0, r) THEN 0
        ELSE MaxNum({l \in 0 .. MaxMemCompactLevel : \A j \in 1 .. l : fits(j)})

-----------------------------------------------------------------------------
(***************************************************************************)
(* Picking a compaction                                                    *)
(***************************************************************************)

\* AddBoundaryInputs: files that go on with the user key the inputs end with.
NoBoundaryInputs(fs, inputs) == inputs
AddBoundaryInputs(fs, inputs) ==
    LET goesOn(g, in) == LET last == GreatestOf(EntriesOf(in))
                         IN  Less(last, Smallest(g)) /\ Smallest(g).key = last.key
        add(in) == LET more == {g \in fs : goesOn(g, in)}
                   IN  IF more = {} THEN in
                       ELSE in \cup {CHOOSE g \in more :
                                        \A h \in more : ~Less(Smallest(h), Smallest(g))}
        grown[n \in 0 .. Cardinality(fs)] == IF n = 0 THEN inputs ELSE add(grown[n - 1])
    IN  IF inputs = {} THEN {} ELSE grown[Cardinality(fs)]

\* SetupOtherInputs
SetupOtherInputs(v, l, inputs) ==
    LET in0 == AddBoundaryInputs(v[l], inputs)
        in1 == GetOverlappingInputs(v, l + 1, KeyRange(in0))
        big0 == AddBoundaryInputs(v[l], GetOverlappingInputs(v, l, KeyRange(in0 \cup in1)))
        big1 == GetOverlappingInputs(v, l + 1, KeyRange(big0))
        grow == /\ in1 # {} /\ Cardinality(big0) > Cardinality(in0)
                /\ TotalFileSize(in1) + TotalFileSize(big0) < ExpandLimit
                /\ Cardinality(big1) = Cardinality(in1)
        c0 == IF grow THEN big0 ELSE in0
        c1 == IF grow THEN big1 ELSE in1
    IN  [level |-> l, in0 |-> c0, in1 |-> c1, base |-> v,
         grand |-> IF l + 2 < NumLevels
                   THEN GetOverlappingInputs(v, l + 2, KeyRange(c0 \cup c1)) ELSE {},
         manual |-> FALSE, at |-> "picked", limit |-> 0, outputs |-> {}]

\* Finalize: the level with the best score, and whether it reaches 1.
Size(v, l) == IF l = 0 THEN Cardinality(v[0]) ELSE TotalFileSize(v[l])
Limit(l) == IF l = 0 THEN L0Trigger ELSE LevelSize * 10^(l - 1)
CompactionLevel(v) ==
    CHOOSE l \in 0 .. NumLevels - 2 :
        \A m \in (0 .. NumLevels - 2) \ {l} :
            \/ Size(v, l) * Limit(m) > Size(v, m) * Limit(l)
            \/ Size(v, l) * Limit(m) = Size(v, m) * Limit(l) /\ l < m
SizeCompaction(v) == Size(v, CompactionLevel(v)) >= Limit(CompactionLevel(v))

\* The first file behind compact_pointer_, or the first of all.
NextInLevel(v, l) ==
    LET behind == {f \in v[l] : pointer[l] # << >> => Less(pointer[l][1], Largest(f))}
        fs == IF behind = {} THEN v[l] ELSE behind
    IN  CHOOSE f \in fs : \A g \in fs \ {f} :
            \/ Less(Smallest(f), Smallest(g))
            \/ Smallest(f) = Smallest(g) /\ f.num < g.num

PickFrom(v, l, f) ==
    SetupOtherInputs(v, l, IF l > 0 THEN {f} ELSE GetOverlappingInputs(v, 0, KeyRange({f})))

\* VersionSet::CompactRange: above level 0, not more than one output's worth.
ManualInputs(v, m) ==
    LET r == [Everything EXCEPT !.lo = m.begin]
        all == SetToSortSeq(GetOverlappingInputs(v, m.level, r),
                            LAMBDA f, g : Less(Smallest(f), Smallest(g)))
        enough(n) == TotalFileSize({all[i] : i \in 1 .. n}) >= MaxFileSize
        stop == {n \in 1 .. Len(all) : enough(n)}
        n == IF m.level = 0 \/ stop = {} THEN Len(all) ELSE MinNum(stop)
    IN  {all[i] : i \in 1 .. n}

IsTrivialMove(c) ==
    /\ ~c.manual /\ Cardinality(c.in0) = 1 /\ c.in1 = {}
    /\ TotalFileSize(c.grand) <= MaxGrandParentOverlap

-----------------------------------------------------------------------------
(***************************************************************************)
(* DoCompactionWork                                                        *)
(***************************************************************************)

\* Compaction::IsBaseLevelForKey: no deeper level may hold the key.
IsBaseLevelForKey(c, k) ==
    \A l \in c.level + 2 .. NumLevels - 1 : Overlapping(c.base[l], [lo |-> k, hi |-> k]) = {}

\* Rule (A), for an entry behind a newer one of its key, and that for a deletion.
HiddenFromAll(prev, e, oldest) == prev # << >> /\ prev[1].key = e.key
Hidden(prev, e, oldest) == prev # << >> /\ prev[1].key = e.key /\ prev[1].seq <= oldest
Obsolete(c, e, oldest) == e.del /\ e.seq <= oldest /\ IsBaseLevelForKey(c, e.key)

\* Compaction::ShouldStopBefore: grandparents passed since the output began.
Passed(c, e) == {g \in c.grand : Less(Largest(g), e)}

\* One turn of the loop.  a: outputs that are finished, the open one, the entry
\* before, and the grandparents passed at the last stop.
Turn(c, oldest, a, e) ==
    LET passed == IF a.prev = << >> THEN Passed(c, e) ELSE a.passed
        stop == TotalFileSize(Passed(c, e) \ passed) > MaxGrandParentOverlap
        b == IF stop /\ a.open # {}
             THEN [a EXCEPT !.done = @ \cup {a.open}, !.open = {}] ELSE a
        drop == Hidden(a.prev, e, oldest) \/ Obsolete(c, e, oldest)
        open == IF drop THEN b.open ELSE b.open \cup {e}
        full == ~drop /\ Cardinality(open) >= MaxFileSize
    IN  [done |-> IF full THEN b.done \cup {open} ELSE b.done,
         open |-> IF full THEN {} ELSE open,
         prev |-> <<e>>,
         passed |-> IF stop THEN Passed(c, e) ELSE passed]

\* The sets of entries of the output files.
Outputs(c, oldest) ==
    LET input == SetToSortSeq(EntriesOf(c.in0 \cup c.in1), Less)
        end == FoldLeft(LAMBDA a, e : Turn(c, oldest, a, e),
                        [done |-> {}, open |-> {}, prev |-> << >>, passed |-> {}], input)
    IN  end.done \cup ({end.open} \ {{}})

\* NewFileNumber, once per output file.
Numbered(outs) ==
    LET in == SetToSortSeq(outs, LAMBDA a, b : Less(LeastOf(a), LeastOf(b)))
    IN  {[num |-> nextFile + i - 1, es |-> in[i]] : i \in DOMAIN in}

-----------------------------------------------------------------------------
(***************************************************************************)
(* The state machine                                                       *)
(***************************************************************************)
Init ==
    /\ mem = {} /\ lastSequence = 0 /\ history = {}
    /\ nextFile = 1 /\ current = Empty /\ disk = {}
    /\ snapshots = {} /\ iter = << >>
    /\ seekFile = << >> /\ pointer = [l \in Level |-> << >>]
    /\ manual = << >> /\ work = << >> /\ bgError = FALSE
    /\ manuals = 0 /\ seeks = 0 /\ fails = 0
    /\ scope \in Scopes

\* Put and Delete; the memtable takes the entry.
Write(k, del) ==
    /\ lastSequence < scope.writes /\ ~bgError
    /\ del => k \in scope.deleted
    /\ LET e == [key |-> k, seq |-> lastSequence + 1, del |-> del]
       IN  mem' = mem \cup {e} /\ history' = history \cup {e}
    /\ lastSequence' = lastSequence + 1
    /\ UNCHANGED <<nextFile, current, disk, readVars, seekFile, pointer, manual, work,
                   bgError, countVars>>

GetSnapshot ==
    /\ snapshots' = snapshots \cup {lastSequence}
    /\ snapshots' # snapshots /\ Cardinality(snapshots) < scope.snapshots
    /\ UNCHANGED <<userVars, nextFile, current, disk, iter, seekFile, pointer, manual,
                   work, bgError, countVars>>

ReleaseSnapshot(s) ==
    /\ snapshots' = snapshots \ {s}
    /\ UNCHANGED <<userVars, nextFile, current, disk, iter, seekFile, pointer, manual,
                   work, bgError, countVars>>

\* NewIterator and the deletion of an iterator: it holds on to a version.
NewIterator ==
    /\ Len(iter) < scope.iterators
    /\ iter' = <<[version |-> current, mem |-> mem, snap |-> lastSequence]>>
    /\ UNCHANGED <<userVars, nextFile, current, disk, snapshots, seekFile, pointer, manual,
                   work, bgError, countVars>>

DeleteIterator ==
    /\ iter # << >> /\ iter' = << >>
    /\ UNCHANGED <<userVars, nextFile, current, disk, snapshots, seekFile, pointer, manual,
                   work, bgError, countVars>>

\* UpdateStats: a Get that searched two files may use up the seeks of the first.
UpdateStats(k) ==
    /\ seeks < scope.seeks /\ seeks' = seeks + 1
    /\ seekFile = << >> /\ ~bgError /\ Newest(mem, k, lastSequence) = << >>
    /\ LET fs == ToSearch(current, k, lastSequence)
           first == CHOOSE l \in Level : fs[1] \in current[l]
       IN  /\ Len(fs) > 1 /\ Newest(fs[1].es, k, lastSequence) = << >>
           /\ seekFile' = <<fs[1], first>>
    /\ UNCHANGED <<userVars, nextFile, current, disk, readVars, pointer, manual, work,
                   bgError, scope, manuals, fails>>

\* TEST_CompactRange of all keys.
CompactRange(l) ==
    /\ manuals < scope.manuals /\ manuals' = manuals + 1
    /\ manual = << >> /\ work = << >> /\ ~bgError
    /\ manual' = <<[level |-> l, begin |-> 0]>>
    /\ UNCHANGED <<userVars, nextFile, current, disk, readVars, seekFile, pointer, work,
                   bgError, scope, seeks, fails>>

\* AddLiveFiles and pending_outputs_: what DeleteObsoleteFiles keeps.
Pending == UNION {Numbers(work[i].outputs) : i \in DOMAIN work}
Held == UNION {FilesOf(iter[i].version) : i \in DOMAIN iter}
Inputs == UNION {FilesOf(work[i].base) : i \in DOMAIN work}
Keep(v, pend) == Numbers(FilesOf(v) \cup Held) \cup pend

\* CompactMemTable, at its turn or in the middle of a compaction, when outputs
\* may or may not be on disk.
NewVersion(v) == current' = v /\ seekFile' = << >>
CompactMemTable ==
    /\ mem # {} /\ ~bgError
    /\ LET f == [num |-> nextFile, es |-> mem]
           v == [current EXCEPT ![PickLevelForMemTableOutput(current, KeyRange({f}))] =
                    @ \cup {f}]
       IN  /\ NewVersion(v)
           /\ disk' = (disk \cup {nextFile}) \cap
                        (Keep(v, Pending) \cup Numbers(Inputs))
    /\ nextFile' = nextFile + 1 /\ mem' = {}
    /\ UNCHANGED <<lastSequence, history, readVars, pointer, manual, work, bgError,
                   countVars>>

\* PickCompaction, or the part of a manual compaction that comes next.
Picked ==
    IF manual # << >>
    THEN {[SetupOtherInputs(current, manual[1].level, in) EXCEPT !.manual = TRUE] :
            in \in {ManualInputs(current, manual[1])} \ {{}}}
    ELSE IF SizeCompaction(current)
    THEN {PickFrom(current, CompactionLevel(current),
                   NextInLevel(current, CompactionLevel(current)))}
    ELSE IF seekFile # << >> THEN {PickFrom(current, seekFile[2], seekFile[1])} ELSE {}

\* smallest_snapshot
OldestSnapshot == IF snapshots = {} THEN lastSequence ELSE MinNum(snapshots)

\* BackgroundCompaction until the mutex is given up, or the trivial move.
PickCompaction ==
    /\ work = << >> /\ ~bgError
    /\ \E c \in Picked :
        /\ pointer' = [pointer EXCEPT ![c.level] = <<GreatestOf(EntriesOf(c.in0))>>]
        /\ IF IsTrivialMove(c)
           THEN /\ NewVersion(Apply(current, c.level, c.in0, c.level + 1, c.in0))
                /\ UNCHANGED work
           ELSE /\ work' = <<[c EXCEPT !.limit = OldestSnapshot]>>
                /\ UNCHANGED <<current, seekFile>>
    /\ UNCHANGED <<userVars, nextFile, disk, readVars, manual, bgError, countVars>>

\* A manual compaction that finds no more files is done.
ManualDone ==
    /\ work = << >> /\ manual # << >> /\ ~bgError /\ Picked = {}
    /\ manual' = << >>
    /\ UNCHANGED <<userVars, nextFile, current, disk, readVars, seekFile, pointer, work,
                   bgError, countVars>>

\* The loop: the output files are on disk.
DoCompactionWork ==
    /\ work # << >> /\ work[1].at = "picked"
    /\ LET c == work[1]
           outs == Numbered(Outputs(c, c.limit))
       IN  /\ work' = <<[c EXCEPT !.at = "written", !.outputs = outs]>>
           /\ disk' = disk \cup Numbers(outs)
           /\ nextFile' = nextFile + Cardinality(outs)
    /\ UNCHANGED <<userVars, current, readVars, seekFile, pointer, manual, bgError,
                   countVars>>

\* A manual compaction goes on where its last input ended.
ManualRest(c) ==
    LET last == CHOOSE f \in c.in0 : \A g \in c.in0 : ~Less(Smallest(f), Smallest(g))
    IN  IF c.manual THEN <<[manual[1] EXCEPT !.begin = Largest(last).key]>> ELSE manual

InstallCompactionResults ==
    /\ work # << >> /\ work[1].at = "written"
    /\ LET c == work[1]
           v == Apply(current, c.level, c.in0 \cup c.in1, c.level + 1, c.outputs)
       IN  /\ NewVersion(v)
           /\ disk' = disk \cap Keep(v, {})
           /\ manual' = ManualRest(c)
    /\ work' = << >>
    /\ UNCHANGED <<userVars, nextFile, readVars, pointer, bgError, countVars>>

\* Writing an output or the MANIFEST fails: nothing is deleted from here on.
CompactionFails ==
    /\ work # << >> /\ fails < scope.fails /\ fails' = fails + 1
    /\ bgError' = TRUE /\ work' = << >>
    /\ manual' = << >>
    /\ UNCHANGED <<userVars, nextFile, current, disk, readVars, seekFile, pointer, scope,
                   manuals, seeks>>

Next ==
    \/ \E k \in scope.keys, del \in BOOLEAN : Write(k, del)
    \/ GetSnapshot \/ \E s \in snapshots : ReleaseSnapshot(s)
    \/ NewIterator \/ DeleteIterator
    \/ \E k \in scope.keys : UpdateStats(k)
    \/ \E l \in 0 .. NumLevels - 2 : CompactRange(l)
    \/ CompactMemTable \/ PickCompaction \/ ManualDone \/ DoCompactionWork
    \/ InstallCompactionResults \/ CompactionFails

Spec == Init /\ [][Next]_vars

-----------------------------------------------------------------------------
(***************************************************************************)
(* Properties                                                              *)
(***************************************************************************)
TypeOK ==
    /\ mem \subseteq history /\ snapshots \subseteq 0 .. lastSequence
    /\ \A f \in FilesOf(current) : f.num < nextFile /\ f.es # {} /\ f.es \subseteq history
    /\ \A f, g \in FilesOf(current) : f.num = g.num => f = g
    /\ disk \subseteq 1 .. nextFile - 1

\* MaybeAddFile, "Must not overlap": the files of a level above 0 are disjoint,
\* also when a memtable was flushed in the middle of a compaction. It holds unless
\* CompactRange merges files that leave a gap, which such a memtable may fall into.
LevelsDisjoint ==
    \A l \in Level \ {0} : \A f, g \in current[l] :
        f # g => Less(Largest(f), Smallest(g)) \/ Less(Largest(g), Smallest(f))

\* Version::Get, "entries never hop across levels": no level holds an entry of
\* a key that is newer than one of a level above it.
NewerAbove ==
    \A l, m \in Level : l < m =>
        \A d \in EntriesOf(current[l]), e \in EntriesOf(current[m]) :
            d.key = e.key => d.seq > e.seq

\* At the latest sequence number and at each snapshot that is held, Get returns
\* what was written, whatever was merged, moved or dropped.
GetIsRight ==
    \A s \in snapshots \cup {lastSequence}, k \in Key :
        Value(Get(mem, current, k, s)) = Value(Newest(history, k, s))

\* DeleteObsoleteFiles deletes no file of the current version, of a version an
\* iterator reads, or of a compaction under way, its outputs included.
FilesExist == Numbers(FilesOf(current) \cup Held \cup Inputs) \cup Pending \subseteq disk

\* What Version::Get, the iterators and the next compaction rely on: files that
\* are numbered and there, levels that are disjoint, newer entries above older.
VersionIsSound == TypeOK /\ LevelsDisjoint /\ NewerAbove /\ FilesExist
=============================================================================
