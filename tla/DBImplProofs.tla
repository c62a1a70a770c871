---------------------------- MODULE DBImplProofs ----------------------------
(***************************************************************************)
(* What readers and recoveries see of a database, for any writers,         *)
(* batches, crashes and failures.                                          *)
(*                                                                         *)
(* The entries are in many places: memtables, records of logs, tables, the *)
(* edit of a flush, a recovery under way.  The proof looks at all of these *)
(* pieces at once.  Whatever moves entries makes a piece of pieces; only   *)
(* AddRecord makes a new one.  The last part follows single entries: what  *)
(* is synced, or was shown, stays to be seen, and what is new comes last.  *)
(***************************************************************************)
EXTENDS DBImpl, FiniteSetTheorems, WellFoundedInduction, TLAPS

-----------------------------------------------------------------------------
(***************************************************************************)
(* The writers                                                             *)
(***************************************************************************)
Places == {"idle", "room", "append", "sync", "insert", "inserted", "failed", "syncFailed"}
Statuses == {"new", "waiting", "flushing", "ok", "failed", "lost"}

\* The leader has a group; its record is in the log.
Working == lead.at \in Places \ {"idle", "room"}
InFlight == lead.at \in {"sync", "insert", "inserted", "syncFailed"}

\* A group is the front of the queue, and its leader brings a batch.
GroupIsFront ==
    Working => /\ Len(lead.group) \in 1 .. Len(writers)
               /\ lead.group = SubSeq(writers, 1, Len(lead.group))
               /\ writers[1] \in Write

QueueInv ==
    /\ up \in {"running", "closing", "exited", "rebooted"}
    /\ lead = [at |-> lead.at, delay |-> lead.delay, force |-> lead.force, group |-> lead.group]
    /\ lead.at \in Places
    /\ writers \in Seq(Writer) /\ IsInjective(writers)
    /\ status \in [Writer -> Statuses]
    /\ \A i \in DOMAIN writers : status[writers[i]] = "waiting"
    /\ asleep \subseteq {w \in Writer : status[w] \in {"waiting", "flushing"}}
    /\ lead.at # "idle" => writers # << >>
    /\ up # "running" => writers = << >>
    /\ GroupIsFront

-----------------------------------------------------------------------------
(***************************************************************************)
(* The background thread and the files                                     *)
(***************************************************************************)
Version == [tables : SUBSET Entry, level0 : Nat, log : Nat]
Edit == [tables : SUBSET Entry, level0 : Nat, log : Nat, last : Nat, next : Nat]

\* An edit adds the immutable memtable to the version.
EditIsRight ==
    /\ bg.edit = <<bg.edit[1]>> /\ bg.edit[1] \in Edit
    /\ bg.edit[1].tables = version.tables \cup mems[imm]
    /\ bg.edit[1].log = logNumber
    /\ bg.edit[1].level0 >= version.level0
    /\ \A e \in bg.edit[1].tables : e.seq <= bg.edit[1].last
    /\ bg.at = "written" => manifest = bg.edit[1]

BgInv ==
    /\ bg = [on |-> bg.on, at |-> bg.at, merging |-> bg.merging, edit |-> bg.edit]
    /\ bg.at \in {"idle", "build", "manifest", "written", "merge"}
    /\ bg.merging \in Nat /\ bg.merging <= version.level0
    /\ bg.at \in {"build", "manifest", "written"} => imm # 0
    /\ IF bg.at \in {"manifest", "written"} THEN EditIsRight ELSE bg.edit = << >>
    /\ version \in Version /\ manifest \in Edit
    /\ Alive => version.level0 <= manifest.level0
    /\ \A e \in manifest.tables : e.seq <= manifest.last

Records(n) == ToSet(logs[n].recs)
InLog(n) == UNION Records(n)

\* The log of mem_ is the newest.
MemIsNewest ==
    /\ logNumber \in DOMAIN logs /\ logNumber \in DOMAIN mems
    /\ \A n \in DOMAIN logs : n <= logNumber
    /\ logNumber < nextFile
    /\ mems[logNumber] \subseteq InLog(logNumber)

Recovered == rec.at \in {"opened", "saved"} \/ (rec.at = "replayed" /\ rec.reuse)

LogsInv ==
    /\ \A n \in DOMAIN logs : logs[n] \in [recs : Seq(SUBSET Entry), synced : Nat]
    /\ DOMAIN logs \subseteq Nat \ {0} /\ manifest.log \in DOMAIN logs
    /\ Alive => version.log \in DOMAIN logs /\ version.log <= manifest.log
    /\ ~Alive => \A n \in DOMAIN logs : {} \notin Records(n)
    /\ rec.at = "replayed" => \A n \in DOMAIN logs : n < nextFile

MemsInv ==
    /\ nextFile \in Nat /\ logNumber \in Nat /\ imm \in Nat /\ lastSequence \in Nat
    /\ Alive \/ Recovered => MemIsNewest
    /\ ~Alive /\ ~Recovered => mems = << >> /\ logNumber = 0
    /\ \A n \in DOMAIN mems : n \in Nat \ {0} /\ n < nextFile
    /\ imm # 0 => /\ Alive /\ imm \in DOMAIN mems \cap DOMAIN logs
                  /\ version.log <= imm /\ imm < logNumber
                  /\ mems[imm] \subseteq InLog(imm)
    /\ InFlight => Group \in Records(logNumber)

\* A recovery is under way only when there is nothing else.
RecInv ==
    /\ rec = [at |-> rec.at, entries |-> rec.entries, reuse |-> rec.reuse]
    /\ rec.at \in {"none", "replayed", "opened", "saved"}
    /\ rec.entries \subseteq Entry
    /\ Alive => rec = NoRec
    /\ ~Alive => /\ bg = BgIdle /\ version = [tables |-> {}, level0 |-> 0, log |-> 0]
                 /\ reader = << >>

FilesInv == LogsInv /\ MemsInv /\ RecInv

-----------------------------------------------------------------------------
(***************************************************************************)
(* What is in memory and on disk                                           *)
(***************************************************************************)

\* The logs that count: those which the version, or the next recovery, needs.
Relevant == {n \in DOMAIN logs : n >= (IF Alive THEN version.log ELSE manifest.log)}

Edits == {bg.edit[i].tables : i \in DOMAIN bg.edit}
Tabled == version.tables \cup manifest.tables \cup UNION Edits
Pieces == {mems[n] : n \in DOMAIN mems} \cup RecordsOf(Relevant)
            \cup {version.tables, manifest.tables, rec.entries} \cup Edits

By(S, w) == {e \in S : e.by = w}
Whole(S) == \A w \in Write : By(S, w) = {} \/ Cardinality(By(S, w)) = Len(Batch[w])
Agree(S, T) == \A e \in S, f \in T : /\ e.by = f.by => f \in S
                                     /\ e.seq = f.seq => e = f
Sound(Ps) == \A S \in Ps : S \subseteq Entry /\ Whole(S) /\ \A T \in Ps : Agree(S, T)

\* The writes that are there have been answered, but for the group at work.
Answered ==
    \A S \in Pieces : \A e \in S :
        status[e.by] \in {"ok", "failed", "lost"} \/ (InFlight /\ e \in Group)

\* LastSeq is what its name says.
LastIsMax(r) == r = {} \/ \E e \in r : LastSeq(r) = e.seq /\ \A f \in r : f.seq <= e.seq

Counted ==
    /\ \A S \in Pieces : \A e \in S : e.seq <= lastSequence \/ (InFlight /\ e \in Group)
    /\ \A e \in Tabled \cup rec.entries : e.seq <= lastSequence
    /\ imm # 0 => \A e \in mems[imm] : e.seq <= lastSequence
    /\ Alive /\ lead.at # "inserted" => \A e \in mems[logNumber] : e.seq <= lastSequence

Bounded ==
    \E b \in Nat : /\ \A n \in DOMAIN logs : n <= b
                   /\ \A S \in Pieces : \A e \in S : e.seq <= b

NumbersInv ==
    /\ \A r \in RecordsOf(Relevant) : LastIsMax(r)
    /\ Alive \/ rec.at # "none" => Counted
    /\ Bounded

Precedes(S, T) == \A e \in S, f \in T : e.seq < f.seq

OrderInv ==
    /\ \A m, n \in Relevant : m < n => Precedes(InLog(m), InLog(n))
    /\ \A n \in DOMAIN logs : (\A m \in DOMAIN logs : m <= n) =>
        /\ Precedes(Tabled, InLog(n))
        /\ Alive \/ Recovered => Precedes(rec.entries, InLog(n))
    /\ imm # 0 => Precedes(version.tables, mems[imm])

\* A reader's view: what it holds, which is what is in memory as of its snapshot.
Older(r) == (IF r.imm = 0 THEN {} ELSE mems[r.imm]) \cup r.tables
ViewOf(r) == mems[r.mem] \cup Older(r)
ReaderIsRight(r) ==
    /\ r = [key |-> r.key, snap |-> r.snap, mem |-> r.mem, imm |-> r.imm,
            tables |-> r.tables, got |-> r.got, done |-> r.done]
    /\ r.snap \in Nat /\ r.snap <= lastSequence
    /\ r.mem \in DOMAIN mems /\ r.imm \in (DOMAIN mems \cup {0}) \ {r.mem}
    /\ r.imm # 0 => r.imm # logNumber
    /\ \A e \in ViewOf(r) : e.seq <= r.snap => e \in InMemory
    /\ \A e \in InMemory : e.seq <= r.snap => e \in ViewOf(r)
    /\ \A e \in Older(r) : e.seq <= r.snap
    /\ Precedes(Older(r), mems[r.mem])
    /\ r.imm # 0 => Precedes(r.tables, mems[r.imm])
    /\ r.done => r.got = Newest(InMemory, r.key, r.snap)

ReaderInv ==
    /\ reader = << >> \/ reader = <<reader[1]>>
    /\ \A i \in DOMAIN reader : ReaderIsRight(reader[i])

DBInv ==
    /\ scope \in Scopes
    /\ QueueInv /\ BgInv /\ FilesInv /\ Sound(Pieces) /\ Answered /\ NumbersInv /\ OrderInv
    /\ ReaderInv
-----------------------------------------------------------------------------
(***************************************************************************)
(* Sets of numbers                                                         *)
(***************************************************************************)

\* A bounded set of numbers has a largest one.
LEMMA LargestExists ==
    ASSUME NEW S \in SUBSET Nat, S # {}, NEW b \in Nat, \A x \in S : x <= b
    PROVE  \E m \in S : \A x \in S : x <= m
<1> DEFINE Above(x) == {y \in S : x < y}
           T == {Above(x) : x \in S}
<1>1. IsFiniteSet(S)
  BY FS_BoundedSetOfNaturals
<1>2. T \subseteq FiniteSubsetsOf(S) /\ T # {}
  <2>1. \A x \in S : Above(x) \in SUBSET S
    OBVIOUS
  <2>2. \A x \in S : IsFiniteSet(Above(x))
    <3> TAKE x \in S
    <3> HIDE DEF Above
    <3> QED
      BY <2>1, <1>1, FS_Subset
  <2> HIDE DEF Above
  <2> QED
    BY <2>1, <2>2 DEF FiniteSubsetsOf
<1>3. PICK A \in T : \A B \in T : <<B, A>> \notin StrictSubsetOrdering(S)
  <2> HIDE DEF T
  <2> QED
    BY <1>2, WFMin, FS_StrictSubsetOrderingWellFounded
<1>4. PICK m \in S : A = Above(m)
  OBVIOUS
<1>5. ASSUME NEW x \in S, m < x PROVE FALSE
  <2>0. \A i, j, k \in Nat : i < j /\ j < k => i < k
    OBVIOUS
  <2>1. Above(x) \subseteq Above(m)
    <3> SUFFICES ASSUME NEW y \in S, x < y PROVE m < y
      OBVIOUS
    <3>1. x \in Nat /\ y \in Nat /\ m \in Nat
      OBVIOUS
    <3> QED
      BY <3>1, <2>0, <1>5
  <2>3. x \in Above(m) /\ x \notin Above(x)
    BY <1>5
  <2>2. <<Above(x), A>> \in StrictSubsetOrdering(S)
    BY <2>1, <2>3, <1>4 DEF StrictSubsetOrdering
  <2> QED
    BY <2>2, <1>3
<1> QED
  BY <1>5

\* A set of numbers that is not empty has a smallest one.
LEMMA SmallestExists ==
    ASSUME NEW S \in SUBSET Nat, S # {}
    PROVE  \E m \in S : \A x \in S : m <= x
<1>1. PICK b \in S : TRUE
  OBVIOUS
<1> DEFINE Low == {x \in S : x <= b}
           Turned == {b - x : x \in Low}
<1>2. Turned \in SUBSET Nat /\ Turned # {} /\ \A y \in Turned : y <= b
  BY <1>1
<1>3. PICK t \in Turned : \A y \in Turned : y <= t
  <2> HIDE DEF Turned
  <2> QED
    BY <1>1, <1>2, LargestExists
<1>4. PICK m \in Low : t = b - m
  OBVIOUS
<1>5. ASSUME NEW x \in S PROVE m <= x
  <2>1. CASE x <= b
    <3>1. b - x \in Turned
      BY <2>1, <1>5
    <3> QED
      BY <3>1, <1>3, <1>4, <1>5, <1>1
  <2>2. CASE ~(x <= b)
    BY <2>2, <1>4, <1>5, <1>1
  <2> QED
    BY <2>1, <2>2
<1> QED
  BY <1>4, <1>5

\* The choice of the smallest is the smallest.
LEMMA MinIs ==
    ASSUME NEW S \in SUBSET Nat, NEW m \in S, \A x \in S : m <= x
    PROVE  Min(S) = m
<1>1. \E x \in S : \A y \in S : x =< y
  OBVIOUS
<1>2. Min(S) \in S /\ \A y \in S : Min(S) =< y
  BY <1>1 DEF Min
<1>3. Min(S) \in Nat /\ m \in Nat /\ Min(S) =< m /\ m <= Min(S)
  BY <1>2
<1> QED
  BY <1>3

\* MaxOr0 of a bounded set of numbers is one of them, or 0, and above all.
LEMMA MaxOr0Is ==
    ASSUME NEW S \in SUBSET Nat, NEW b \in Nat, \A x \in S : x <= b
    PROVE  /\ MaxOr0(S) \in S \cup {0}
           /\ \A x \in S : x <= MaxOr0(S)
<1>1. \E m \in S \cup {0} : \A x \in S \cup {0} : x <= m
  <2>1. S \cup {0} \in SUBSET Nat /\ S \cup {0} # {} /\ \A x \in S \cup {0} : x <= b
    OBVIOUS
  <2> QED
    BY <2>1, LargestExists
<1>2. \E x \in S \cup {0} : \A y \in S \cup {0} : x >= y
  BY <1>1
<1> QED
  BY <1>2 DEF MaxOr0, Max

-----------------------------------------------------------------------------
(***************************************************************************)
(* The entries of a group                                                  *)
(***************************************************************************)

\* The keys and the lengths of batches.
LEMMA BatchTypes ==
    ASSUME NEW w \in Writer
    PROVE  /\ Batch[w] \in Seq(Key)
           /\ w \in Write <=> Batch[w] # << >>
           /\ Len(Batch[w]) \in Nat /\ DOMAIN Batch[w] = 1 .. Len(Batch[w])
<1>1. Batch[w] \in Seq(Key)
  BY DBAssumption
<1> QED
  BY <1>1 DEF Write, Flusher

\* The members of a group.
LEMMA ItemsFinite ==
    ASSUME NEW ws \in Seq(Writer)
    PROVE  /\ IsFiniteSet(Items(ws)) /\ Cardinality(Items(ws)) \in Nat
           /\ \A p \in Items(ws) :
                /\ p = <<p[1], p[2]>> /\ p[1] \in 1 .. Len(ws) /\ ws[p[1]] \in Writer
                /\ p[2] \in 1 .. Len(Batch[ws[p[1]]])
           /\ \A i \in 1 .. Len(ws) : \A j \in DOMAIN Batch[ws[i]] : <<i, j>> \in Items(ws)
<1> DEFINE Of(i) == {i} \X DOMAIN Batch[ws[i]]
           f == [i \in 1 .. Len(ws) |-> Of(i)]
           Rng == {Of(i) : i \in 1 .. Len(ws)}
<1>1. \A i \in 1 .. Len(ws) : IsFiniteSet(Of(i))
  <2> TAKE i \in 1 .. Len(ws)
  <2>1. ws[i] \in Writer
    OBVIOUS
  <2>2. IsFiniteSet({i}) /\ IsFiniteSet(DOMAIN Batch[ws[i]])
    <3>0. Len(Batch[ws[i]]) \in Int
      BY <2>1, BatchTypes
    <3>1. IsFiniteSet(1 .. Len(Batch[ws[i]]))
      BY <3>0, FS_Interval
    <3> QED
      BY <3>1, <2>1, BatchTypes, FS_Singleton
  <2> QED
    BY <2>2, FS_Product
<1>2. IsFiniteSet(Rng)
  <2>1. IsFiniteSet(1 .. Len(ws))
    BY FS_Interval
  <2>2. f \in Surjection(1 .. Len(ws), Rng)
    BY DEF Surjection
  <2> QED
    BY <2>1, <2>2, FS_Surjection
<1>3. Items(ws) = UNION Rng
  BY DEF Items
<1>4. IsFiniteSet(Items(ws))
  <2>1. \A T \in Rng : IsFiniteSet(T)
    BY <1>1
  <2> QED
    BY <2>1, <1>2, <1>3, FS_UNION
<1>5. \A p \in Items(ws) : \E i \in 1 .. Len(ws) : \E j \in DOMAIN Batch[ws[i]] : p = <<i, j>>
  BY DEF Items
<1>6. \A p \in Items(ws) :
                /\ p = <<p[1], p[2]>> /\ p[1] \in 1 .. Len(ws) /\ ws[p[1]] \in Writer
                /\ p[2] \in 1 .. Len(Batch[ws[p[1]]])
  <2> TAKE p \in Items(ws)
  <2>0. PICK i \in 1 .. Len(ws) : \E j \in DOMAIN Batch[ws[i]] : p = <<i, j>>
    BY <1>5
  <2>1. PICK j \in DOMAIN Batch[ws[i]] : p = <<i, j>>
    BY <2>0
  <2>2. ws[i] \in Writer
    OBVIOUS
  <2> QED
    BY <2>1, <2>2, BatchTypes
<1>7. \A i \in 1 .. Len(ws) : \A j \in DOMAIN Batch[ws[i]] : <<i, j>> \in Items(ws)
  BY DEF Items
<1> QED
  BY <1>4, <1>6, <1>7, FS_CardinalityType

\* Every member of a group has a place of its own, and no place is left out.
LEMMA BeforeCounts ==
    ASSUME NEW ws \in Seq(Writer)
    PROVE  /\ \A p \in Items(ws) : Cardinality(Before(ws, p)) \in 0 .. Cardinality(Items(ws)) - 1
           /\ \A p, q \in Items(ws) :
                Cardinality(Before(ws, p)) = Cardinality(Before(ws, q)) => p = q
           /\ \A k \in 0 .. Cardinality(Items(ws)) - 1 :
                \E p \in Items(ws) : Cardinality(Before(ws, p)) = k
<1> DEFINE n == Cardinality(Items(ws))
           num(p) == Cardinality(Before(ws, p))
           First(p, q) == p[1] < q[1] \/ (p[1] = q[1] /\ p[2] < q[2])
<1>1. IsFiniteSet(Items(ws)) /\ n \in Nat
  BY ItemsFinite
<1>2. \A p \in Items(ws) : p = <<p[1], p[2]>> /\ p[1] \in Nat /\ p[2] \in Nat
  BY ItemsFinite, BatchTypes
<1>3. \A p, q \in Items(ws) : p \in Before(ws, q) <=> First(p, q)
  BY DEF Before
<1>4. \A p, q, r \in Items(ws) : First(p, q) /\ First(q, r) => First(p, r)
  BY <1>2
<1>5. \A p, q \in Items(ws) : p = q \/ First(p, q) \/ First(q, p)
  BY <1>2
<1>6. \A p \in Items(ws) : ~First(p, p)
  BY <1>2
<1>7. \A p \in Items(ws) : Before(ws, p) \in SUBSET Items(ws)
  BY DEF Before
<1> HIDE DEF First
<1>8. \A p \in Items(ws) : IsFiniteSet(Before(ws, p)) /\ num(p) \in Nat
  BY <1>1, <1>7, FS_Subset, FS_CardinalityType
<1>9. \A p, q \in Items(ws) : First(p, q) => num(p) < num(q)
  <2> SUFFICES ASSUME NEW p \in Items(ws), NEW q \in Items(ws), First(p, q)
               PROVE  num(p) < num(q)
    OBVIOUS
  <2>1. Before(ws, p) \in SUBSET Before(ws, q)
    BY <1>3, <1>4, <1>7
  <2>2. Before(ws, p) # Before(ws, q)
    BY <1>3, <1>6
  <2>3. num(p) <= num(q) /\ num(q) # num(p)
    BY ONLY <2>1, <2>2, <1>8, FS_Subset
  <2> QED
    BY <2>3, <1>8
<1>10. ASSUME NEW p \in Items(ws) PROVE num(p) \in 0 .. n - 1
  <2>1. Before(ws, p) # Items(ws)
    BY <1>3, <1>6
  <2>2. num(p) <= n /\ n # num(p)
    BY ONLY <2>1, <1>1, <1>7, FS_Subset
  <2> HIDE DEF n, num
  <2> QED
    BY <2>2, <1>8, <1>1
<1>11. \A p, q \in Items(ws) : num(p) = num(q) => p = q
  BY <1>5, <1>8, <1>9
<1>12. \A k \in 0 .. n - 1 : \E p \in Items(ws) : num(p) = k
  <2> DEFINE g == [p \in Items(ws) |-> num(p)]
  <2> HIDE DEF num, n
  <2>1. g \in Injection(Items(ws), 0 .. n - 1)
    BY <1>10, <1>11 DEF Injection, IsInjective
  <2>2. IsFiniteSet(0 .. n - 1) /\ Cardinality(0 .. n - 1) = n
    <3>1. 0 \in Int /\ n - 1 \in Int /\ (IF 0 > n - 1 THEN 0 ELSE (n - 1) - 0 + 1) = n
      BY <1>1
    <3>2. /\ IsFiniteSet(0 .. n - 1)
          /\ Cardinality(0 .. n - 1) = IF 0 > n - 1 THEN 0 ELSE (n - 1) - 0 + 1
      BY ONLY <3>1, FS_Interval
    <3> QED
      BY <3>1, <3>2
  <2>3. Cardinality(Items(ws)) = Cardinality(0 .. n - 1)
    BY <2>2 DEF n
  <2>4. g \in Surjection(Items(ws), 0 .. n - 1)
    <3> HIDE DEF g
    <3> QED
      BY <2>1, <2>2, <2>3, FS_Injection
  <2> QED
    BY <2>4 DEF Surjection
<1> QED
  BY <1>10, <1>11, <1>12

\* The entries of a group: one for each member, with numbers from `first' on, and
\* with an entry of a batch all of it.
LEMMA GroupEntries ==
    ASSUME NEW ws \in Seq(Writer), IsInjective(ws), ws # << >>, ws[1] \in Write,
           NEW first \in Nat \ {0}
    PROVE  LET E == Entries(ws, first)
           IN  /\ E \subseteq Entry /\ E # {} /\ Cardinality(E) \in Nat
               /\ \A e \in E : e.by \in ToSet(ws) /\ first <= e.seq
               /\ \A e \in E : e.seq <= first + Cardinality(E) - 1
               /\ \A e, f \in E : e.seq = f.seq => e = f
               /\ Whole(E) /\ LastIsMax(E)
<1> DEFINE E == Entries(ws, first)
           n == Cardinality(Items(ws))
           num(p) == Cardinality(Before(ws, p))
           entry(p) == [key |-> Batch[ws[p[1]]][p[2]], by |-> ws[p[1]], seq |-> first + num(p)]
<1>1. E = {entry(p) : p \in Items(ws)}
  BY DEF Entries
<1>2. /\ IsFiniteSet(Items(ws)) /\ n \in Nat
      /\ \A p \in Items(ws) :
                /\ p = <<p[1], p[2]>> /\ p[1] \in 1 .. Len(ws) /\ ws[p[1]] \in Writer
                /\ p[2] \in 1 .. Len(Batch[ws[p[1]]])
      /\ \A i \in 1 .. Len(ws) : \A j \in DOMAIN Batch[ws[i]] : <<i, j>> \in Items(ws)
  BY ItemsFinite
<1>3. /\ \A p \in Items(ws) : num(p) \in 0 .. n - 1
      /\ \A p, q \in Items(ws) : num(p) = num(q) => p = q
      /\ \A k \in 0 .. n - 1 : \E p \in Items(ws) : num(p) = k
  BY BeforeCounts
<1>4. Len(ws) \in Nat /\ 1 \in 1 .. Len(ws) /\ ws[1] \in Writer
  BY DEF Write
<1>5. <<1, 1>> \in Items(ws)
  <2>1. Batch[ws[1]] # << >>
    BY <1>4, BatchTypes
  <2>2. 1 \in DOMAIN Batch[ws[1]]
    BY <2>1, <1>4, BatchTypes
  <2> QED
    BY <2>2, <1>2, <1>4
<1>6. n >= 1
  BY <1>2, <1>5, FS_EmptySet
<1>7. \A p \in Items(ws) :
        /\ entry(p).seq = first + num(p) /\ entry(p).by = ws[p[1]] /\ entry(p) \in Entry
  <2> SUFFICES ASSUME NEW p \in Items(ws) PROVE entry(p) \in Entry
    OBVIOUS
  <2>0. p[1] \in 1 .. Len(ws) /\ ws[p[1]] \in Writer /\ p[2] \in 1 .. Len(Batch[ws[p[1]]])
    BY <1>2
  <2>1. Batch[ws[p[1]]] \in Seq(Key) /\ Batch[ws[p[1]]] # << >>
    <3> DEFINE b == Batch[ws[p[1]]]
    <3>1. b \in Seq(Key) /\ p[2] \in 1 .. Len(b)
      BY <2>0, BatchTypes
    <3> HIDE DEF b
    <3>2. b # << >>
      BY <3>1
    <3> QED
      BY <3>1, <3>2 DEF b
  <2>2. ws[p[1]] \in Write
    BY <2>0, <2>1, BatchTypes
  <2>3. Batch[ws[p[1]]][p[2]] \in Key
    BY <2>0, <2>1
  <2>4. first + num(p) \in Nat \ {0}
    BY <1>3
  <2> QED
    BY <2>2, <2>3, <2>4 DEF Entry
<1> HIDE DEF E, num, entry
<1>8. \A e \in E : \E p \in Items(ws) : e = entry(p)
  BY <1>1
<1>9. \A p, q \in Items(ws) : entry(p) = entry(q) => p = q
  <2> SUFFICES ASSUME NEW p \in Items(ws), NEW q \in Items(ws), entry(p) = entry(q)
               PROVE  num(p) = num(q)
    BY <1>3
  <2>1. first + num(p) = first + num(q) /\ num(p) \in Int /\ num(q) \in Int
    BY <1>3, <1>7
  <2> QED
    BY <2>1
<1>10. IsFiniteSet(E) /\ Cardinality(E) = n
  <2> DEFINE g == [p \in Items(ws) |-> entry(p)]
  <2>1. g \in Bijection(Items(ws), E)
    BY <1>1, <1>9 DEF Bijection, Injection, Surjection, IsInjective
  <2>2. ExistsBijection(Items(ws), E)
    BY <2>1 DEF ExistsBijection
  <2> QED
    BY <2>2, <1>2, FS_Bijection
<1>11. ASSUME NEW e \in E PROVE first <= e.seq /\ e.seq <= first + n - 1 /\ e.by \in ToSet(ws)
  <2>1. PICK p \in Items(ws) : e = entry(p)
    BY <1>8
  <2>2. e.seq = first + num(p) /\ num(p) \in 0 .. n - 1 /\ e.by = ws[p[1]] /\ p[1] \in 1 .. Len(ws)
    BY <2>1, <1>3, <1>7, <1>2
  <2>3. e.by \in ToSet(ws)
    BY <2>2 DEF ToSet
  <2> QED
    BY <2>2, <2>3, <1>2
<1>12. \A e, f \in E : e.seq = f.seq => e = f
  <2> SUFFICES ASSUME NEW e \in E, NEW f \in E, e.seq = f.seq PROVE e = f
    OBVIOUS
  <2>1. PICK p \in Items(ws) : e = entry(p)
    BY <1>8
  <2>2. PICK q \in Items(ws) : f = entry(q)
    BY <1>8
  <2>3. first + num(p) = first + num(q) /\ num(p) \in Int /\ num(q) \in Int
    BY <2>1, <2>2, <1>3, <1>7
  <2> QED
    BY <2>1, <2>2, <2>3, <1>3
<1>13. Whole(E)
  <2> SUFFICES ASSUME NEW w \in Write, By(E, w) # {}
               PROVE  Cardinality(By(E, w)) = Len(Batch[w])
    BY DEF Whole
  <2>1. PICK i \in 1 .. Len(ws) : ws[i] = w
    <3>1. PICK e \in E : e.by = w
      BY DEF By
    <3>2. PICK p \in Items(ws) : e = entry(p)
      BY <1>8
    <3> QED
      BY <3>1, <3>2, <1>7, <1>2
  <2>2. Batch[w] \in Seq(Key) /\ Len(Batch[w]) \in Nat /\ DOMAIN Batch[w] = 1 .. Len(Batch[w])
    BY BatchTypes DEF Write
  <2> DEFINE g == [j \in 1 .. Len(Batch[w]) |-> entry(<<i, j>>)]
  <2>3. \A j \in 1 .. Len(Batch[w]) : <<i, j>> \in Items(ws) /\ entry(<<i, j>>) \in By(E, w)
    <3> TAKE j \in 1 .. Len(Batch[w])
    <3>1. <<i, j>> \in Items(ws)
      BY <2>1, <2>2, <1>2
    <3>2. entry(<<i, j>>) \in E /\ entry(<<i, j>>).by = w
      BY <3>1, <1>1, <1>7, <2>1
    <3> QED
      BY <3>1, <3>2 DEF By
  <2>4. \A e \in By(E, w) : \E j \in 1 .. Len(Batch[w]) : e = entry(<<i, j>>)
    <3> TAKE e \in By(E, w)
    <3>1. PICK p \in Items(ws) : e = entry(p)
      BY <1>8 DEF By
    <3>2. ws[p[1]] = w /\ p[1] \in 1 .. Len(ws) /\ p = <<p[1], p[2]>>
      BY <3>1, <1>7, <1>2 DEF By
    <3>3. p[1] = i
      BY <3>2, <2>1 DEF IsInjective
    <3>4. p[2] \in 1 .. Len(Batch[w])
      BY <3>2, <1>2
    <3> QED
      BY <3>1, <3>2, <3>3, <3>4
  <2>5. g \in Bijection(1 .. Len(Batch[w]), By(E, w))
    <3>1. \A j, k \in 1 .. Len(Batch[w]) : entry(<<i, j>>) = entry(<<i, k>>) => j = k
      BY <2>3, <1>9
    <3> QED
      BY <2>3, <2>4, <3>1 DEF Bijection, Injection, Surjection, IsInjective
  <2>6. ExistsBijection(1 .. Len(Batch[w]), By(E, w))
    BY <2>5 DEF ExistsBijection
  <2> QED
    BY <2>6, <2>2, FS_CountingElements
<1>14. \E e \in E : e.seq = first
  <2>1. PICK p \in Items(ws) : num(p) = 0
    BY <1>3, <1>6, <1>2
  <2>2. entry(p) \in E /\ entry(p).seq = first
    BY <2>1, <1>1, <1>7
  <2> QED
    BY <2>2
<1>15. FirstSeq(E) = first
  <2>1. {e.seq : e \in E} \in SUBSET Nat
    <3>1. \A e \in E : e.seq \in Nat
      BY <1>8, <1>7, <1>3
    <3> QED
      BY <3>1
  <2>2. first \in {e.seq : e \in E} /\ \A x \in {e.seq : e \in E} : first <= x
    BY <1>14, <1>11
  <2> QED
    BY <2>1, <2>2, MinIs DEF FirstSeq
<1>16. LastIsMax(E)
  <2>1. LastSeq(E) = first + n - 1
    BY <1>15, <1>10 DEF LastSeq
  <2>2. PICK p \in Items(ws) : num(p) = n - 1
    <3>1. n - 1 \in 0 .. n - 1
      BY <1>6, <1>2
    <3> HIDE DEF n
    <3> QED
      BY ONLY <3>1, <1>3
  <2>3. entry(p) \in E /\ entry(p).seq = first + n - 1
    BY <2>2, <1>1, <1>7, <1>2
  <2> QED
    BY <2>1, <2>3, <1>11 DEF LastIsMax
<1>17. E \subseteq Entry /\ E # {}
  BY <1>8, <1>7, <1>14
<1> QED
  BY <1>2, <1>10, <1>11, <1>12, <1>13, <1>16, <1>17 DEF E

-----------------------------------------------------------------------------
(***************************************************************************)
(* Pieces                                                                  *)
(***************************************************************************)

\* What is put together from pieces is sound with them.
LEMMA SoundUnion ==
    ASSUME NEW Ps, NEW Qs, Sound(Ps), \A Q \in Qs : \E A \in SUBSET Ps : Q = UNION A
    PROVE  Sound(Qs)
<1>1. ASSUME NEW Q \in Qs, NEW R \in Qs PROVE Agree(Q, R)
  <2> SUFFICES ASSUME NEW e \in Q, NEW f \in R
               PROVE  (e.by = f.by => f \in Q) /\ (e.seq = f.seq => e = f)
    BY DEF Agree
  <2>1. PICK A \in SUBSET Ps : Q = UNION A
    OBVIOUS
  <2>2. PICK B \in SUBSET Ps : R = UNION B
    OBVIOUS
  <2>3. PICK S \in Ps : e \in S /\ S \subseteq Q
    BY <2>1
  <2>4. PICK T \in Ps : f \in T
    BY <2>2
  <2>5. Agree(S, T)
    BY DEF Sound
  <2> QED
    BY <2>3, <2>4, <2>5 DEF Agree
<1>2. ASSUME NEW Q \in Qs PROVE Q \subseteq Entry /\ Whole(Q)
  <2>1. PICK A \in SUBSET Ps : Q = UNION A
    OBVIOUS
  <2>2. Q \subseteq Entry
    BY <2>1 DEF Sound
  <2>3. ASSUME NEW w \in Write, By(Q, w) # {} PROVE Cardinality(By(Q, w)) = Len(Batch[w])
    <3>1. PICK e \in Q : e.by = w
      BY <2>3 DEF By
    <3>2. PICK S \in A : e \in S
      BY <2>1
    <3>3. By(Q, w) = By(S, w)
      <4>1. S \subseteq Q
        BY <2>1
      <4>2. ASSUME NEW f \in Q, f.by = w PROVE f \in S
        <5>1. PICK T \in A : f \in T
          BY <2>1
        <5>2. Agree(S, T)
          BY DEF Sound
        <5> QED
          BY <5>1, <5>2, <3>1, <3>2, <4>2 DEF Agree
      <4> QED
        BY <4>1, <4>2 DEF By
    <3>4. By(S, w) # {}
      BY <3>1, <3>2 DEF By
    <3> QED
      BY <3>3, <3>4 DEF Sound, Whole
  <2> QED
    BY <2>2, <2>3 DEF Whole
<1> QED
  BY <1>1, <1>2 DEF Sound

\* A piece that shares no write and no number with the others may join them.
LEMMA SoundFresh ==
    ASSUME NEW Ps, NEW G, Sound(Ps), G \subseteq Entry, Whole(G),
           \A e, f \in G : e.seq = f.seq => e = f,
           \A S \in Ps : \A e \in S, f \in G : e.by # f.by /\ e.seq # f.seq
    PROVE  Sound(Ps \cup {G})
<1>1. Agree(G, G)
  BY DEF Agree
<1>2. \A S \in Ps : Agree(S, G) /\ Agree(G, S)
  BY DEF Agree
<1> QED
  BY <1>1, <1>2 DEF Sound

-----------------------------------------------------------------------------
(***************************************************************************)
(* Lookups                                                                 *)
(***************************************************************************)
Hits(S, k, snap) == {e \in S : e.key = k /\ e.seq <= snap}

NewestOf(H) ==
    IF H = {} THEN << >> ELSE <<(CHOOSE e \in H : \A f \in H : f.seq <= e.seq).by>>

\* What is newest among the hits is what Newest gives.
LEMMA NewestIs ==
    ASSUME NEW S \in SUBSET Entry, NEW k, NEW snap \in Nat, NEW e \in Hits(S, k, snap),
           \A f \in Hits(S, k, snap) : f.seq <= e.seq,
           \A f \in Hits(S, k, snap) : f.seq = e.seq => f = e
    PROVE  Newest(S, k, snap) = <<e.by>>
<1> DEFINE H == Hits(S, k, snap)
           c == CHOOSE g \in H : \A f \in H : f.seq <= g.seq
<1>1. c \in H /\ \A f \in H : f.seq <= c.seq
  OBVIOUS
<1>2. c = e
  <2>1. c.seq \in Nat /\ e.seq \in Nat /\ c.seq <= e.seq /\ e.seq <= c.seq
    BY <1>1 DEF Hits, Entry
  <2> QED
    BY <1>1, <2>1
<1>3. Newest(S, k, snap) = <<c.by>>
  BY <1>1 DEF Newest, Hits
<1> QED
  BY <1>2, <1>3

\* Newest depends on the hits only.
LEMMA NewestHits ==
    ASSUME NEW S, NEW T, NEW k, NEW snap, Hits(S, k, snap) = Hits(T, k, snap)
    PROVE  Newest(S, k, snap) = Newest(T, k, snap)
<1>1. Newest(S, k, snap) = NewestOf(Hits(S, k, snap))
  BY DEF Newest, Hits, NewestOf
<1>2. Newest(T, k, snap) = NewestOf(Hits(T, k, snap))
  BY DEF Newest, Hits, NewestOf
<1> QED
  BY <1>1, <1>2

\* Without a hit there is nothing.
LEMMA NoneNewest ==
    ASSUME NEW S, NEW k, NEW snap
    PROVE  Hits(S, k, snap) = {} => Newest(S, k, snap) = << >>
BY DEF Newest, Hits

\* With a hit there is something.
LEMMA SomeNewest ==
    ASSUME NEW S, NEW k, NEW snap
    PROVE  Hits(S, k, snap) # {} => Newest(S, k, snap) # << >>
BY DEF Newest, Hits

\* What is newest where something is, is newest of all if the rest is older.
LEMMA NewestUpper ==
    ASSUME NEW S \in SUBSET Entry, NEW T \in SUBSET Entry, NEW k, NEW snap \in Nat,
           \A e, f \in S \cup T : e.seq <= snap /\ f.seq <= snap /\ e.seq = f.seq => e = f,
           Precedes(T, S), Hits(S, k, snap) # {}
    PROVE  Newest(S \cup T, k, snap) = Newest(S, k, snap)
<1> DEFINE N == {e.seq : e \in Hits(S, k, snap)}
<1>1. \A e \in S \cup T : e.seq \in Nat
  BY DEF Entry
<1>2. N \in SUBSET Nat /\ N # {} /\ \A x \in N : x <= snap
  BY <1>1 DEF Hits
<1>3. PICK m \in N : \A x \in N : x <= m
  <2> HIDE DEF N
  <2> QED
    BY <1>2, LargestExists
<1>4. PICK e \in Hits(S, k, snap) : m = e.seq
  OBVIOUS
<1>5. \A f \in Hits(S, k, snap) : f.seq <= e.seq
  BY <1>3, <1>4
<1>6. \A f \in Hits(S \cup T, k, snap) : f.seq = e.seq => f = e
  BY <1>4 DEF Hits
<1>7. ASSUME NEW f \in Hits(S \cup T, k, snap) PROVE f.seq <= e.seq
  <2>1. CASE f \in S
    BY <2>1, <1>5 DEF Hits
  <2>2. CASE f \in T
    <3>1. f.seq < e.seq /\ f.seq \in Nat /\ e.seq \in Nat
      BY <2>2, <1>4, <1>1 DEF Hits, Precedes
    <3> QED
      BY <3>1
  <2> QED
    BY <2>1, <2>2 DEF Hits
<1>8. e \in Hits(S \cup T, k, snap) /\ S \cup T \in SUBSET Entry
  BY <1>4 DEF Hits
<1>9. Newest(S \cup T, k, snap) = <<e.by>>
  BY <1>6, <1>7, <1>8, NewestIs
<1>10. \A f \in Hits(S, k, snap) : f.seq = e.seq => f = e
  BY <1>6 DEF Hits
<1>11. Newest(S, k, snap) = <<e.by>>
  BY <1>4, <1>5, <1>10, NewestIs
<1> QED
  BY <1>9, <1>11

\* While the database is open, what it has in memory is in pieces.
LEMMA InMemoryIsSound ==
    ASSUME FilesInv, Sound(Pieces), Alive
    PROVE  /\ mems[logNumber] \in Pieces /\ version.tables \in Pieces
           /\ imm # 0 => mems[imm] \in Pieces
           /\ InMemory \in SUBSET Entry
           /\ \A e, f \in InMemory : e.seq = f.seq => e = f
<1>1. mems[logNumber] \in Pieces /\ version.tables \in Pieces
  BY DEF FilesInv, MemsInv, MemIsNewest, Pieces
<1>2. imm # 0 => mems[imm] \in Pieces
  BY DEF FilesInv, MemsInv, Pieces
<1>3. \A e \in InMemory : \E S \in Pieces : e \in S
  BY <1>1, <1>2 DEF InMemory
<1>4. InMemory \in SUBSET Entry
  BY <1>3 DEF Sound
<1>5. ASSUME NEW e \in InMemory, NEW f \in InMemory, e.seq = f.seq PROVE e = f
  <2>1. PICK S \in Pieces : e \in S
    BY <1>3
  <2>2. PICK T \in Pieces : f \in T
    BY <1>3
  <2> QED
    BY <2>1, <2>2, <1>5 DEF Sound, Agree
<1> QED
  BY <1>1, <1>2, <1>4, <1>5

\* Looking in the memtable, then in the immutable one, then in the tables finds
\* what looking in all of them would.
LEMMA GotIsNewest ==
    ASSUME FilesInv, Sound(Pieces), Alive, NEW r, ReaderIsRight(r)
    PROVE  Got(r) = Newest(InMemory, r.key, r.snap)
<1> DEFINE M == mems[r.mem]
           I == IF r.imm = 0 THEN {} ELSE mems[r.imm]
           T == r.tables
           N(S) == Newest(S, r.key, r.snap)
           H(S) == Hits(S, r.key, r.snap)
<1>1. InMemory \in SUBSET Entry /\ \A e, f \in InMemory : e.seq = f.seq => e = f
  BY InMemoryIsSound
<1>2. r.snap \in Nat
  BY DEF ReaderIsRight
<1>3. \A e \in M \cup (I \cup T) : e.seq <= r.snap => e \in InMemory
  BY DEF ReaderIsRight, ViewOf, Older
<1>4. \A e \in InMemory : e.seq <= r.snap => e \in M \cup (I \cup T)
  BY DEF ReaderIsRight, ViewOf, Older
<1>5. \A e \in I \cup T : e.seq <= r.snap
  BY DEF ReaderIsRight, Older
<1>6. M \in SUBSET Entry /\ I \cup T \in SUBSET Entry /\ I \in SUBSET Entry /\ T \in SUBSET Entry
  <2>1. M \in Pieces
    BY DEF ReaderIsRight, Pieces
  <2>2. M \in SUBSET Entry
    BY <2>1 DEF Sound
  <2> QED
    BY <2>2, <1>1, <1>3, <1>5
<1>7. Precedes(I \cup T, M) /\ Precedes(T, I)
  BY DEF ReaderIsRight, Older, Precedes
<1>8. Got(r) = IF N(M) # << >> THEN N(M) ELSE IF N(I) # << >> THEN N(I) ELSE N(T)
  <2>1. N({}) = << >>
    BY NoneNewest DEF Hits
  <2> QED
    BY <2>1 DEF Got
<1>9. N(InMemory) = N(M \cup (I \cup T))
  <2>1. H(InMemory) = H(M \cup (I \cup T))
    BY <1>3, <1>4 DEF Hits
  <2> HIDE DEF M, I, T
  <2> QED
    BY <2>1, NewestHits
<1>10. \A e, f \in M \cup (I \cup T) : e.seq <= r.snap /\ f.seq <= r.snap /\ e.seq = f.seq => e = f
  BY <1>1, <1>3
<1> HIDE DEF M, I, T
<1>11. CASE H(M) # {}
  BY <1>11, <1>2, <1>6, <1>7, <1>8, <1>9, <1>10, NewestUpper, SomeNewest
<1>12. CASE H(M) = {}
  <2>1. N(M) = << >>
    BY <1>12, NoneNewest
  <2>2. N(M \cup (I \cup T)) = N(I \cup T)
    <3>1. H(M \cup (I \cup T)) = H(I \cup T)
      BY <1>12 DEF Hits
    <3> QED
      BY <3>1, NewestHits
  <2>3. CASE H(I) # {}
    <3>1. \A e, f \in I \cup T : e.seq <= r.snap /\ f.seq <= r.snap /\ e.seq = f.seq => e = f
      BY <1>10
    <3>2. /\ I \in SUBSET Entry /\ T \in SUBSET Entry /\ r.snap \in Nat
          /\ Precedes(T, I) /\ Hits(I, r.key, r.snap) # {}
      BY <2>3, <1>2, <1>6, <1>7
    <3>3. N(I \cup T) = N(I)
      BY ONLY <3>1, <3>2, NewestUpper
    <3>4. N(I) # << >>
      BY <2>3, SomeNewest
    <3> QED
      BY <3>3, <3>4, <2>1, <2>2, <1>8, <1>9
  <2>4. CASE H(I) = {}
    <3>1. N(I) = << >>
      BY <2>4, NoneNewest
    <3>2. N(I \cup T) = N(T)
      <4>1. H(I \cup T) = H(T)
        BY <2>4 DEF Hits
      <4> QED
        BY <4>1, NewestHits
    <3> QED
      BY <3>1, <3>2, <2>1, <2>2, <1>8, <1>9
  <2> QED
    BY <2>3, <2>4
<1> QED
  BY <1>11, <1>12

-----------------------------------------------------------------------------
(***************************************************************************)
(* The queue                                                               *)
(***************************************************************************)

\* When the front of the queue returns, the rest still waits.
LEMMA ReturnKeepsQueue ==
    ASSUME QueueInv, up = "running", up' = up, NEW n \in 1 .. Len(writers), NEW ok,
           Return(SubSeq(writers, 1, n), ok), asleep' \subseteq Woken(SubSeq(writers, 1, n))
    PROVE  QueueInv'
<1> DEFINE ws == SubSeq(writers, 1, n)
<1>1. writers \in Seq(Writer) /\ Len(writers) \in Nat /\ n \in Nat
  BY DEF QueueInv
<1>2. Len(ws) = n /\ ws \in Seq(Writer) /\ \A i \in 1 .. n : ws[i] = writers[i]
  BY <1>1
<1>3. ToSet(ws) = {writers[i] : i \in 1 .. n}
  <2>1. DOMAIN ws = 1 .. n
    BY <1>1, <1>2
  <2> QED
    BY <2>1, <1>2 DEF ToSet
<1>4. writers' = SubSeq(writers, n + 1, Len(writers)) /\ lead' = Idle
  BY <1>2 DEF Return
<1>5. /\ Len(writers') \in Nat /\ writers' \in Seq(Writer)
      /\ \A i \in DOMAIN writers' : /\ n + i \in DOMAIN writers /\ n + i \notin 1 .. n
                                    /\ writers'[i] = writers[n + i]
  BY <1>1, <1>4
<1>6. \A w \in Writer : status'[w] = IF w \notin ToSet(ws) THEN status[w]
                                     ELSE IF ~ok THEN "failed"
                                     ELSE IF w \in Flusher THEN "flushing" ELSE "ok"
  BY DEF Return
<1>7. status' \in [Writer -> Statuses]
  <2>1. status \in [Writer -> Statuses]
    BY DEF QueueInv
  <2> QED
    BY <2>1 DEF Return, Statuses
<1> HIDE DEF ws
<1>8. \A i \in DOMAIN writers' : writers'[i] \notin ToSet(ws) /\ writers'[i] \in Writer
  <2> TAKE i \in DOMAIN writers'
  <2>1. n + i \in DOMAIN writers /\ n + i \notin 1 .. n /\ writers'[i] = writers[n + i]
    BY <1>5
  <2>2. \A j \in 1 .. n : j \in DOMAIN writers
    BY <1>1
  <2>3. \A j \in 1 .. n : writers[j] # writers[n + i]
    BY <2>1, <2>2 DEF QueueInv, IsInjective
  <2> QED
    BY <2>1, <2>3, <1>3, <1>1
<1>9. \A i \in DOMAIN writers' : status'[writers'[i]] = "waiting"
  <2> TAKE i \in DOMAIN writers'
  <2>1. status'[writers'[i]] = status[writers'[i]]
    BY <1>6, <1>8
  <2> QED
    BY <2>1, <1>5 DEF QueueInv
<1>10. IsInjective(writers')
  <2> SUFFICES ASSUME NEW i \in DOMAIN writers', NEW j \in DOMAIN writers',
                      writers'[i] = writers'[j]
               PROVE  i = j
    BY DEF IsInjective
  <2>1. n + i = n + j
    BY <1>5 DEF QueueInv, IsInjective
  <2>2. i \in Nat /\ j \in Nat
    BY <1>5
  <2> QED
    BY <2>1, <2>2, <1>1
<1>11. asleep' \subseteq {w \in Writer : status'[w] \in {"waiting", "flushing"}}
  <2>1. ASSUME NEW w \in asleep' PROVE w \in asleep /\ w \notin ToSet(ws)
    BY DEF Woken, ws
  <2> QED
    BY <2>1, <1>6 DEF QueueInv
<1>12. GroupIsFront'
  BY <1>4 DEF GroupIsFront, Working, Idle
<1> QED
  BY <1>4, <1>5, <1>7, <1>9, <1>10, <1>11, <1>12 DEF QueueInv, Idle, Places

\* The one at the front of the queue is a group.
LEMMA FirstIsFront ==
    ASSUME QueueInv, lead.at # "idle"
    PROVE  /\ 1 \in 1 .. Len(writers) /\ <<writers[1]>> = SubSeq(writers, 1, 1)
           /\ writers[1] \in Writer
<1>1. writers \in Seq(Writer) /\ writers # << >>
  BY DEF QueueInv
<1>2. Len(writers) \in Nat /\ Len(writers) >= 1
  BY <1>1
<1> QED
  BY <1>1, <1>2

\* Every step keeps the queue in order.
LEMMA QueueStep ==
    ASSUME QueueInv, Next, scope \in Scopes
    PROVE  QueueInv'
<1>0. /\ writers \in Seq(Writer) /\ Len(writers) \in Nat
      /\ status \in [Writer -> Statuses]
      /\ asleep \subseteq {w \in Writer : status[w] \in {"waiting", "flushing"}}
  BY DEF QueueInv
<1>1. ASSUME NEW w \in scope.writers, Enqueue(w) PROVE QueueInv'
  <2>0. w \in Writer
    BY ScopesAssumption
  <2>1. /\ writers' = Append(writers, w) /\ status' = [status EXCEPT ![w] = "waiting"]
        /\ status[w] = "new" /\ lead' = lead /\ up' = up /\ up = "running"
        /\ asleep' \subseteq asleep \cup {w}
    BY <1>1 DEF Enqueue, lifeVars
  <2>2. /\ Len(writers') = Len(writers) + 1 /\ writers' \in Seq(Writer)
        /\ DOMAIN writers' = 1 .. Len(writers) + 1 /\ writers'[Len(writers) + 1] = w
        /\ \A i \in 1 .. Len(writers) : writers'[i] = writers[i]
    BY <1>0, <2>0, <2>1
  <2>3. \A i \in 1 .. Len(writers) : writers[i] # w
    BY <1>0, <2>1 DEF QueueInv
  <2>4. \A i \in DOMAIN writers' : i \in 1 .. Len(writers) \/ i = Len(writers) + 1
    BY <2>2, <1>0
  <2>5. IsInjective(writers')
    <3> SUFFICES ASSUME NEW i \in DOMAIN writers', NEW j \in DOMAIN writers',
                        writers'[i] = writers'[j]
                 PROVE  i = j
      BY DEF IsInjective
    <3>1. \A k, l \in 1 .. Len(writers) : writers[k] = writers[l] => k = l
      BY <1>0 DEF QueueInv, IsInjective
    <3> QED
      BY <3>1, <2>2, <2>3, <2>4
  <2>6. status' \in [Writer -> Statuses] /\ status'[w] = "waiting"
        /\ \A v \in Writer : v # w => status'[v] = status[v]
    BY <2>0, <2>1, <1>0 DEF Statuses
  <2>7. \A i \in DOMAIN writers' : status'[writers'[i]] = "waiting"
    <3> TAKE i \in DOMAIN writers'
    <3>1. CASE i = Len(writers) + 1
      BY <3>1, <2>2, <2>6
    <3>2. CASE i \in 1 .. Len(writers)
      <4>1. writers[i] \in Writer /\ status[writers[i]] = "waiting"
        BY <3>2, <1>0 DEF QueueInv
      <4> QED
        BY <4>1, <3>2, <2>2, <2>3, <2>6
    <3> QED
      BY <3>1, <3>2, <2>4
  <2>8. asleep' \subseteq {v \in Writer : status'[v] \in {"waiting", "flushing"}}
    BY <1>0, <2>0, <2>1, <2>6
  <2>9. GroupIsFront'
    <3> SUFFICES ASSUME Working
                 PROVE  /\ Len(lead.group) \in 1 .. Len(writers')
                        /\ lead.group = SubSeq(writers', 1, Len(lead.group))
                        /\ writers'[1] \in Write
      BY <2>1 DEF GroupIsFront, Working
    <3>1. /\ Len(lead.group) \in 1 .. Len(writers)
          /\ lead.group = SubSeq(writers, 1, Len(lead.group)) /\ writers[1] \in Write
      BY DEF QueueInv, GroupIsFront
    <3> DEFINE n == Len(lead.group)
    <3>2. n \in 1 .. Len(writers) /\ n \in 1 .. Len(writers') /\ 1 \in 1 .. Len(writers)
      BY <3>1, <1>0, <2>2
    <3> HIDE DEF n
    <3>3. SubSeq(writers', 1, n) = SubSeq(writers, 1, n)
      <4>1. \A i \in 1 .. n : writers'[i] = writers[i]
        BY <3>2, <2>2, <1>0
      <4>2. SubSeq(writers', 1, n) = [i \in 1 .. n |-> writers'[i]]
        BY <3>2, <2>2
      <4>3. SubSeq(writers, 1, n) = [i \in 1 .. n |-> writers[i]]
        BY <3>2, <1>0
      <4> QED
        BY <4>1, <4>2, <4>3
    <3> QED
      BY <3>1, <3>2, <3>3, <2>2 DEF n
  <2>10. writers' # << >>
    BY <2>2, <1>0
  <2> QED
    BY <2>1, <2>2, <2>5, <2>6, <2>7, <2>8, <2>9, <2>10 DEF QueueInv
<1>2. CASE Lead
  BY <1>2 DEF Lead, QueueInv, GroupIsFront, Working, Places, Idle, lifeVars
<1>3. CASE RoomError \/ SwitchFails
  BY <1>3, FirstIsFront, ReturnKeepsQueue DEF RoomError, SwitchFails, MakingRoom, lifeVars
<1>4. CASE Delay \/ SwitchMemTable
  <2>1. lead' = [at |-> "room", delay |-> lead'.delay, force |-> lead'.force,
                 group |-> lead.group]
    BY <1>4 DEF Delay, SwitchMemTable, MakingRoom, QueueInv
  <2>2. UNCHANGED <<writers, status, asleep, up>> /\ up = "running" /\ lead.at = "room"
    BY <1>4 DEF Delay, SwitchMemTable, MakingRoom, lifeVars
  <2> QED
    BY <2>1, <2>2 DEF QueueInv, GroupIsFront, Working, Places
<1>5. CASE WaitForBackground
  <2>1. asleep' = asleep \cup {writers[1]} /\ UNCHANGED <<writers, status, lead, up>>
        /\ lead.at = "room"
    BY <1>5 DEF WaitForBackground, MakingRoom, lifeVars
  <2>2. writers[1] \in Writer /\ status[writers[1]] = "waiting"
    BY <2>1, FirstIsFront, <1>0 DEF QueueInv
  <2> QED
    BY <2>1, <2>2 DEF QueueInv, GroupIsFront, Working
<1>6. CASE BuildGroup
  <2>1. CASE writers[1] \in Flusher
    BY <1>6, <2>1, FirstIsFront, ReturnKeepsQueue DEF BuildGroup, MakingRoom, lifeVars
  <2>2. CASE writers[1] \notin Flusher
    <3>1. PICK ws \in BuildBatchGroup : lead' = [lead EXCEPT !.at = "append", !.group = ws]
      BY <1>6, <2>2 DEF BuildGroup
    <3>2. PICK n \in 1 .. Len(writers) : ws = SubSeq(writers, 1, n)
      BY DEF BuildBatchGroup
    <3>3. UNCHANGED <<writers, status, asleep, up>> /\ up = "running" /\ lead.at = "room"
      BY <1>6, <2>2 DEF BuildGroup, MakingRoom, lifeVars
    <3>4. Len(ws) = n
      BY <3>2, <1>0
    <3>5. writers[1] \in Write
      BY <2>2, <3>3, FirstIsFront DEF Write
    <3>6. lead' = [at |-> "append", delay |-> lead.delay, force |-> lead.force, group |-> ws]
      BY <3>1 DEF QueueInv
    <3>7. GroupIsFront'
      BY <3>2, <3>3, <3>4, <3>5, <3>6 DEF GroupIsFront
    <3> QED
      BY <3>3, <3>6, <3>7 DEF QueueInv, Places
  <2> QED
    BY <2>1, <2>2
<1>7. CASE AddRecord \/ AddRecordFails \/ Sync \/ SyncFails \/ InsertInto
  <2>1. /\ UNCHANGED <<writers, status, asleep, up>> /\ up = "running" /\ Working /\ lead.at # "idle"
        /\ lead' = [at |-> lead'.at, delay |-> lead.delay, force |-> lead.force,
                    group |-> lead.group]
        /\ lead'.at \in {"sync", "insert", "failed", "inserted", "syncFailed"}
    BY <1>7 DEF AddRecord, AddRecordFails, Sync, SyncFails, InsertInto, QueueInv, Working,
                Places, lifeVars
  <2>2. GroupIsFront'
    BY <2>1 DEF QueueInv, GroupIsFront
  <2>3. lead'.at \in Places
    BY <2>1 DEF Places
  <2> QED
    BY <2>1, <2>2, <2>3 DEF QueueInv
<1>8. CASE Finish
  <2>1. /\ Len(lead.group) \in 1 .. Len(writers)
        /\ lead.group = SubSeq(writers, 1, Len(lead.group))
    BY <1>8 DEF Finish, QueueInv, GroupIsFront, Working, Places
  <2>2. /\ Return(lead.group, lead.at = "inserted") /\ up = "running" /\ up' = up
        /\ asleep' \subseteq Woken(lead.group)
    BY <1>8 DEF Finish, lifeVars
  <2> QED
    BY <2>1, <2>2, ReturnKeepsQueue
<1>9. ASSUME NEW w \in Flusher, CompactMemTableWaits(w) PROVE QueueInv'
  <2>0. w \in Writer
    BY DEF Flusher
  <2>1. /\ UNCHANGED <<writers, lead, up>> /\ status[w] = "flushing" /\ w \notin asleep
        /\ \/ status' = status /\ asleep' = asleep \cup {w}
           \/ asleep' = asleep /\ status' = [status EXCEPT ![w] = "ok"]
           \/ asleep' = asleep /\ status' = [status EXCEPT ![w] = "failed"]
    BY <1>9 DEF CompactMemTableWaits, lifeVars
  <2>2. GroupIsFront'
    BY <2>1 DEF QueueInv, GroupIsFront, Working
  <2>3. status' \in [Writer -> Statuses]
    BY <2>0, <2>1, <1>0 DEF Statuses
  <2>4. \A i \in DOMAIN writers : writers[i] \in Writer /\ status[writers[i]] = "waiting"
    BY <1>0 DEF QueueInv
  <2>5. \A i \in DOMAIN writers : status'[writers[i]] = "waiting"
    BY <2>0, <2>1, <2>4, <1>0
  <2>6. asleep' \subseteq {v \in Writer : status'[v] \in {"waiting", "flushing"}}
    BY <2>0, <2>1, <1>0
  <2> QED
    BY <2>1, <2>2, <2>3, <2>5, <2>6 DEF QueueInv
<1>10. CASE BackgroundStep
  <2>1. UNCHANGED <<writers, status, lead, up>> /\ asleep' \subseteq asleep
    BY <1>10 DEF BackgroundStep, BackgroundCall, MergeFlushes, BuildTable, FlushFails,
        WriteManifest, ManifestFails, CommitFlush, Merge, MergeFails, queueVars, lifeVars
  <2> QED
    BY <2>1 DEF QueueInv, GroupIsFront, Working
<1>11. CASE OpenStep
  <2>1. UNCHANGED queueVars /\ up \in {"exited", "rebooted"} /\ up' \in {"running", up}
    BY <1>11 DEF OpenStep, Recover, OpenLog, OpenSaves, OpenReturns
  <2> QED
    BY <2>1 DEF QueueInv, GroupIsFront, Working, queueVars
<1>12. CASE Get \/ \E k \in scope.reads : GetBegin(k)
  <2>1. UNCHANGED queueVars /\ up' = up
    BY <1>12 DEF Get, GetBegin, lifeVars
  <2> QED
    BY <2>1 DEF QueueInv, GroupIsFront, Working, queueVars
<1>13. CASE Close
  <2>1. UNCHANGED queueVars /\ up' = "closing" /\ writers = << >>
    BY <1>13 DEF Close
  <2> QED
    BY <2>1 DEF QueueInv, GroupIsFront, Working, queueVars
<1>14. ASSUME NEW kind \in {"exited", "rebooted"}, Down(kind) PROVE QueueInv'
  <2>1. /\ up' = kind /\ writers' = << >> /\ asleep' = {} /\ lead' = Idle
        /\ status' = [w \in Writer |-> IF status[w] \in {"waiting", "flushing"}
                                   THEN "lost" ELSE status[w]]
    BY <1>14 DEF Down
  <2>2. status' \in [Writer -> Statuses]
    BY <2>1, <1>0 DEF Statuses
  <2>3. lead'.at = "idle" /\ GroupIsFront'
    BY <2>1 DEF GroupIsFront, Working, Idle
  <2>4. IsInjective(<< >>) /\ << >> \in Seq(Writer) /\ DOMAIN << >> = {}
    BY DEF IsInjective
  <2> QED
    BY <2>1, <2>2, <2>3, <2>4 DEF QueueInv, Idle, Places
<1>15. CASE CloseEnds \/ \E kind \in {"exited", "rebooted"} : Crash(kind)
  BY <1>14, <1>15 DEF CloseEnds, Crash
<1> QED
  BY <1>1, <1>2, <1>3, <1>4, <1>5, <1>6, <1>7, <1>8, <1>9, <1>10, <1>11, <1>12, <1>13, <1>15
  DEF Next, WriterStep

-----------------------------------------------------------------------------
(***************************************************************************)
(* Steps                                                                   *)
(***************************************************************************)
Final == {"ok", "failed", "lost"}

\* A step of the queue or of the background thread that moves no entry.
QuietStep ==
    /\ Alive
    /\ UNCHANGED <<mems, logNumber, imm, lastSequence, version, logs, manifest, up, rec, reader>>
    /\ nextFile' \in {nextFile, nextFile + 1}
    /\ bg'.edit \in {bg.edit, << >>}
    /\ InFlight' <=> InFlight
    /\ InFlight => lead'.group = lead.group
    /\ lead'.at = "inserted" <=> lead.at = "inserted"
    /\ \A w \in Writer : status[w] \in Final => status'[w] \in Final

\* A step that moves entries, writes a log or makes a reader go on.
MovingStep ==
    \/ SwitchMemTable \/ AddRecord \/ AddRecordFails \/ Sync \/ InsertInto \/ Finish
    \/ BuildTable \/ WriteManifest \/ ManifestFails \/ CommitFlush \/ Merge
    \/ Recover \/ OpenLog \/ OpenSaves \/ OpenReturns
    \/ Get \/ Close
    \/ \E k \in scope.reads : GetBegin(k)
    \/ \E kind \in {"exited", "rebooted"} : Down(kind) /\ logs' \in LogsLeft(kind)

\* Every step moves nothing or is one of those that move entries.
LEMMA StepKinds ==
    ASSUME QueueInv, BgInv, Next, scope \in Scopes
    PROVE  QuietStep \/ MovingStep
<1>0. /\ status \in [Writer -> Statuses] /\ writers \in Seq(Writer)
      /\ \A i \in DOMAIN writers : status[writers[i]] = "waiting"
  BY DEF QueueInv
<1>1. ASSUME NEW w \in scope.writers, Enqueue(w) PROVE QuietStep
  <2>1. w \in Writer
    BY ScopesAssumption
  <2>2. \A v \in Writer : status[v] \in Final => status'[v] \in Final
    BY <1>0, <1>1, <2>1 DEF Enqueue, Final
  <2>3. /\ Alive
        /\ UNCHANGED <<lead, mems, logNumber, imm, lastSequence, nextFile, version, bg, logs,
                       manifest, up, rec, reader>>
    BY <1>1 DEF Enqueue, Alive, memVars, bgVars, diskVars, lifeVars
  <2> QED
    BY <2>2, <2>3 DEF QuietStep, InFlight
<1>2. CASE Lead \/ Delay \/ WaitForBackground
  <2>1. /\ Alive
        /\ UNCHANGED <<status, mems, logNumber, imm, lastSequence, nextFile, version, bg, logs,
                       manifest, up, rec, reader>>
    BY <1>2 DEF Lead, Delay, WaitForBackground, MakingRoom, Alive, memVars, bgVars, diskVars,
                lifeVars
  <2>2. lead.at \in {"idle", "room"} /\ lead'.at \in {"idle", "room"}
    <3>1. CASE Lead
      BY <3>1 DEF Lead, Idle
    <3>2. CASE Delay
      <4>1. lead' = [at |-> "room", delay |-> FALSE, force |-> lead.force, group |-> lead.group]
        BY <3>2 DEF Delay, MakingRoom, QueueInv
      <4> QED
        BY <3>2, <4>1 DEF Delay, MakingRoom
    <3>3. CASE WaitForBackground
      BY <3>3 DEF WaitForBackground, MakingRoom
    <3> QED
      BY <1>2, <3>1, <3>2, <3>3
  <2>3. ~InFlight /\ ~InFlight' /\ lead.at # "inserted" /\ lead'.at # "inserted"
    BY <2>2 DEF InFlight
  <2> QED
    BY <2>1, <2>3 DEF QuietStep
<1>3. ASSUME NEW ok, Return(<<writers[1]>>, ok), lead.at = "room",
             UNCHANGED <<memVars, bgVars, diskVars, lifeVars, reader>>, up = "running"
      PROVE  QuietStep
  <2>1. \A v \in Writer : status[v] \in Final => status'[v] \in Final
    <3>1. ToSet(<<writers[1]>>) = {writers[1]}
      BY DEF ToSet
    <3>2. status[writers[1]] = "waiting"
      BY <1>3, FirstIsFront DEF QueueInv
    <3> QED
      BY <1>3, <3>1, <3>2 DEF Return, Final
  <2>2. lead' = Idle
    BY <1>3 DEF Return
  <2>3. /\ Alive
        /\ UNCHANGED <<mems, logNumber, imm, lastSequence, nextFile, version, bg, logs, manifest,
                       up, rec, reader>>
    BY <1>3 DEF Alive, memVars, bgVars, diskVars, lifeVars
  <2>4. lead'.at = "idle" /\ lead.at = "room"
    BY <1>3, <2>2 DEF Idle
  <2> QED
    BY <2>1, <2>3, <2>4 DEF QuietStep, InFlight
<1>4. CASE RoomError \/ SwitchFails
  BY <1>3, <1>4 DEF RoomError, SwitchFails, MakingRoom
<1>5. CASE BuildGroup
  <2>1. CASE writers[1] \in Flusher
    BY <1>3, <1>5, <2>1 DEF BuildGroup, MakingRoom
  <2>2. CASE writers[1] \notin Flusher
    <3>1. PICK ws \in BuildBatchGroup : lead' = [lead EXCEPT !.at = "append", !.group = ws]
      BY <1>5, <2>2 DEF BuildGroup
    <3>2. lead'.at = "append" /\ lead.at = "room" /\ UNCHANGED status
      BY <1>5, <2>2, <3>1 DEF BuildGroup, MakingRoom, QueueInv
    <3>3. /\ Alive
          /\ UNCHANGED <<mems, logNumber, imm, lastSequence, nextFile, version, bg, logs, manifest,
                         up, rec, reader>>
      BY <1>5 DEF BuildGroup, MakingRoom, Alive, memVars, bgVars, diskVars, lifeVars
    <3> QED
      BY <3>2, <3>3 DEF QuietStep, InFlight
  <2> QED
    BY <2>1, <2>2
<1>6. CASE SyncFails
  BY <1>6 DEF SyncFails, QuietStep, Alive, memVars, bgVars, diskVars, lifeVars, InFlight, QueueInv
<1>7. ASSUME NEW w \in Flusher, CompactMemTableWaits(w) PROVE QuietStep
  <2>1. \A v \in Writer : status[v] \in Final => status'[v] \in Final
    BY <1>0, <1>7 DEF CompactMemTableWaits, Final, Flusher
  <2> QED
    BY <1>7, <2>1 DEF CompactMemTableWaits, QuietStep, Alive, memVars, bgVars, diskVars, lifeVars,
                      InFlight
<1>8. CASE BackgroundCall \/ MergeFlushes \/ FlushFails \/ MergeFails
  <2>1. bg'.edit \in {bg.edit, << >>}
    <3>1. bg = [on |-> bg.on, at |-> bg.at, merging |-> bg.merging, edit |-> bg.edit]
      BY DEF BgInv
    <3> QED
      BY <1>8, <3>1 DEF BackgroundCall, MergeFlushes, FlushFails, MergeFails, EndCall,
                        FlushReturns, BgIdle
  <2>2. Alive
    BY <1>8 DEF BackgroundCall, MergeFlushes, FlushFails, MergeFails, Alive
  <2> QED
    BY <1>8, <2>1, <2>2 DEF BackgroundCall, MergeFlushes, FlushFails, MergeFails, QuietStep,
        queueVars, memVars, bgVars, diskVars, lifeVars, InFlight
<1>9. CASE CloseEnds \/ \E kind \in {"exited", "rebooted"} : Crash(kind)
  BY <1>9 DEF CloseEnds, Crash, MovingStep
<1> QED
  BY <1>1, <1>2, <1>4, <1>5, <1>6, <1>7, <1>8, <1>9
  DEF Next, WriterStep, BackgroundStep, OpenStep, MovingStep

\* What is appended to a log is one record more.
LEMMA AppendRecord ==
    ASSUME NEW S, NEW s \in Seq(S), NEW x \in S
    PROVE  Append(s, x) \in Seq(S) /\ ToSet(Append(s, x)) = ToSet(s) \cup {x}
<1>1. /\ Append(s, x) \in Seq(S) /\ Len(s) \in Nat /\ DOMAIN Append(s, x) = 1 .. Len(s) + 1
      /\ DOMAIN s = 1 .. Len(s) /\ Append(s, x)[Len(s) + 1] = x
      /\ \A i \in 1 .. Len(s) : Append(s, x)[i] = s[i]
  OBVIOUS
<1>2. \A i \in 1 .. Len(s) + 1 : i \in 1 .. Len(s) \/ i = Len(s) + 1
  BY <1>1
<1>3. ToSet(Append(s, x)) \subseteq ToSet(s) \cup {x}
  BY <1>1, <1>2 DEF ToSet
<1>4. x \in ToSet(Append(s, x)) /\ \A i \in 1 .. Len(s) : s[i] \in ToSet(Append(s, x))
  <2>1. Len(s) + 1 \in 1 .. Len(s) + 1 /\ \A i \in 1 .. Len(s) : i \in 1 .. Len(s) + 1
    BY <1>1
  <2>2. \A i \in 1 .. Len(s) + 1 : Append(s, x)[i] \in ToSet(Append(s, x))
    BY <1>1 DEF ToSet
  <2> QED
    BY <1>1, <2>1, <2>2
<1>5. ToSet(s) \subseteq ToSet(Append(s, x))
  BY <1>1, <1>4 DEF ToSet
<1> QED
  BY <1>1, <1>3, <1>4, <1>5

\* What is left of the logs is records that were there, none of them empty.
LEMMA LogsLeftAre ==
    ASSUME FilesInv, NEW kind, NEW g \in LogsLeft(kind)
    PROVE  /\ DOMAIN g = DOMAIN logs
           /\ \A n \in DOMAIN logs : /\ g[n] \in [recs : Seq(SUBSET Entry), synced : Nat]
                                     /\ ToSet(g[n].recs) \subseteq Records(n) \ {{}}
<1>1. DOMAIN g = DOMAIN logs /\ \A n \in DOMAIN logs : g[n] \in Left(logs[n], kind)
  BY DEF LogsLeft
<1>2. ASSUME NEW n \in DOMAIN logs
      PROVE  /\ g[n] \in [recs : Seq(SUBSET Entry), synced : Nat]
             /\ ToSet(g[n].recs) \subseteq Records(n) \ {{}}
  <2> DEFINE f == logs[n]
  <2>1. f \in [recs : Seq(SUBSET Entry), synced : Nat]
    BY DEF FilesInv, LogsInv
  <2>2. f.recs \in Seq(SUBSET Entry) /\ f.synced \in Nat /\ Len(f.recs) \in Nat
    BY <2>1
  <2>3. f \in [recs : Seq(SUBSET Entry), synced : Nat] /\ g[n] \in Left(f, kind)
    BY <1>1, <2>1
  <2> DEFINE Some == {i \in DOMAIN f.recs : f.recs[i] # {}}
             Of(p) == [recs |-> [j \in DOMAIN p |-> f.recs[p[j]]], synced |-> Len(p)]
  <2>4. \E K \in SUBSET Some : \E p \in Ascending(K) : g[n] = Of(p)
    BY <2>3 DEF Left
  <2>5. PICK K \in SUBSET Some : \E p \in Ascending(K) : g[n] = Of(p)
    BY <2>4
  <2>6. PICK p \in Ascending(K) : g[n] = Of(p)
    BY <2>5
  <2>8. K \in SUBSET (1 .. Len(f.recs)) /\ \A i \in K : f.recs[i] # {}
    BY <2>2, <2>5
  <2> HIDE DEF f
  <2>9. Cardinality(K) \in Nat
    <3>1. IsFiniteSet(1 .. Len(f.recs))
      BY <2>2, FS_Interval
    <3> QED
      BY <3>1, <2>8, FS_Subset, FS_CardinalityType
  <2>10. p \in [1 .. Cardinality(K) -> K]
    BY <2>6 DEF Ascending
  <2>11. Len(p) = Cardinality(K) /\ DOMAIN p = 1 .. Cardinality(K)
    BY <2>9, <2>10
  <2>12. \A j \in 1 .. Cardinality(K) : /\ p[j] \in 1 .. Len(f.recs) /\ f.recs[p[j]] # {}
                                        /\ f.recs[p[j]] \in ToSet(f.recs)
                                        /\ f.recs[p[j]] \in SUBSET Entry
    <3> TAKE j \in 1 .. Cardinality(K)
    <3>1. p[j] \in 1 .. Len(f.recs) /\ f.recs[p[j]] # {}
      BY <2>8, <2>10
    <3> QED
      BY <3>1, <2>2 DEF ToSet
  <2>13. g[n].recs = [j \in 1 .. Cardinality(K) |-> f.recs[p[j]]]
         /\ g[n] = [recs |-> g[n].recs, synced |-> Cardinality(K)]
    BY <2>6, <2>11
  <2>14. g[n].recs \in Seq(SUBSET Entry) /\ DOMAIN g[n].recs = 1 .. Cardinality(K)
    BY <2>9, <2>12, <2>13
  <2>15. ToSet(g[n].recs) \subseteq ToSet(f.recs) \ {{}}
    BY <2>12, <2>13, <2>14 DEF ToSet
  <2> QED
    BY <2>9, <2>13, <2>14, <2>15 DEF f, Records
<1> QED
  BY <1>1, <1>2

\* The entries of the group at work are new.
LEMMA GroupIs ==
    ASSUME QueueInv, lastSequence \in Nat, Working
    PROVE  /\ up = "running" /\ Group \subseteq Entry /\ Group # {} /\ Cardinality(Group) \in Nat
           /\ \A e \in Group : /\ e.by \in ToSet(lead.group) /\ status[e.by] = "waiting"
                               /\ lastSequence < e.seq
                               /\ e.seq <= lastSequence + Cardinality(Group)
           /\ \A e, f \in Group : e.seq = f.seq => e = f
           /\ Whole(Group) /\ LastIsMax(Group)
<1> DEFINE ws == lead.group
           n == Len(ws)
           first == lastSequence + 1
<1>1. /\ writers \in Seq(Writer) /\ n \in 1 .. Len(writers) /\ ws = SubSeq(writers, 1, n)
      /\ writers[1] \in Write /\ IsInjective(writers) /\ up = "running"
      /\ \A i \in DOMAIN writers : status[writers[i]] = "waiting"
  BY DEF QueueInv, GroupIsFront, Working
<1> HIDE DEF n
<1>2. /\ Len(writers) \in Nat /\ n \in Nat /\ n >= 1 /\ n <= Len(writers) /\ DOMAIN ws = 1 .. n
      /\ ws \in Seq(Writer) /\ \A i \in 1 .. n : ws[i] = writers[i] /\ i \in DOMAIN writers
  BY <1>1
<1> HIDE DEF ws
<1>3. IsInjective(ws) /\ ws # << >> /\ ws[1] \in Write
  BY <1>1, <1>2 DEF IsInjective
<1>4. first \in Nat \ {0}
  OBVIOUS
<1>5. Group = Entries(ws, first)
  BY DEF Group, ws
<1> HIDE DEF first
<1>6. /\ Group \subseteq Entry /\ Group # {} /\ Cardinality(Group) \in Nat
      /\ \A e \in Group : e.by \in ToSet(ws) /\ first <= e.seq
      /\ \A e \in Group : e.seq <= first + Cardinality(Group) - 1
      /\ \A e, f \in Group : e.seq = f.seq => e = f
      /\ Whole(Group) /\ LastIsMax(Group)
  BY <1>2, <1>3, <1>4, <1>5, GroupEntries
<1>7. ASSUME NEW e \in Group
      PROVE  /\ e.by \in ToSet(ws) /\ status[e.by] = "waiting"
             /\ lastSequence < e.seq /\ e.seq <= lastSequence + Cardinality(Group)
  <2>1. e.seq \in Nat /\ first <= e.seq /\ e.seq <= first + Cardinality(Group) - 1
    BY <1>6 DEF Entry
  <2>2. PICK i \in 1 .. n : e.by = ws[i]
    BY <1>2, <1>6 DEF ToSet
  <2>3. status[e.by] = "waiting"
    BY <2>2, <1>1, <1>2
  <2> QED
    BY <2>1, <2>3, <1>6 DEF first
<1> QED
  BY <1>1, <1>6, <1>7 DEF ws

-----------------------------------------------------------------------------
(***************************************************************************)
(* The files                                                               *)
(***************************************************************************)

\* A step that moves no entry keeps the files and the memtables right.
LEMMA QuietFiles ==
    ASSUME FilesInv, QuietStep
    PROVE  FilesInv'
<1>0. nextFile \in Nat
  BY DEF FilesInv, MemsInv
<1>1. Alive' /\ Alive /\ \A n : Records(n)' = Records(n) /\ InLog(n)' = InLog(n)
  BY DEF QuietStep, Alive, Records, InLog
<1>2. nextFile' \in Nat /\ \A n \in Nat : n < nextFile => n < nextFile'
  BY <1>0 DEF QuietStep
<1>3. LogsInv'
  BY <1>1, <1>2 DEF FilesInv, LogsInv, RecInv, NoRec, QuietStep
<1>4. MemIsNewest'
  BY <1>1, <1>2 DEF FilesInv, MemsInv, MemIsNewest, QuietStep
<1>5. InFlight' => Group' \in Records(logNumber)'
  BY <1>1 DEF FilesInv, MemsInv, QuietStep, Group
<1>6. MemsInv'
  BY <1>1, <1>2, <1>4, <1>5 DEF FilesInv, MemsInv, QuietStep
<1>7. RecInv'
  BY <1>1 DEF FilesInv, RecInv, QuietStep
<1> QED
  BY <1>3, <1>6, <1>7 DEF FilesInv

\* A step of the leader, or the end of its work.
LEMMA LeaderFiles ==
    ASSUME QueueInv, BgInv, FilesInv,
           AddRecord \/ AddRecordFails \/ Sync \/ InsertInto \/ Finish
    PROVE  FilesInv'
<1>1. /\ up = "running" /\ Working /\ Alive /\ Alive'
      /\ UNCHANGED <<imm, logNumber, nextFile, version, manifest, rec, up>>
  BY DEF AddRecord, AddRecordFails, Sync, InsertInto, Finish, Working, Places, Alive, lifeVars,
         bgVars, memVars, diskVars
<1>2. lastSequence \in Nat /\ MemIsNewest /\ rec = NoRec
  BY <1>1 DEF FilesInv, MemsInv, RecInv
<1>3. Group \subseteq Entry /\ Cardinality(Group) \in Nat
  BY <1>1, <1>2, GroupIs
<1>4. RecInv'
  BY <1>1 DEF FilesInv, RecInv
<1>5. logs[logNumber] \in [recs : Seq(SUBSET Entry), synced : Nat] /\ logNumber \in DOMAIN logs
  BY <1>2 DEF FilesInv, LogsInv, MemIsNewest
<1>6. CASE AddRecord \/ AddRecordFails
  <2> DEFINE G == IF AddRecord THEN Group ELSE {}
  <2>1. logs' = [logs EXCEPT ![logNumber].recs = Append(@, G)] /\ UNCHANGED <<mems, lastSequence>>
    <3>1. CASE AddRecord
      BY <3>1 DEF AddRecord, memVars
    <3>2. CASE ~AddRecord
      BY <3>2, <1>6 DEF AddRecordFails, memVars
    <3> QED
      BY <3>1, <3>2
  <2>2. G \in SUBSET Entry
    BY <1>3
  <2>3. /\ Append(logs[logNumber].recs, G) \in Seq(SUBSET Entry)
        /\ ToSet(Append(logs[logNumber].recs, G)) = Records(logNumber) \cup {G}
    <3>1. logs[logNumber].recs \in Seq(SUBSET Entry)
      BY <1>5
    <3> HIDE DEF G
    <3> QED
      BY <3>1, <2>2, AppendRecord DEF Records
  <2>4. /\ DOMAIN logs' = DOMAIN logs
        /\ \A n \in DOMAIN logs : n # logNumber => logs'[n] = logs[n]
        /\ logs'[logNumber] = [recs |-> Append(logs[logNumber].recs, G),
                               synced |-> logs[logNumber].synced]
    BY <2>1, <1>5
  <2>5. /\ \A n \in DOMAIN logs : n # logNumber => Records(n)' = Records(n)
        /\ Records(logNumber)' = Records(logNumber) \cup {G}
    BY <1>1, <2>3, <2>4 DEF Records
  <2>6. ASSUME NEW n \in DOMAIN logs PROVE InLog(n) \subseteq InLog(n)'
    <3>1. Records(n) \subseteq Records(n)'
      BY <2>5, <1>1 DEF Records
    <3> QED
      BY <3>1 DEF InLog
  <2>7. LogsInv'
    <3>1. logs'[logNumber] \in [recs : Seq(SUBSET Entry), synced : Nat]
      BY <1>5, <2>3, <2>4
    <3>2. \A n \in DOMAIN logs' : logs'[n] \in [recs : Seq(SUBSET Entry), synced : Nat]
      BY <3>1, <2>4 DEF FilesInv, LogsInv
    <3> QED
      BY <1>1, <1>2, <2>4, <3>2 DEF FilesInv, LogsInv, NoRec
  <2>8. MemIsNewest'
    BY <1>1, <1>2, <2>1, <2>4, <2>6 DEF MemIsNewest
  <2>9. InFlight' => Group' \in Records(logNumber)'
    <3>1. CASE AddRecord
      <4>1. lead'.group = lead.group
        BY <3>1 DEF AddRecord, QueueInv
      <4>2. Group' = Group
        BY <2>1, <4>1 DEF Group
      <4> QED
        BY <3>1, <4>2, <2>5
    <3>2. CASE ~AddRecord
      <4>1. lead'.at = "failed"
        BY <3>2, <1>6 DEF AddRecordFails, QueueInv
      <4> QED
        BY <4>1 DEF InFlight
    <3> QED
      BY <3>1, <3>2
  <2>10. MemsInv'
    BY <1>1, <2>1, <2>4, <2>6, <2>8, <2>9 DEF FilesInv, MemsInv
  <2> QED
    BY <1>4, <2>7, <2>10 DEF FilesInv
<1>7. CASE Sync
  <2>1. /\ logs' = [logs EXCEPT ![logNumber].synced = Len(logs[logNumber].recs)]
        /\ UNCHANGED <<mems, lastSequence>> /\ lead.at = "sync" /\ lead'.group = lead.group
    BY <1>7 DEF Sync, SyncLog, memVars, QueueInv
  <2>2. Len(logs[logNumber].recs) \in Nat
    BY <1>5
  <2>3. /\ DOMAIN logs' = DOMAIN logs
        /\ \A n \in DOMAIN logs : /\ logs'[n] \in [recs : Seq(SUBSET Entry), synced : Nat]
                                  /\ logs'[n].recs = logs[n].recs
    BY <2>1, <2>2, <1>5 DEF FilesInv, LogsInv
  <2>4. \A n \in DOMAIN logs : Records(n)' = Records(n) /\ InLog(n)' = InLog(n)
    BY <2>3 DEF Records, InLog
  <2>5. LogsInv'
    BY <1>1, <1>2, <2>3 DEF FilesInv, LogsInv, NoRec
  <2>6. MemIsNewest'
    BY <1>1, <1>2, <2>1, <2>3, <2>4 DEF MemIsNewest
  <2>7. Group' \in Records(logNumber)'
    <3>1. Group \in Records(logNumber) /\ Group' = Group
      BY <2>1 DEF FilesInv, MemsInv, InFlight, Group
    <3> QED
      BY <3>1, <2>4, <1>1, <1>5
  <2>8. MemsInv'
    BY <1>1, <2>1, <2>3, <2>4, <2>6, <2>7 DEF FilesInv, MemsInv
  <2> QED
    BY <1>4, <2>5, <2>8 DEF FilesInv
<1>8. CASE InsertInto
  <2>1. /\ mems' = [mems EXCEPT ![logNumber] = @ \cup Group]
        /\ UNCHANGED <<logs, lastSequence>> /\ lead.at = "insert" /\ lead'.group = lead.group
    BY <1>8 DEF InsertInto, diskVars, QueueInv
  <2>2. \A n : Records(n)' = Records(n) /\ InLog(n)' = InLog(n)
    BY <2>1 DEF Records, InLog
  <2>3. Group \in Records(logNumber) /\ Group' = Group
    BY <2>1 DEF FilesInv, MemsInv, InFlight, Group
  <2>4. /\ DOMAIN mems' = DOMAIN mems
        /\ \A n \in DOMAIN mems : n # logNumber => mems'[n] = mems[n]
        /\ mems'[logNumber] = mems[logNumber] \cup Group
    BY <2>1, <1>2 DEF MemIsNewest
  <2>5. Group \subseteq InLog(logNumber)
    BY <2>3 DEF InLog
  <2>6. MemIsNewest'
    BY <1>1, <1>2, <2>1, <2>2, <2>4, <2>5 DEF MemIsNewest
  <2>7. LogsInv'
    BY <1>1, <1>2, <2>1, <2>2 DEF FilesInv, LogsInv, NoRec
  <2>8. MemsInv'
    BY <1>1, <2>1, <2>2, <2>3, <2>4, <2>6 DEF FilesInv, MemsInv
  <2> QED
    BY <1>4, <2>7, <2>8 DEF FilesInv
<1>9. CASE Finish
  <2>1. /\ UNCHANGED <<logs, mems>> /\ lead' = Idle /\ lastSequence' = lastSequence + Cardinality(Group)
    BY <1>9 DEF Finish, diskVars, Return, Count
  <2>2. \A n : Records(n)' = Records(n) /\ InLog(n)' = InLog(n)
    BY <2>1 DEF Records, InLog
  <2>3. lastSequence' \in Nat /\ ~InFlight'
    BY <2>1, <1>2, <1>3 DEF InFlight, Idle
  <2>4. MemIsNewest'
    BY <1>1, <1>2, <2>1, <2>2 DEF MemIsNewest
  <2>5. LogsInv'
    BY <1>1, <1>2, <2>1, <2>2 DEF FilesInv, LogsInv, NoRec
  <2>6. MemsInv'
    BY <1>1, <2>1, <2>2, <2>3, <2>4 DEF FilesInv, MemsInv
  <2> QED
    BY <1>4, <2>5, <2>6 DEF FilesInv
<1> QED
  BY <1>6, <1>7, <1>8, <1>9

\* A new log and a new memtable.
LEMMA SwitchFiles ==
    ASSUME QueueInv, FilesInv, SwitchMemTable
    PROVE  FilesInv'
<1>1. /\ Alive /\ Alive' /\ imm = 0 /\ imm' = logNumber /\ logNumber' = nextFile
      /\ nextFile' = nextFile + 1 /\ logs' = With(logs, nextFile, EmptyLog)
      /\ mems' = With(mems, nextFile, {}) /\ lead'.at = "room"
      /\ UNCHANGED <<lastSequence, version, manifest, rec, up>>
  BY DEF SwitchMemTable, MakingRoom, MustWait, Alive, lifeVars, QueueInv
<1>2. nextFile \in Nat /\ logNumber \in Nat /\ MemIsNewest /\ rec = NoRec
  BY <1>1 DEF FilesInv, MemsInv, RecInv
<1>3. /\ nextFile \notin DOMAIN logs /\ nextFile \notin DOMAIN mems
      /\ \A n \in DOMAIN logs : n \in Nat /\ n < nextFile
  <2>1. \A n \in DOMAIN logs : n \in Nat /\ n <= logNumber /\ logNumber < nextFile
    BY <1>2 DEF FilesInv, LogsInv, MemIsNewest
  <2>2. \A n \in DOMAIN mems : n \in Nat /\ n < nextFile
    BY DEF FilesInv, MemsInv
  <2> QED
    BY <2>1, <2>2, <1>2
<1>4. /\ DOMAIN logs' = DOMAIN logs \cup {nextFile} /\ logs'[nextFile] = EmptyLog
      /\ \A n \in DOMAIN logs : logs'[n] = logs[n]
      /\ DOMAIN mems' = DOMAIN mems \cup {nextFile} /\ mems'[nextFile] = {}
      /\ \A n \in DOMAIN mems : mems'[n] = mems[n]
  BY <1>1, <1>3 DEF With
<1>5. \A n \in DOMAIN logs : Records(n)' = Records(n) /\ InLog(n)' = InLog(n)
  BY <1>4 DEF Records, InLog
<1>6. EmptyLog \in [recs : Seq(SUBSET Entry), synced : Nat]
  BY DEF EmptyLog
<1>7. LogsInv'
  <2>1. \A n \in DOMAIN logs' : logs'[n] \in [recs : Seq(SUBSET Entry), synced : Nat]
    BY <1>4, <1>6 DEF FilesInv, LogsInv
  <2>2. DOMAIN logs' \subseteq Nat \ {0}
    <3>1. nextFile # 0
      BY <1>2, <1>3 DEF MemIsNewest
    <3> QED
      BY <3>1, <1>2, <1>4 DEF FilesInv, LogsInv
  <2> QED
    BY <2>1, <2>2, <1>1, <1>2, <1>4 DEF FilesInv, LogsInv, NoRec
<1>8. MemIsNewest'
  <2>1. \A n \in DOMAIN logs' : n <= nextFile
    BY <1>2, <1>3, <1>4
  <2> QED
    BY <2>1, <1>1, <1>2, <1>4 DEF MemIsNewest
<1>9. MemsInv'
  <2>1. imm' # 0 => /\ imm' \in DOMAIN mems' \cap DOMAIN logs' /\ version.log <= imm'
                    /\ imm' < logNumber' /\ mems'[imm'] \subseteq UNION ToSet(logs'[imm'].recs)
    <3>1. logNumber \in DOMAIN logs /\ logNumber \in DOMAIN mems /\ mems[logNumber] \subseteq InLog(logNumber)
          /\ version.log <= logNumber /\ logNumber < nextFile
      BY <1>1, <1>2 DEF MemIsNewest, FilesInv, LogsInv
    <3>2. UNION ToSet(logs'[imm'].recs) = InLog(logNumber)
      BY <3>1, <1>1, <1>4 DEF InLog, Records
    <3> QED
      BY <3>1, <3>2, <1>1, <1>4
  <2>2. \A n \in DOMAIN mems' : n \in Nat \ {0} /\ n < nextFile'
    <3>1. nextFile # 0
      BY <1>2, <1>3 DEF MemIsNewest
    <3>2. \A n \in Nat : n < nextFile => n < nextFile + 1
      BY <1>2
    <3> QED
      BY <3>1, <3>2, <1>1, <1>2, <1>4 DEF FilesInv, MemsInv
  <2>3. ~InFlight'
    BY <1>1 DEF InFlight
  <2> QED
    BY <2>1, <2>2, <2>3, <1>1, <1>2, <1>8 DEF FilesInv, MemsInv, InLog, Records
<1>10. RecInv'
  BY <1>1 DEF FilesInv, RecInv
<1> QED
  BY <1>7, <1>9, <1>10 DEF FilesInv

\* A step of a flush or the end of a merge.
LEMMA FlushFiles ==
    ASSUME QueueInv, BgInv, FilesInv,
           BuildTable \/ WriteManifest \/ ManifestFails \/ CommitFlush \/ Merge
    PROVE  FilesInv'
<1>1. /\ Alive /\ Alive' /\ UNCHANGED <<lead, mems, logNumber, nextFile, lastSequence, rec, up>>
  BY DEF BuildTable, WriteManifest, ManifestFails, CommitFlush, Merge, Alive, lifeVars, memVars,
         queueVars
<1>2. rec = NoRec /\ MemIsNewest /\ nextFile \in Nat /\ logNumber \in Nat /\ lastSequence \in Nat
      /\ version.log \in DOMAIN logs /\ version.log <= manifest.log /\ manifest.log \in DOMAIN logs
      /\ DOMAIN logs \subseteq Nat \ {0}
      /\ version \in Version /\ manifest \in Edit
  BY <1>1 DEF FilesInv, LogsInv, MemsInv, RecInv, BgInv
<1>3. version.log \in Nat /\ manifest.log \in Nat
  BY <1>2
<1>4. RecInv'
  BY <1>1 DEF FilesInv, RecInv
<1>5. Group' = Group /\ (InFlight' <=> InFlight)
  BY <1>1 DEF Group, InFlight
<1>6. CASE BuildTable \/ WriteManifest \/ ManifestFails \/ Merge
  <2>1. UNCHANGED <<logs, imm>>
    BY <1>6 DEF BuildTable, WriteManifest, ManifestFails, Merge, memVars, diskVars
  <2>2. \A n : Records(n)' = Records(n) /\ InLog(n)' = InLog(n)
    BY <2>1 DEF Records, InLog
  <2>3. version'.log = version.log
    <3>1. CASE Merge
      BY <3>1, <1>2 DEF Merge, Version
    <3> QED
      BY <3>1, <1>6 DEF BuildTable, WriteManifest, ManifestFails
  <2>4. manifest'.log \in DOMAIN logs /\ version.log <= manifest'.log
    <3>1. CASE WriteManifest \/ ManifestFails
      <4>1. manifest' \in {manifest, bg.edit[1]} /\ bg.at = "manifest"
        BY <3>1 DEF WriteManifest, ManifestFails
      <4>2. bg.edit[1].log = logNumber /\ imm # 0
        BY <4>1 DEF BgInv, EditIsRight
      <4>3. version.log <= logNumber /\ logNumber \in DOMAIN logs
        BY <1>2 DEF MemIsNewest
      <4> QED
        BY <4>1, <4>2, <4>3, <1>2
    <3>2. CASE Merge
      <4>1. manifest'.log = version.log
        BY <3>2, <1>2 DEF Merge, Edit
      <4> QED
        BY <4>1, <1>2, <1>3
    <3>3. CASE BuildTable
      BY <3>3, <1>2 DEF BuildTable, diskVars
    <3> QED
      BY <3>1, <3>2, <3>3, <1>6
  <2>5. LogsInv'
    BY <1>1, <1>2, <2>1, <2>3, <2>4 DEF FilesInv, LogsInv, NoRec
  <2>6. MemIsNewest'
    BY <1>1, <1>2, <2>1, <2>2 DEF MemIsNewest
  <2>7. MemsInv'
    BY <1>1, <1>5, <2>1, <2>2, <2>3, <2>6 DEF FilesInv, MemsInv
  <2> QED
    BY <1>4, <2>5, <2>7 DEF FilesInv
<1>7. CASE CommitFlush
  <2>1. bg.at = "written" /\ EditIsRight
    BY <1>7 DEF CommitFlush, BgInv
  <2>2. bg.edit[1] = manifest /\ manifest.log = logNumber
    BY <2>1 DEF EditIsRight
  <2>3. /\ imm' = 0 /\ UNCHANGED manifest /\ version'.log = logNumber
        /\ DOMAIN logs' \subseteq DOMAIN logs /\ \A n \in DOMAIN logs' : logs'[n] = logs[n]
        /\ \A n \in DOMAIN logs : n >= logNumber => n \in DOMAIN logs'
    <3> DEFINE e == bg.edit[1]
               v == [tables |-> e.tables, level0 |-> e.level0, log |-> e.log]
    <3>1. /\ imm' = 0 /\ UNCHANGED manifest /\ version' = v
          /\ logs' = Without(logs, Obsolete(v, bgError))
      BY <1>7 DEF CommitFlush
    <3>2. v.log = logNumber
      BY <2>2
    <3> HIDE DEF v
    <3> QED
      BY <3>1, <3>2, <1>2 DEF Without, Obsolete
  <2>4. logNumber \in DOMAIN logs'
    BY <2>3, <1>2 DEF MemIsNewest
  <2>5. \A n \in DOMAIN logs' : Records(n)' = Records(n) /\ InLog(n)' = InLog(n)
    BY <2>3 DEF Records, InLog
  <2>6. LogsInv'
    BY <1>1, <1>2, <2>2, <2>3, <2>4 DEF FilesInv, LogsInv, NoRec
  <2>7. Records(logNumber)' = Records(logNumber) /\ InLog(logNumber)' = InLog(logNumber)
    BY <1>1, <2>3, <2>4 DEF Records, InLog
  <2>8. MemIsNewest'
    BY <1>1, <1>2, <2>3, <2>4, <2>7 DEF MemIsNewest
  <2>9. MemsInv'
    BY <1>1, <1>5, <2>3, <2>7, <2>8 DEF FilesInv, MemsInv
  <2> QED
    BY <1>4, <2>6, <2>9 DEF FilesInv
<1> QED
  BY <1>6, <1>7

\* A process ends.
LEMMA DownFiles ==
    ASSUME FilesInv, NEW kind \in {"exited", "rebooted"}, Down(kind), logs' \in LogsLeft(kind)
    PROVE  FilesInv'
<1>1. /\ ~Alive' /\ rec' = NoRec /\ mems' = << >> /\ logNumber' = 0 /\ imm' = 0
      /\ lastSequence' = 0 /\ nextFile' = 0 /\ manifest' = manifest /\ lead' = Idle
      /\ version' = [tables |-> {}, level0 |-> 0, log |-> 0] /\ bg' = BgIdle /\ reader' = << >>
  BY DEF Down, Alive
<1>2. /\ DOMAIN logs' = DOMAIN logs
      /\ \A n \in DOMAIN logs : /\ logs'[n] \in [recs : Seq(SUBSET Entry), synced : Nat]
                                /\ {} \notin ToSet(logs'[n].recs)
  BY LogsLeftAre
<1>3. LogsInv'
  BY <1>1, <1>2 DEF FilesInv, LogsInv, Records, NoRec
<1>4. MemsInv'
  BY <1>1 DEF MemsInv, NoRec, Recovered, InFlight, Idle
<1>5. RecInv'
  BY <1>1 DEF RecInv, NoRec
<1> QED
  BY <1>3, <1>4, <1>5 DEF FilesInv

\* Reading, and closing the database.
LEMMA ReadingFiles ==
    ASSUME FilesInv, Get \/ Close \/ \E k \in scope.reads : GetBegin(k)
    PROVE  FilesInv'
<1>1. /\ Alive /\ Alive'
      /\ UNCHANGED <<lead, mems, logNumber, imm, lastSequence, nextFile, version, logs, manifest, rec>>
  BY DEF Get, GetBegin, Close, Alive, queueVars, memVars, bgVars, diskVars, lifeVars
<1>2. \A n : Records(n)' = Records(n) /\ InLog(n)' = InLog(n)
  BY <1>1 DEF Records, InLog
<1>3. rec = NoRec
  BY <1>1 DEF FilesInv, RecInv
<1>4. LogsInv'
  BY <1>1, <1>3 DEF FilesInv, LogsInv, NoRec
<1>5. MemIsNewest'
  BY <1>1, <1>2 DEF FilesInv, MemsInv, MemIsNewest
<1>6. MemsInv'
  BY <1>1, <1>2, <1>5 DEF FilesInv, MemsInv, Group, InFlight
<1>7. RecInv'
  BY <1>1 DEF FilesInv, RecInv
<1> QED
  BY <1>4, <1>6, <1>7 DEF FilesInv

\* The logs a recovery replays, the last of them, and the numbers it finds.
LEMMA ReplayedLogs ==
    ASSUME FilesInv, BgInv, Bounded, ~Alive
    PROVE  LET ns == {n \in DOMAIN logs : ToReplay(n)}
               next == MarkFileNumberUsed(manifest.next + 1, ns)
           IN  /\ ns = Relevant /\ MaxOr0(ns) \in ns
               /\ \A n \in DOMAIN logs : n <= MaxOr0(ns)
               /\ next \in Nat /\ \A n \in DOMAIN logs : n < next
<1> DEFINE ns == {n \in DOMAIN logs : ToReplay(n)}
           next == MarkFileNumberUsed(manifest.next + 1, ns)
<1>1. /\ DOMAIN logs \subseteq Nat \ {0} /\ manifest.log \in DOMAIN logs
      /\ manifest.next \in Nat
  BY DEF FilesInv, LogsInv, BgInv, Edit
<1>2. PICK b \in Nat : \A n \in DOMAIN logs : n <= b
  BY DEF Bounded
<1>3. manifest.log \in ns /\ ns \in SUBSET Nat /\ \A n \in ns : n <= b /\ n # 0
  BY <1>1, <1>2 DEF ToReplay
<1>4. ns = Relevant
  BY DEF Relevant, ToReplay
<1>5. \A n \in DOMAIN logs : n \in ns \/ n < manifest.log
  BY <1>1 DEF ToReplay
<1> HIDE DEF ns
<1>6. MaxOr0(ns) \in ns \cup {0} /\ \A n \in ns : n <= MaxOr0(ns)
  BY <1>2, <1>3, MaxOr0Is
<1>7. MaxOr0(ns) \in ns
  <2> SUFFICES ASSUME MaxOr0(ns) = 0 PROVE FALSE
    BY <1>6
  <2>1. manifest.log \in Nat /\ manifest.log # 0 /\ manifest.log <= 0
    BY <1>3, <1>6
  <2> QED
    BY <2>1
<1>8. \A n \in DOMAIN logs : n <= MaxOr0(ns)
  <2> TAKE n \in DOMAIN logs
  <2>1. n \in Nat /\ manifest.log \in Nat /\ MaxOr0(ns) \in Nat /\ manifest.log <= MaxOr0(ns)
    BY <1>1, <1>3, <1>6, <1>7
  <2> QED
    BY <2>1, <1>5, <1>6
<1> DEFINE S == {manifest.next + 1} \cup {n + 1 : n \in ns}
<1>9. next \in Nat /\ \A x \in S : x <= next
  <2>1. S \in SUBSET Nat /\ manifest.next + 1 + b + 1 \in Nat
        /\ \A x \in S : x <= manifest.next + 1 + b + 1
    BY <1>1, <1>2, <1>3
  <2>2. next = MaxOr0(S)
    BY DEF MarkFileNumberUsed
  <2> HIDE DEF S, next
  <2>3. MaxOr0(S) \in S \cup {0} /\ \A x \in S : x <= MaxOr0(S)
    BY ONLY <2>1, MaxOr0Is
  <2>4. S \cup {0} \subseteq Nat
    BY ONLY <2>1
  <2> QED
    BY ONLY <2>2, <2>3, <2>4
<1> HIDE DEF next
<1>10. \A n \in DOMAIN logs : n < next
  <2> TAKE n \in DOMAIN logs
  <2>1. n \in Nat /\ n <= MaxOr0(ns) /\ MaxOr0(ns) \in Nat
    BY <1>1, <1>3, <1>7, <1>8
  <2>2. MaxOr0(ns) + 1 <= next
    BY <1>7, <1>9
  <2> QED
    BY <2>1, <2>2, <1>9
<1> QED
  BY <1>4, <1>7, <1>8, <1>9, <1>10 DEF ns, next

\* What a recovery reads.  The two cases: the last log stays in use, or not.
Read(kept, lastLog, tail, tabled) ==
    /\ lastLog \in Relevant /\ \A n \in DOMAIN logs : n <= lastLog
    /\ tail = InLog(lastLog)
    /\ tabled = UNION RecordsOf(IF kept THEN Relevant \ {lastLog} ELSE Relevant)
    /\ lastSequence' = MaxOr0({manifest.last} \cup {LastSeq(r) : r \in RecordsOf(Relevant)})
    /\ nextFile' \in Nat /\ \A n \in DOMAIN logs : n < nextFile'
    /\ rec' = [at |-> "replayed", entries |-> tabled, reuse |-> kept]
    /\ logNumber' = IF kept THEN lastLog ELSE 0
    /\ mems' = IF kept THEN [n \in {lastLog} |-> tail] ELSE << >>

\* Recover reads the logs that count, and makes of them what Read says.
LEMMA RecoverReads ==
    ASSUME FilesInv, BgInv, Bounded, Recover
    PROVE  \E kept \in BOOLEAN : \E lastLog, tail, tabled : Read(kept, lastLog, tail, tabled)
<1>1. ~Alive
  BY DEF Recover, Alive
<1> DEFINE ns == {n \in DOMAIN logs : ToReplay(n)}
           lastLog == MaxOr0(ns)
           tail == UNION RecordsOf({lastLog} \cap ns)
           tabled(kept) == UNION RecordsOf(IF kept THEN ns \ {lastLog} ELSE ns)
<1>2. PICK reuse \in BOOLEAN :
        LET kept == reuse /\ ns # {} /\ Cardinality(tail) <= scope.buffer
        IN  /\ lastSequence' = MaxOr0({manifest.last} \cup {LastSeq(r) : r \in RecordsOf(ns)})
            /\ nextFile' = MarkFileNumberUsed(manifest.next + 1, ns)
            /\ rec' = [at |-> "replayed", entries |-> tabled(kept), reuse |-> kept]
            /\ logNumber' = IF kept THEN lastLog ELSE 0
            /\ mems' = IF kept THEN [n \in {lastLog} |-> tail] ELSE << >>
  BY DEF Recover
<1> DEFINE kept == reuse /\ ns # {} /\ Cardinality(tail) <= scope.buffer
<1>3. /\ ns = Relevant /\ lastLog \in ns /\ \A n \in DOMAIN logs : n <= lastLog
      /\ MarkFileNumberUsed(manifest.next + 1, ns) \in Nat
      /\ \A n \in DOMAIN logs : n < MarkFileNumberUsed(manifest.next + 1, ns)
  BY <1>1, ReplayedLogs
<1>4. tail = InLog(lastLog)
  <2>1. {lastLog} \cap ns = {lastLog}
    BY <1>3
  <2>2. RecordsOf({lastLog}) = Records(lastLog)
    BY DEF RecordsOf, Records
  <2> QED
    BY <2>1, <2>2 DEF InLog
<1>5. kept \in BOOLEAN
  OBVIOUS
<1> HIDE DEF lastLog, tail, kept
<1>6. Read(kept, lastLog, tail, tabled(kept))
  BY <1>2, <1>3, <1>4 DEF Read, kept
<1> QED
  BY <1>5, <1>6

\* A recovery reads the logs.
LEMMA RecoverFiles ==
    ASSUME QueueInv, FilesInv, BgInv, NumbersInv, Sound(Pieces), Recover
    PROVE  FilesInv'
<1>1. /\ ~Alive /\ ~Alive' /\ rec.at = "none" /\ UNCHANGED <<imm, bg, version, reader, logs, manifest, lead>>
  BY DEF Recover, Alive, bgVars, diskVars, queueVars
<1>2. PICK kept \in BOOLEAN : \E lastLog, tail, tabled : Read(kept, lastLog, tail, tabled)
  BY RecoverReads DEF NumbersInv
<1>3. PICK lastLog, tail, tabled : Read(kept, lastLog, tail, tabled)
  BY <1>2
<1>4. DOMAIN logs \subseteq Nat \ {0} /\ lastLog \in DOMAIN logs
  BY <1>3 DEF Read, Relevant, FilesInv, LogsInv
<1>5. lastSequence' \in Nat
  <2> DEFINE S == {manifest.last} \cup {LastSeq(r) : r \in RecordsOf(Relevant)}
  <2>1. PICK b \in Nat : \A Q \in Pieces : \A e \in Q : e.seq <= b
    BY DEF NumbersInv, Bounded
  <2>2. manifest.last \in Nat
    BY DEF BgInv, Edit
  <2>3. ASSUME NEW r \in RecordsOf(Relevant) PROVE LastSeq(r) \in Nat /\ LastSeq(r) <= b
    <3>1. r # {} /\ r \in Pieces /\ r \subseteq Entry
      <4>1. r \in Pieces
        BY DEF Pieces
      <4>2. PICK n \in DOMAIN logs : r \in Records(n)
        BY DEF RecordsOf, Records, Relevant
      <4> QED
        BY <4>1, <4>2, <1>1 DEF FilesInv, LogsInv, Sound
    <3>2. PICK e \in r : LastSeq(r) = e.seq
      BY <3>1 DEF NumbersInv, LastIsMax
    <3> QED
      BY <3>1, <3>2, <2>1 DEF Entry
  <2>4. S \in SUBSET Nat /\ b + manifest.last \in Nat /\ \A x \in S : x <= b + manifest.last
    BY <2>1, <2>2, <2>3
  <2>5. lastSequence' = MaxOr0(S)
    BY <1>3 DEF Read
  <2> HIDE DEF S
  <2>6. MaxOr0(S) \in S \cup {0}
    BY ONLY <2>4, MaxOr0Is
  <2>7. S \cup {0} \subseteq Nat
    BY ONLY <2>4
  <2> QED
    BY ONLY <2>5, <2>6, <2>7
<1>6. LogsInv'
  BY <1>1, <1>3, <1>4 DEF FilesInv, LogsInv, Read, Records
<1>7. imm = 0 /\ imm' = 0
  BY <1>1 DEF FilesInv, MemsInv
<1>8. ~InFlight'
  BY <1>1 DEF QueueInv, InFlight, Alive
<1>9. /\ Recovered' <=> kept
      /\ rec' = [at |-> "replayed", entries |-> tabled, reuse |-> kept]
      /\ nextFile' \in Nat
  BY <1>3 DEF Read, Recovered
<1>10. MemsInv'
  <2>1. CASE kept
    <3>1. logNumber' = lastLog /\ mems' = [n \in {lastLog} |-> tail] /\ tail = InLog(lastLog)
      BY <1>3, <2>1 DEF Read
    <3>2. DOMAIN mems' = {lastLog} /\ mems'[lastLog] = UNION ToSet(logs[lastLog].recs)
      BY <3>1 DEF InLog, Records
    <3>3. MemIsNewest'
      BY <1>1, <1>3, <1>4, <3>1, <3>2 DEF MemIsNewest, InLog, Records, Read
    <3>4. \A n \in DOMAIN mems' : n \in Nat \ {0} /\ n < nextFile'
      BY <1>3, <1>4, <3>2 DEF Read
    <3> QED
      BY <1>1, <1>4, <1>5, <1>7, <1>8, <1>9, <2>1, <3>1, <3>3, <3>4 DEF MemsInv
  <2>2. CASE ~kept
    <3>1. logNumber' = 0 /\ mems' = << >>
      BY <1>3, <2>2 DEF Read
    <3> QED
      BY <1>1, <1>5, <1>7, <1>8, <1>9, <2>2, <3>1 DEF MemsInv
  <2> QED
    BY <2>1, <2>2
<1>11. tabled \subseteq Entry
  <2>1. \A r \in RecordsOf(Relevant) : r \subseteq Entry
    BY DEF Sound, Pieces
  <2>2. \A r \in RecordsOf(IF kept THEN Relevant \ {lastLog} ELSE Relevant) : r \in RecordsOf(Relevant)
    BY DEF RecordsOf
  <2> QED
    BY <1>3, <2>1, <2>2 DEF Read
<1>12. RecInv'
  BY <1>1, <1>9, <1>11 DEF FilesInv, RecInv
<1> QED
  BY <1>6, <1>10, <1>12 DEF FilesInv

\* The end of an opening: another log, the manifest saved, the database open.
LEMMA OpenFiles ==
    ASSUME QueueInv, BgInv, FilesInv, OpenLog \/ OpenSaves \/ OpenReturns
    PROVE  FilesInv'
<1>1. /\ ~Alive /\ up \in {"exited", "rebooted"} /\ UNCHANGED <<lead, imm, lastSequence, reader>>
      /\ rec.at \in {"replayed", "opened", "saved"}
  BY DEF OpenLog, OpenSaves, OpenReturns, Alive, queueVars, memVars
<1>2. /\ imm = 0 /\ nextFile \in Nat /\ lastSequence \in Nat /\ DOMAIN logs \subseteq Nat \ {0}
      /\ manifest.log \in DOMAIN logs /\ bg = BgIdle
      /\ version = [tables |-> {}, level0 |-> 0, log |-> 0]
      /\ rec = [at |-> rec.at, entries |-> rec.entries, reuse |-> rec.reuse]
      /\ rec.entries \subseteq Entry
  BY <1>1 DEF FilesInv, LogsInv, MemsInv, RecInv
<1>3. ~InFlight /\ ~InFlight'
  BY <1>1 DEF QueueInv, InFlight, Alive
<1>4. CASE OpenLog /\ rec.reuse
  <2>1. /\ UNCHANGED <<logs, mems, logNumber, nextFile, bg, version, manifest, up>>
        /\ rec.at = "replayed" /\ rec' = [rec EXCEPT !.at = "opened"]
    BY <1>4 DEF OpenLog, bgVars
  <2>2. rec' = [at |-> "opened", entries |-> rec.entries, reuse |-> rec.reuse]
    BY <1>2, <2>1
  <2>3. MemIsNewest /\ ~Alive'
    BY <1>1, <1>4, <2>1 DEF FilesInv, MemsInv, Recovered, Alive
  <2>4. MemIsNewest'
    BY <2>1, <2>3 DEF MemIsNewest, InLog, Records
  <2>5. LogsInv'
    BY <1>1, <2>1, <2>2, <2>3 DEF FilesInv, LogsInv, Records
  <2>6. MemsInv'
    BY <1>1, <1>2, <1>3, <2>1, <2>2, <2>3, <2>4 DEF FilesInv, MemsInv, Recovered
  <2>7. RecInv'
    BY <1>1, <2>1, <2>2, <2>3 DEF FilesInv, RecInv
  <2> QED
    BY <2>5, <2>6, <2>7 DEF FilesInv
<1>5. CASE OpenLog /\ ~rec.reuse
  <2>1. /\ UNCHANGED <<bg, version, manifest, up>>
        /\ rec.at = "replayed" /\ rec' = [rec EXCEPT !.at = "opened"]
        /\ logs' = With(logs, nextFile, EmptyLog) /\ mems' = [n \in {nextFile} |-> {}]
        /\ logNumber' = nextFile /\ nextFile' = nextFile + 1
    BY <1>5 DEF OpenLog, bgVars
  <2>2. rec' = [at |-> "opened", entries |-> rec.entries, reuse |-> rec.reuse]
    BY <1>2, <2>1
  <2>3. ~Alive' /\ \A n \in DOMAIN logs : n \in Nat /\ n < nextFile
    BY <1>1, <1>2, <2>1 DEF FilesInv, LogsInv, Alive
  <2>4. /\ nextFile \notin DOMAIN logs /\ nextFile \in Nat \ {0}
        /\ DOMAIN logs' = DOMAIN logs \cup {nextFile} /\ logs'[nextFile] = EmptyLog
        /\ \A n \in DOMAIN logs : logs'[n] = logs[n]
    <3>1. nextFile \notin DOMAIN logs /\ nextFile # 0
      BY <1>2, <2>3
    <3> QED
      BY <1>2, <2>1, <3>1 DEF With
  <2>5. DOMAIN mems' = {nextFile} /\ mems'[nextFile] = {}
    BY <2>1
  <2>6. EmptyLog \in [recs : Seq(SUBSET Entry), synced : Nat] /\ ToSet(EmptyLog.recs) = {}
    BY DEF EmptyLog, ToSet
  <2>7. LogsInv'
    <3>1. \A n \in DOMAIN logs' : {} \notin ToSet(logs'[n].recs)
      BY <1>1, <2>4, <2>6 DEF FilesInv, LogsInv, Records
    <3>2. \A n \in DOMAIN logs' : logs'[n] \in [recs : Seq(SUBSET Entry), synced : Nat]
      BY <2>4, <2>6 DEF FilesInv, LogsInv
    <3> QED
      BY <1>2, <2>1, <2>2, <2>3, <2>4, <3>1, <3>2 DEF LogsInv, Records
  <2>8. MemIsNewest'
    <3>1. \A n \in DOMAIN logs' : n <= nextFile
      BY <1>2, <2>3, <2>4
    <3> QED
      BY <1>2, <2>1, <2>4, <2>5, <3>1 DEF MemIsNewest
  <2>9. MemsInv'
    BY <1>1, <1>2, <1>3, <2>1, <2>2, <2>3, <2>4, <2>5, <2>8 DEF MemsInv, Recovered
  <2>10. RecInv'
    BY <1>1, <2>1, <2>2, <2>3 DEF FilesInv, RecInv
  <2> QED
    BY <2>7, <2>9, <2>10 DEF FilesInv
<1>6. CASE OpenSaves
  <2>1. /\ UNCHANGED <<logs, mems, logNumber, nextFile, bg, version, up>>
        /\ rec.at = "opened" /\ rec' = [rec EXCEPT !.at = "saved"]
        /\ manifest'.log \in {logNumber, manifest.log}
    BY <1>6 DEF OpenSaves, memVars, bgVars
  <2>2. rec' = [at |-> "saved", entries |-> rec.entries, reuse |-> rec.reuse]
    BY <1>2, <2>1
  <2>3. MemIsNewest /\ ~Alive'
    BY <1>1, <2>1 DEF FilesInv, MemsInv, Recovered, Alive
  <2>4. MemIsNewest'
    BY <2>1, <2>3 DEF MemIsNewest, InLog, Records
  <2>5. LogsInv'
    <3>1. manifest'.log \in DOMAIN logs
      BY <1>2, <2>1, <2>3 DEF MemIsNewest
    <3> QED
      BY <1>1, <2>1, <2>2, <2>3, <3>1 DEF FilesInv, LogsInv, Records
  <2>6. MemsInv'
    BY <1>1, <1>2, <1>3, <2>1, <2>2, <2>3, <2>4 DEF FilesInv, MemsInv, Recovered
  <2>7. RecInv'
    BY <1>1, <2>1, <2>2, <2>3 DEF FilesInv, RecInv
  <2> QED
    BY <2>5, <2>6, <2>7 DEF FilesInv
<1>7. CASE OpenReturns
  <2>1. /\ UNCHANGED <<mems, logNumber, nextFile, manifest>> /\ rec.at = "saved" /\ rec' = NoRec
        /\ Alive' /\ version'.log = manifest.log
        /\ DOMAIN logs' \subseteq DOMAIN logs /\ \A n \in DOMAIN logs' : logs'[n] = logs[n]
        /\ \A n \in DOMAIN logs : n >= manifest.log => n \in DOMAIN logs'
    <3> DEFINE v == [tables |-> manifest.tables, level0 |-> manifest.level0, log |-> manifest.log]
    <3>1. /\ UNCHANGED <<mems, logNumber, nextFile, manifest>> /\ rec.at = "saved" /\ rec' = NoRec
          /\ Alive' /\ version' = v /\ logs' = Without(logs, Obsolete(v, FALSE))
      BY <1>7 DEF OpenReturns, memVars, Alive
    <3>2. v.log = manifest.log /\ manifest.log \in Nat
      BY <1>2
    <3> HIDE DEF v
    <3> QED
      BY <3>1, <3>2, <1>2 DEF Without, Obsolete
  <2>2. MemIsNewest
    BY <2>1 DEF FilesInv, MemsInv, Recovered
  <2>3. manifest.log \in DOMAIN logs' /\ logNumber \in DOMAIN logs'
    <3>1. manifest.log \in Nat /\ logNumber \in Nat /\ logNumber \in DOMAIN logs
          /\ manifest.log <= logNumber
      BY <1>2, <2>2 DEF MemIsNewest
    <3> QED
      BY <1>2, <2>1, <3>1
  <2>4. MemIsNewest'
    BY <1>2, <2>1, <2>2, <2>3 DEF MemIsNewest, InLog, Records
  <2>5. LogsInv'
    <3>1. manifest.log <= manifest.log
      BY <1>2
    <3> QED
      BY <2>1, <2>3, <3>1 DEF FilesInv, LogsInv, NoRec
  <2>6. MemsInv'
    BY <1>1, <1>2, <1>3, <2>1, <2>4 DEF FilesInv, MemsInv
  <2>7. RecInv'
    BY <2>1 DEF RecInv, NoRec
  <2> QED
    BY <2>5, <2>6, <2>7 DEF FilesInv
<1> QED
  BY <1>4, <1>5, <1>6, <1>7

\* Every step keeps the files and the memtables right.
LEMMA FilesStep ==
    ASSUME QueueInv, BgInv, FilesInv, NumbersInv, Sound(Pieces), QuietStep \/ MovingStep
    PROVE  FilesInv'
BY QuietFiles, LeaderFiles, SwitchFiles, FlushFiles, DownFiles, ReadingFiles, RecoverFiles, OpenFiles
   DEF MovingStep

-----------------------------------------------------------------------------
(***************************************************************************)
(* The background thread                                                   *)
(***************************************************************************)

\* Where no edit is under way, there is little to keep.
LEMMA NoEdit ==
    ASSUME bg' = [on |-> bg'.on, at |-> bg'.at, merging |-> bg'.merging, edit |-> << >>],
           bg'.at \in {"idle", "build", "merge"}, bg'.at = "build" => imm' # 0,
           bg'.merging \in Nat, bg'.merging <= version'.level0,
           version' \in Version, manifest' \in Edit, Alive' => version'.level0 <= manifest'.level0,
           \A e \in manifest'.tables : e.seq <= manifest'.last
    PROVE  BgInv'
<1>1. bg'.edit = << >>
  OBVIOUS
<1> QED
  BY <1>1 DEF BgInv

\* The background thread stays what it is while nothing of its concern changes.
LEMMA BgStays ==
    ASSUME BgInv, FilesInv, UNCHANGED <<bg, version, manifest>>, Alive' => Alive,
           imm # 0 => imm' = imm /\ mems'[imm] = mems[imm] /\ logNumber' = logNumber
    PROVE  BgInv'
<1>1. CASE bg.at \in {"manifest", "written"}
  <2>1. imm # 0 /\ EditIsRight
    BY <1>1 DEF BgInv
  <2>2. EditIsRight'
    BY <2>1 DEF EditIsRight
  <2> QED
    BY <1>1, <2>1, <2>2 DEF BgInv
<1>2. CASE bg.at \notin {"manifest", "written"}
  BY <1>2 DEF BgInv
<1> QED
  BY <1>1, <1>2

\* Steps that leave the background thread alone.
LEMMA BgLeft ==
    ASSUME BgInv, FilesInv,
           (QuietStep /\ UNCHANGED bg) \/ AddRecord \/ AddRecordFails \/ Sync \/ InsertInto \/ Finish
             \/ Get \/ Close \/ (\E k \in scope.reads : GetBegin(k)) \/ Recover \/ OpenLog
    PROVE  BgInv'
<1>1. UNCHANGED <<bg, version, manifest>> /\ (Alive' => Alive)
  BY DEF QuietStep, AddRecord, AddRecordFails, Sync, InsertInto, Finish, Get, Close, GetBegin,
         Recover, OpenLog, bgVars, diskVars, lifeVars, Alive
<1>2. imm # 0 => imm' = imm /\ logNumber' = logNumber
  <2>1. CASE Recover \/ OpenLog
    BY <2>1 DEF Recover, OpenLog, Alive, FilesInv, MemsInv
  <2> QED
    BY <2>1 DEF QuietStep, AddRecord, AddRecordFails, Sync, InsertInto, Finish, Get, Close,
                GetBegin, memVars
<1>3. imm # 0 => mems'[imm] = mems[imm]
  <2>1. CASE Recover \/ OpenLog
    BY <2>1 DEF Recover, OpenLog, Alive, FilesInv, MemsInv
  <2>2. CASE InsertInto
    <3>1. imm # 0 => imm \in DOMAIN mems /\ imm # logNumber
      BY DEF FilesInv, MemsInv
    <3> QED
      BY <2>2, <3>1 DEF InsertInto
  <2> QED
    BY <2>1, <2>2 DEF QuietStep, AddRecord, AddRecordFails, Sync, Finish, Get, Close,
                GetBegin, memVars
<1> QED
  BY <1>1, <1>2, <1>3, BgStays

\* Steps that make no edit: it is scheduled, turns to other work, or gives up.
LEMMA BgTurns ==
    ASSUME BgInv, FilesInv,
           SwitchMemTable \/ BackgroundCall \/ MergeFlushes \/ FlushFails \/ ManifestFails \/ MergeFails
    PROVE  BgInv'
<1>1. /\ Alive /\ Alive' /\ UNCHANGED version
  BY DEF SwitchMemTable, MakingRoom, BackgroundCall, MergeFlushes, FlushFails, ManifestFails,
         MergeFails, Alive, lifeVars
<1>2. /\ bg = [on |-> bg.on, at |-> bg.at, merging |-> bg.merging, edit |-> bg.edit]
      /\ bg.at \in {"idle", "build", "manifest", "written", "merge"}
      /\ bg.merging \in Nat /\ bg.merging <= version.level0 /\ version \in Version
      /\ version.level0 <= manifest.level0
      /\ manifest \in Edit /\ \A e \in manifest.tables : e.seq <= manifest.last
  BY <1>1 DEF BgInv
<1>3. version.level0 \in Nat
  BY <1>2 DEF Version
<1>4. /\ manifest' \in Edit /\ version.level0 <= manifest'.level0
      /\ \A e \in manifest'.tables : e.seq <= manifest'.last
  <2>1. CASE ManifestFails
    <3>1. manifest' \in {manifest, bg.edit[1]} /\ EditIsRight
      BY <2>1 DEF ManifestFails, BgInv
    <3> QED
      BY <3>1, <1>2 DEF EditIsRight
  <2> QED
    BY <2>1, <1>2 DEF SwitchMemTable, BackgroundCall, MergeFlushes, FlushFails, MergeFails, diskVars
<1>5. /\ bg' = [on |-> bg'.on, at |-> bg'.at, merging |-> bg'.merging, edit |-> << >>]
      /\ bg'.at \in {"idle", "build", "merge"}
      /\ bg'.merging \in {0, bg.merging, version.level0}
      /\ bg'.at = "build" => imm' # 0
  <2>1. CASE SwitchMemTable
    <3>1. imm = 0 /\ imm' = logNumber /\ bg' = [bg EXCEPT !.on = bg'.on]
      BY <2>1, <1>2 DEF SwitchMemTable, MustWait
    <3>2. bg.at \notin {"build", "manifest", "written"} /\ bg.edit = << >>
      BY <3>1 DEF BgInv
    <3> QED
      BY <3>1, <3>2, <1>2
  <2>2. CASE BackgroundCall
    <3>1. bg.at = "idle" /\ imm' = imm /\ bg.edit = << >>
      BY <2>2 DEF BackgroundCall, BgInv
    <3>2. \/ bg' = [BgIdle EXCEPT !.on = bg'.on]
          \/ imm # 0 /\ bg' = [bg EXCEPT !.at = "build"]
          \/ bg' = [bg EXCEPT !.at = "merge", !.merging = version.level0]
      BY <2>2 DEF BackgroundCall, EndCall, BgIdle
    <3> QED
      BY <3>1, <3>2, <1>2 DEF BgIdle
  <2>3. CASE MergeFlushes
    <3>1. bg.at = "merge" /\ imm # 0 /\ imm' = imm /\ bg.edit = << >> /\ bg' = [bg EXCEPT !.at = "build"]
      BY <2>3 DEF MergeFlushes, BgInv
    <3> QED
      BY <3>1, <1>2
  <2>4. CASE FlushFails \/ ManifestFails \/ MergeFails
    <3>1. \/ bg' = [bg EXCEPT !.at = "merge", !.edit = << >>]
          \/ bg' = [BgIdle EXCEPT !.on = bg'.on]
      BY <2>4 DEF FlushFails, ManifestFails, MergeFails, FlushReturns, EndCall, BgIdle
    <3> QED
      BY <3>1, <1>2 DEF BgIdle
  <2> QED
    BY <2>1, <2>2, <2>3, <2>4
<1>6. bg'.merging \in Nat /\ bg'.merging <= version.level0
  BY <1>2, <1>3, <1>5
<1> QED
  BY <1>1, <1>2, <1>4, <1>5, <1>6, NoEdit

\* BuildTable makes an edit that adds the immutable memtable.
LEMMA BgBuilds ==
    ASSUME BgInv, FilesInv, NumbersInv, Sound(Pieces), BuildTable
    PROVE  BgInv'
<1>1. /\ Alive /\ Alive' /\ bg.at = "build" /\ UNCHANGED <<version, manifest, mems, imm, logNumber>>
  BY DEF BuildTable, Alive, lifeVars, memVars, diskVars
<1>2. /\ bg = [on |-> bg.on, at |-> bg.at, merging |-> bg.merging, edit |-> bg.edit]
      /\ bg.merging \in Nat /\ bg.merging <= version.level0 /\ version \in Version
      /\ version.level0 <= manifest.level0 /\ imm # 0
      /\ manifest \in Edit /\ \A e \in manifest.tables : e.seq <= manifest.last
  BY <1>1 DEF BgInv
<1>3. imm \in DOMAIN mems /\ logNumber \in Nat /\ lastSequence \in Nat /\ nextFile \in Nat
      /\ version.level0 \in Nat
  BY <1>2 DEF FilesInv, MemsInv, Version
<1>4. PICK l \in {0, 1} :
        bg' = [bg EXCEPT !.at = "manifest",
                    !.edit = <<[tables |-> version.tables \cup mems[imm],
                                level0 |-> version.level0 + l, log |-> EditedLog,
                                last |-> lastSequence, next |-> nextFile]>>]
  BY DEF BuildTable
<1> DEFINE e == [tables |-> version.tables \cup mems[imm], level0 |-> version.level0 + l,
                 log |-> logNumber, last |-> lastSequence, next |-> nextFile]
<1>5. bg' = [on |-> bg.on, at |-> "manifest", merging |-> bg.merging, edit |-> <<e>>]
  BY <1>2, <1>4 DEF EditedLog
<1>6. version.tables \cup mems[imm] \subseteq Entry
  <2>1. version.tables \in Pieces /\ mems[imm] \in Pieces
    BY <1>3 DEF Pieces
  <2> QED
    BY <2>1 DEF Sound
<1>7. \A f \in version.tables \cup mems[imm] : f.seq <= lastSequence
  BY <1>1, <1>2 DEF NumbersInv, Counted, Tabled
<1>8. version.level0 + l \in Nat /\ version.level0 + l >= version.level0
  BY <1>3
<1>9. e \in Edit /\ e.tables = version.tables \cup mems[imm] /\ e.log = logNumber
      /\ e.level0 >= version.level0 /\ \A f \in e.tables : f.seq <= e.last
  BY <1>3, <1>6, <1>7, <1>8 DEF Edit
<1> HIDE DEF e
<1>10. bg'.edit = <<e>> /\ bg'.edit[1] = e /\ bg'.at = "manifest" /\ bg'.merging = bg.merging
       /\ bg' = [on |-> bg'.on, at |-> bg'.at, merging |-> bg'.merging, edit |-> bg'.edit]
  BY <1>5
<1>11. EditIsRight'
  BY <1>1, <1>9, <1>10 DEF EditIsRight
<1> QED
  BY <1>1, <1>2, <1>10, <1>11 DEF BgInv

\* The edit reaches the manifest.
LEMMA BgWrites ==
    ASSUME BgInv, WriteManifest
    PROVE  BgInv'
<1>1. /\ bg.at = "manifest" /\ EditIsRight /\ Alive
      /\ UNCHANGED <<version, mems, imm, logNumber, up>> /\ manifest' = bg.edit[1]
      /\ bg' = [bg EXCEPT !.at = "written"]
  BY DEF WriteManifest, BgInv, lifeVars, memVars
<1>2. bg' = [on |-> bg.on, at |-> "written", merging |-> bg.merging, edit |-> bg.edit]
  BY <1>1 DEF BgInv
<1>3. EditIsRight'
  BY <1>1, <1>2 DEF EditIsRight
<1>4. manifest' \in Edit /\ version.level0 <= manifest'.level0
      /\ \A e \in manifest'.tables : e.seq <= manifest'.last
  <2>1. version.level0 \in Nat /\ bg.edit[1].level0 \in Nat /\ bg.edit[1].level0 >= version.level0
    BY <1>1 DEF BgInv, EditIsRight, Edit, Version
  <2> QED
    BY <1>1, <2>1 DEF EditIsRight
<1> QED
  BY <1>1, <1>2, <1>3, <1>4 DEF BgInv

\* The version becomes that of the edit.
LEMMA BgCommits ==
    ASSUME BgInv, CommitFlush
    PROVE  BgInv'
<1> DEFINE e == bg.edit[1]
           v == [tables |-> e.tables, level0 |-> e.level0, log |-> e.log]
<1>1. /\ bg.at = "written" /\ EditIsRight /\ Alive /\ UNCHANGED manifest /\ version' = v
      /\ FlushReturns(0, v, bgError)
  BY DEF CommitFlush, BgInv
<1>2. /\ e \in Edit /\ manifest = e /\ e.level0 >= version.level0
      /\ \A f \in manifest.tables : f.seq <= manifest.last
  BY <1>1 DEF EditIsRight
<1>3. /\ bg = [on |-> bg.on, at |-> bg.at, merging |-> bg.merging, edit |-> bg.edit]
      /\ bg.merging \in Nat /\ bg.merging <= version.level0 /\ version.level0 \in Nat
  BY DEF BgInv, Version
<1>4. v \in Version /\ v.level0 = e.level0 /\ e.level0 \in Nat
  BY <1>2 DEF Version, Edit
<1>5. /\ bg' = [on |-> bg'.on, at |-> bg'.at, merging |-> bg'.merging, edit |-> << >>]
      /\ bg'.at \in {"idle", "merge"} /\ bg'.merging \in {0, bg.merging}
  <2>1. \/ bg' = [bg EXCEPT !.at = "merge", !.edit = << >>]
        \/ bg' = [BgIdle EXCEPT !.on = bg'.on]
    BY <1>1 DEF FlushReturns, EndCall, BgIdle
  <2> QED
    BY <2>1, <1>3 DEF BgIdle
<1> HIDE DEF e, v
<1>6. bg'.merging \in Nat /\ bg'.merging <= version'.level0
  BY <1>1, <1>2, <1>3, <1>4, <1>5
<1>7. version'.level0 <= manifest'.level0
  BY <1>1, <1>2, <1>4
<1> QED
  BY <1>1, <1>2, <1>4, <1>5, <1>6, <1>7, NoEdit

\* A merge takes files from level 0 and moves no entry.
LEMMA BgMerges ==
    ASSUME BgInv, FilesInv, NumbersInv, Merge
    PROVE  BgInv'
<1>1. /\ Alive /\ bg.at = "merge" /\ EndCall(imm, version', bgError)
      /\ version' = [version EXCEPT !.level0 = @ - bg.merging]
      /\ manifest' = [manifest EXCEPT !.level0 = @ - bg.merging, !.log = version.log,
                        !.last = lastSequence, !.next = nextFile]
  BY DEF Merge, Alive
<1>2. /\ bg.merging \in Nat /\ bg.merging <= version.level0 /\ version \in Version
      /\ version.level0 <= manifest.level0 /\ manifest \in Edit
      /\ version.level0 \in Nat /\ manifest.level0 \in Nat /\ version.log \in Nat
  BY <1>1 DEF BgInv, Version, Edit
<1>3. lastSequence \in Nat /\ nextFile \in Nat
  BY DEF FilesInv, MemsInv
<1>4. /\ version.level0 - bg.merging \in Nat /\ manifest.level0 - bg.merging \in Nat
      /\ version.level0 - bg.merging <= manifest.level0 - bg.merging
  BY <1>2
<1>5. /\ version' = [tables |-> version.tables, level0 |-> version.level0 - bg.merging,
                     log |-> version.log]
      /\ manifest' = [tables |-> manifest.tables, level0 |-> manifest.level0 - bg.merging,
                      log |-> version.log, last |-> lastSequence, next |-> nextFile]
  BY <1>1, <1>2 DEF Version, Edit
<1>6. version' \in Version /\ manifest' \in Edit
  BY <1>2, <1>3, <1>4, <1>5 DEF Version, Edit
<1>7. \A e \in manifest.tables : e.seq <= lastSequence
  BY <1>1 DEF NumbersInv, Counted, Tabled
<1>8. bg' = [on |-> bg'.on, at |-> "idle", merging |-> 0, edit |-> << >>]
  <2>1. bg' = [BgIdle EXCEPT !.on = bg'.on]
    BY <1>1 DEF EndCall, BgIdle
  <2> QED
    BY <2>1 DEF BgIdle
<1>9. bg'.at = "idle" /\ bg'.merging = 0
  BY <1>8
<1> QED
  BY <1>4, <1>5, <1>6, <1>7, <1>8, <1>9, NoEdit

\* The background thread after the end of a process and after an opening.
LEMMA BgAtEnds ==
    ASSUME BgInv, FilesInv, NumbersInv,
           (\E kind \in {"exited", "rebooted"} : Down(kind)) \/ OpenSaves \/ OpenReturns
    PROVE  BgInv'
<1>1. /\ manifest \in Edit /\ \A e \in manifest.tables : e.seq <= manifest.last
  BY DEF BgInv
<1>2. BgIdle = [on |-> FALSE, at |-> "idle", merging |-> 0, edit |-> << >>]
  BY DEF BgIdle
<1>3. CASE \E kind \in {"exited", "rebooted"} : Down(kind)
  <2>1. ~Alive' /\ manifest' = manifest /\ bg' = BgIdle
        /\ version' = [tables |-> {}, level0 |-> 0, log |-> 0]
    BY <1>3 DEF Down, Alive
  <2>2. version' \in Version /\ version'.level0 = 0
    BY <2>1 DEF Version
  <2> QED
    BY <1>1, <1>2, <2>1, <2>2, NoEdit
<1>4. CASE OpenSaves
  <2>1. /\ ~Alive /\ ~Alive' /\ UNCHANGED <<bg, version>> /\ rec.at # "none"
    BY <1>4 DEF OpenSaves, Alive, bgVars
  <2>2. bg = BgIdle /\ version = [tables |-> {}, level0 |-> 0, log |-> 0]
        /\ rec.entries \subseteq Entry
    BY <2>1 DEF FilesInv, RecInv
  <2>3. version \in Version /\ version.level0 = 0
    BY <2>2 DEF Version
  <2>4. manifest' \in Edit /\ \A e \in manifest'.tables : e.seq <= manifest'.last
    <3> DEFINE m == [tables |-> manifest.tables \cup rec.entries,
                     level0 |-> manifest.level0 + (IF rec.entries = {} THEN 0 ELSE 1),
                     log |-> logNumber, last |-> lastSequence, next |-> nextFile]
    <3>1. manifest' \in {m, manifest}
      BY <1>4 DEF OpenSaves
    <3>2. lastSequence \in Nat /\ nextFile \in Nat /\ logNumber \in Nat
      BY DEF FilesInv, MemsInv
    <3>3. \A e \in manifest.tables \cup rec.entries : e.seq <= lastSequence
      BY <2>1 DEF NumbersInv, Counted, Tabled
    <3>4. m \in Edit /\ m.tables = manifest.tables \cup rec.entries /\ m.last = lastSequence
      BY <1>1, <2>2, <3>2 DEF Edit
    <3> HIDE DEF m
    <3> QED
      BY <1>1, <3>1, <3>3, <3>4
  <2> QED
    BY <1>2, <2>1, <2>2, <2>3, <2>4, NoEdit
<1>5. CASE OpenReturns
  <2> DEFINE v == [tables |-> manifest.tables, level0 |-> manifest.level0, log |-> manifest.log]
  <2>1. UNCHANGED manifest /\ version' = v /\ bg' = [BgIdle EXCEPT !.on = v.level0 >= L0Trigger]
    BY <1>5 DEF OpenReturns
  <2>2. v \in Version /\ v.level0 = manifest.level0 /\ manifest.level0 \in Nat
    BY <1>1 DEF Version, Edit
  <2> HIDE DEF v
  <2>3. bg' = [on |-> bg'.on, at |-> "idle", merging |-> 0, edit |-> << >>]
    BY <1>2, <2>1
  <2>4. bg'.at = "idle" /\ bg'.merging = 0
    BY <2>3
  <2>5. manifest.level0 <= manifest.level0 /\ 0 <= manifest.level0
    BY <2>2
  <2> QED
    BY <1>1, <2>1, <2>2, <2>3, <2>4, <2>5, NoEdit
<1> QED
  BY <1>3, <1>4, <1>5

\* Every step keeps the background thread's state right.
LEMMA BgStep ==
    ASSUME BgInv, FilesInv, NumbersInv, Sound(Pieces), QueueInv, Next, scope \in Scopes
    PROVE  BgInv'
<1>1. CASE QuietStep /\ UNCHANGED bg
  BY <1>1, BgLeft
<1>2. CASE MovingStep
  BY <1>2, BgLeft, BgTurns, BgBuilds, BgWrites, BgCommits, BgMerges, BgAtEnds DEF MovingStep
<1>3. CASE BackgroundCall \/ MergeFlushes \/ FlushFails \/ MergeFails
  BY <1>3, BgTurns
<1>4. ASSUME ~(BackgroundCall \/ MergeFlushes \/ FlushFails \/ MergeFails), ~MovingStep
      PROVE  UNCHANGED bg
  BY <1>4 DEF Next, WriterStep, BackgroundStep, OpenStep, MovingStep, Enqueue, Lead, RoomError,
      Delay, WaitForBackground, SwitchFails, BuildGroup, SyncFails, CompactMemTableWaits, bgVars,
      CloseEnds, Crash
<1> QED
  BY <1>1, <1>2, <1>3, <1>4, StepKinds

-----------------------------------------------------------------------------
(***************************************************************************)
(* What becomes of the pieces                                              *)
(***************************************************************************)

\* The records that count are those that did, empty ones, and the group's.
RecordsStay ==
    \A n \in Relevant' : \A r \in ToSet(logs'[n].recs) :
        r = {} \/ (n \in Relevant /\ r \in Records(n)) \/ (AddRecord /\ n = logNumber /\ r = Group)

\* Where no log changes, the records that count are among those that did.
LEMMA SameLogs ==
    ASSUME FilesInv, BgInv, UNCHANGED logs, Alive' <=> Alive,
           IF Alive THEN version'.log >= version.log ELSE manifest'.log >= manifest.log,
           version'.log \in Nat, manifest'.log \in Nat
    PROVE  RecordsStay
<1>1. version.log \in Nat /\ manifest.log \in Nat
  BY DEF BgInv, Version, Edit
<1>2. \A n \in Relevant' : n \in Relevant
  BY <1>1 DEF Relevant, FilesInv, LogsInv
<1> QED
  BY <1>2 DEF RecordsStay, Records

\* The records that count after a step did before it, but for empty ones and the
\* group's.
LEMMA LogsMove ==
    ASSUME QueueInv, BgInv, FilesInv, BgInv', QuietStep \/ MovingStep
    PROVE  RecordsStay
<1>0. /\ version.log \in Nat /\ manifest.log \in Nat /\ version'.log \in Nat /\ manifest'.log \in Nat
      /\ DOMAIN logs \subseteq Nat \ {0}
      /\ version.log >= version.log /\ manifest.log >= manifest.log
  <2>1. version \in Version /\ manifest \in Edit /\ version' \in Version /\ manifest' \in Edit
    BY DEF BgInv
  <2>2. version.log \in Nat /\ manifest.log \in Nat /\ version'.log \in Nat /\ manifest'.log \in Nat
    BY ONLY <2>1 DEF Version, Edit
  <2>3. version.log >= version.log /\ manifest.log >= manifest.log
    BY ONLY <2>2
  <2>4. DOMAIN logs \subseteq Nat \ {0}
    BY DEF FilesInv, LogsInv
  <2> QED
    BY ONLY <2>2, <2>3, <2>4
<1>1. CASE QuietStep \/ InsertInto \/ Finish \/ BuildTable \/ WriteManifest \/ ManifestFails
             \/ Get \/ Close \/ (\E k \in scope.reads : GetBegin(k))
  <2>1. Alive /\ Alive' /\ UNCHANGED <<logs, version>>
    BY <1>1 DEF QuietStep, InsertInto, Finish, BuildTable, WriteManifest, ManifestFails, Get, Close,
                GetBegin, Alive, diskVars, bgVars, lifeVars
  <2> QED
    BY <1>0, <2>1, SameLogs
<1>2. CASE Merge
  <2>1. Alive /\ Alive' /\ UNCHANGED logs /\ version'.log = version.log
    BY <1>2 DEF Merge, Alive, lifeVars, BgInv, Version
  <2> QED
    BY <1>0, <2>1, SameLogs
<1>3. CASE Recover
  <2>1. ~Alive /\ ~Alive' /\ UNCHANGED <<logs, manifest>>
    BY <1>3 DEF Recover, Alive, diskVars
  <2> QED
    BY <1>0, <2>1, SameLogs
<1>4. CASE OpenSaves
  <2>1. ~Alive /\ ~Alive' /\ UNCHANGED logs /\ manifest'.log \in {logNumber, manifest.log}
    BY <1>4 DEF OpenSaves, Alive
  <2>2. logNumber \in Nat /\ logNumber >= manifest.log
    BY <1>0, <1>4 DEF OpenSaves, FilesInv, LogsInv, MemsInv, Recovered, MemIsNewest
  <2> QED
    BY <1>0, <2>1, <2>2, SameLogs
<1>5. CASE SwitchMemTable \/ (OpenLog /\ ~rec.reuse)
  <2>1. /\ (Alive' <=> Alive) /\ UNCHANGED <<version, manifest>> /\ logs' = With(logs, nextFile, EmptyLog)
    BY <1>5 DEF SwitchMemTable, MakingRoom, OpenLog, Alive, lifeVars, bgVars
  <2>2. nextFile \notin DOMAIN logs
    <3>1. nextFile \in Nat /\ \A n \in DOMAIN logs : n < nextFile
      <4>1. CASE SwitchMemTable
        <5>1. Alive
          BY <4>1 DEF SwitchMemTable, MakingRoom, Alive
        <5>2. nextFile \in Nat /\ logNumber \in Nat /\ MemIsNewest
          BY <5>1 DEF FilesInv, MemsInv
        <5> QED
          BY <5>2, <1>0 DEF MemIsNewest
      <4>2. CASE OpenLog
        BY <4>2 DEF OpenLog, FilesInv, LogsInv, MemsInv
      <4> QED
        BY <4>1, <4>2, <1>5
    <3> QED
      BY <3>1, <1>0
  <2>3. /\ DOMAIN logs' = DOMAIN logs \cup {nextFile} /\ logs'[nextFile] = EmptyLog
        /\ \A n \in DOMAIN logs : logs'[n] = logs[n]
    BY <2>1, <2>2 DEF With
  <2>4. ToSet(EmptyLog.recs) = {}
    BY DEF EmptyLog, ToSet
  <2>5. \A n \in Relevant' : n \in Relevant \/ n = nextFile
    BY <2>1, <2>3 DEF Relevant
  <2>6. \A n \in Relevant : n \in DOMAIN logs
    BY DEF Relevant
  <2> QED
    BY <2>3, <2>4, <2>5, <2>6 DEF RecordsStay, Records
<1>6. CASE OpenLog /\ rec.reuse
  <2>1. ~Alive /\ ~Alive' /\ UNCHANGED <<logs, manifest>>
    BY <1>6 DEF OpenLog, Alive
  <2> QED
    BY <1>0, <2>1, SameLogs
<1>7. CASE AddRecord \/ AddRecordFails \/ Sync
  <2>1. Alive /\ Alive' /\ UNCHANGED <<version, manifest>>
    BY <1>7 DEF AddRecord, AddRecordFails, Sync, Alive, lifeVars, bgVars
  <2>2. /\ logNumber \in DOMAIN logs /\ logs[logNumber] \in [recs : Seq(SUBSET Entry), synced : Nat]
    BY <2>1 DEF FilesInv, LogsInv, MemsInv, MemIsNewest
  <2>3. DOMAIN logs' = DOMAIN logs /\ \A n \in DOMAIN logs : n # logNumber => logs'[n] = logs[n]
    BY <1>7 DEF AddRecord, AddRecordFails, Sync, SyncLog
  <2>4. \A r \in ToSet(logs'[logNumber].recs) : r \in {{}} \cup Records(logNumber) \/ (AddRecord /\ r = Group)
    <3>1. CASE Sync
      <4>1. logs'[logNumber].recs = logs[logNumber].recs
        BY <3>1, <2>2 DEF Sync, SyncLog
      <4> QED
        BY <4>1 DEF Records
    <3>2. CASE AddRecord \/ AddRecordFails
      <4> DEFINE G == IF AddRecord THEN Group ELSE {}
      <4>1. logs'[logNumber].recs = Append(logs[logNumber].recs, G)
        BY <3>2, <2>2 DEF AddRecord, AddRecordFails
      <4>2. logs[logNumber].recs \in Seq(SUBSET Entry) /\ G \in SUBSET Entry
        <5>1. Group \subseteq Entry
          <6>1. CASE AddRecord
            BY <6>1, GroupIs DEF AddRecord, Working, Places, FilesInv, MemsInv
          <6>2. CASE AddRecordFails
            BY <6>2, GroupIs DEF AddRecordFails, Working, Places, FilesInv, MemsInv
          <6> QED
            BY <6>1, <6>2, <3>2
        <5> QED
          BY <5>1, <2>2
      <4>3. ToSet(logs'[logNumber].recs) = Records(logNumber) \cup {G}
        <5> HIDE DEF G
        <5> QED
          BY <4>1, <4>2, AppendRecord DEF Records
      <4> QED
        BY <4>3
    <3> QED
      BY <1>7, <3>1, <3>2
  <2>5. Relevant' = Relevant
    BY <2>1, <2>3 DEF Relevant
  <2>6. \A n \in Relevant : n \in DOMAIN logs
    BY DEF Relevant
  <2> QED
    BY <2>3, <2>4, <2>5, <2>6 DEF RecordsStay, Records
<1>8. CASE CommitFlush
  <2> DEFINE e == bg.edit[1]
             v == [tables |-> e.tables, level0 |-> e.level0, log |-> e.log]
  <2>1. /\ Alive /\ Alive' /\ version' = v /\ EditIsRight /\ imm # 0
        /\ logs' = Without(logs, Obsolete(v, bgError))
    BY <1>8 DEF CommitFlush, BgInv, Alive, lifeVars
  <2>2. version'.log = logNumber
    BY <2>1 DEF EditIsRight
  <2>3. version.log <= logNumber /\ logNumber \in Nat
    BY <2>1 DEF FilesInv, LogsInv, MemsInv, MemIsNewest
  <2>4. DOMAIN logs' \subseteq DOMAIN logs /\ \A n \in DOMAIN logs' : logs'[n] = logs[n]
    BY <2>1 DEF Without
  <2>5. \A n \in Relevant' : n \in Relevant /\ n \in DOMAIN logs'
    BY <1>0, <2>1, <2>2, <2>3, <2>4 DEF Relevant
  <2> QED
    BY <2>4, <2>5 DEF RecordsStay, Records
<1>9. CASE OpenReturns
  <2> DEFINE v == [tables |-> manifest.tables, level0 |-> manifest.level0, log |-> manifest.log]
  <2>1. ~Alive /\ Alive' /\ version' = v /\ logs' = Without(logs, Obsolete(v, FALSE))
    BY <1>9 DEF OpenReturns, Alive
  <2>2. version'.log = manifest.log
    BY <2>1
  <2>3. DOMAIN logs' \subseteq DOMAIN logs /\ \A n \in DOMAIN logs' : logs'[n] = logs[n]
    BY <2>1 DEF Without
  <2>4. \A n \in Relevant' : n \in Relevant /\ n \in DOMAIN logs'
    BY <2>1, <2>2, <2>3 DEF Relevant
  <2> QED
    BY <2>3, <2>4 DEF RecordsStay, Records
<1>10. ASSUME NEW kind \in {"exited", "rebooted"}, Down(kind), logs' \in LogsLeft(kind)
       PROVE  RecordsStay
  <2>1. /\ DOMAIN logs' = DOMAIN logs
        /\ \A n \in DOMAIN logs : ToSet(logs'[n].recs) \subseteq Records(n)
    BY <1>10, LogsLeftAre
  <2>2. ~Alive' /\ manifest' = manifest
    BY <1>10 DEF Down, Alive
  <2>3. Alive => version.log <= manifest.log
    BY DEF FilesInv, LogsInv
  <2>4. \A n \in Relevant' : n \in DOMAIN logs /\ n >= manifest.log
    BY <2>1, <2>2 DEF Relevant
  <2>5. \A n \in Relevant' : n \in Relevant
    <3> SUFFICES ASSUME NEW n \in Relevant' PROVE n >= (IF Alive THEN version.log ELSE manifest.log)
      BY <2>4 DEF Relevant
    <3>1. n \in Nat /\ n >= manifest.log
      BY <2>4, <1>0
    <3> QED
      BY <3>1, <2>3, <1>0
  <2> QED
    BY <2>1, <2>4, <2>5 DEF RecordsStay
<1> QED
  BY <1>1, <1>2, <1>3, <1>4, <1>5, <1>6, <1>7, <1>8, <1>9, <1>10 DEF MovingStep

\* Whatever a step puts somewhere is put together from pieces.
Made(Q) == \E A \in SUBSET Pieces : Q = UNION A

\* Nothing, a piece, and two pieces are made of pieces.
LEMMA MadeOf ==
    /\ Made({})
    /\ \A Q \in Pieces : Made(Q)
    /\ \A A \in SUBSET Pieces : Made(UNION A)
    /\ \A Q, R \in Pieces : Made(Q \cup R)
<1>1. Made({})
  <2>1. {} \in SUBSET Pieces /\ {} = UNION {}
    OBVIOUS
  <2> QED
    BY <2>1 DEF Made
<1>2. ASSUME NEW Q \in Pieces PROVE Made(Q)
  <2>1. {Q} \in SUBSET Pieces /\ Q = UNION {Q}
    OBVIOUS
  <2> QED
    BY <2>1 DEF Made
<1>3. ASSUME NEW A \in SUBSET Pieces PROVE Made(UNION A)
  BY DEF Made
<1>4. ASSUME NEW Q \in Pieces, NEW R \in Pieces PROVE Made(Q \cup R)
  <2>1. {Q, R} \in SUBSET Pieces /\ Q \cup R = UNION {Q, R}
    OBVIOUS
  <2> QED
    BY <2>1 DEF Made
<1> QED
  BY <1>1, <1>2, <1>3, <1>4

\* Where the pieces are.
LEMMA PiecesAre ==
    /\ \A n \in DOMAIN mems : mems[n] \in Pieces
    /\ \A n \in Relevant : Records(n) \in SUBSET Pieces
    /\ version.tables \in Pieces /\ manifest.tables \in Pieces /\ rec.entries \in Pieces
    /\ \A i \in DOMAIN bg.edit : bg.edit[i].tables \in Pieces
BY DEF Pieces, Edits, RecordsOf, Records

\* The memtables of the next state are made of pieces.
LEMMA MemsMove ==
    ASSUME QueueInv, BgInv, FilesInv, NumbersInv, QuietStep \/ MovingStep
    PROVE  \A n \in DOMAIN mems' : Made(mems'[n])
<1>1. CASE UNCHANGED mems
  BY <1>1, MadeOf, PiecesAre
<1>2. CASE mems' = << >>
  BY <1>2
<1>3. CASE SwitchMemTable
  <2>1. mems' = With(mems, nextFile, {})
    BY <1>3 DEF SwitchMemTable
  <2>2. \A n \in DOMAIN mems' : mems'[n] = {} \/ (n \in DOMAIN mems /\ mems'[n] = mems[n])
    BY <2>1 DEF With
  <2> QED
    BY <2>2, MadeOf, PiecesAre
<1>4. CASE InsertInto
  <2>1. /\ Alive /\ InFlight /\ mems' = [mems EXCEPT ![logNumber] = @ \cup Group]
    BY <1>4 DEF InsertInto, Alive, InFlight
  <2>2. logNumber \in DOMAIN mems /\ logNumber \in Relevant /\ Group \in Records(logNumber)
    BY <2>1 DEF FilesInv, LogsInv, MemsInv, MemIsNewest, Relevant
  <2>3. mems[logNumber] \in Pieces /\ Group \in Pieces
    BY <2>2, PiecesAre
  <2>4. Made(mems[logNumber] \cup Group)
    BY <2>3, MadeOf
  <2> QED
    BY <2>1, <2>4, MadeOf, PiecesAre
<1>5. CASE Recover
  <2>1. PICK kept \in BOOLEAN : \E lastLog, tail, tabled : Read(kept, lastLog, tail, tabled)
    BY <1>5, RecoverReads DEF NumbersInv
  <2>2. PICK lastLog, tail, tabled : Read(kept, lastLog, tail, tabled)
    BY <2>1
  <2>3. Made(tail)
    <3>1. lastLog \in Relevant /\ tail = UNION Records(lastLog)
      BY <2>2 DEF Read, InLog
    <3> QED
      BY <3>1, MadeOf, PiecesAre
  <2>4. mems' = IF kept THEN [n \in {lastLog} |-> tail] ELSE << >>
    BY <2>2 DEF Read
  <2> QED
    BY <2>3, <2>4
<1>6. CASE OpenLog
  <2>1. UNCHANGED mems \/ mems' = [n \in {nextFile} |-> {}]
    BY <1>6 DEF OpenLog
  <2> QED
    BY <2>1, <1>1, MadeOf
<1> QED
  BY <1>1, <1>2, <1>3, <1>4, <1>5, <1>6
  DEF MovingStep, QuietStep, AddRecord, AddRecordFails, Sync, Finish, BuildTable, WriteManifest,
      ManifestFails, CommitFlush, Merge, OpenSaves, OpenReturns, Get, Close, GetBegin, Down, memVars

\* Only BuildTable makes an edit.
LEMMA EditStays ==
    ASSUME BgInv, QuietStep \/ MovingStep, ~BuildTable
    PROVE  bg'.edit \in {bg.edit, << >>}
<1>1. CASE QuietStep
  BY <1>1 DEF QuietStep
<1>2. CASE UNCHANGED bg
  BY <1>2
<1>3. CASE WriteManifest \/ SwitchMemTable
  BY <1>3 DEF WriteManifest, SwitchMemTable, BgInv
<1>4. CASE ManifestFails \/ CommitFlush
  <2>1. \/ bg' = [bg EXCEPT !.at = "merge", !.edit = << >>]
        \/ bg' = [BgIdle EXCEPT !.on = bg'.on]
    BY <1>4 DEF ManifestFails, CommitFlush, FlushReturns, EndCall, BgIdle
  <2> QED
    BY <2>1 DEF BgInv, BgIdle
<1>5. CASE Merge \/ OpenReturns \/ \E kind \in {"exited", "rebooted"} : Down(kind)
  <2>1. bg' = BgIdle \/ bg' = [BgIdle EXCEPT !.on = bg'.on]
    <3>1. CASE Merge
      BY <3>1 DEF Merge, EndCall, BgIdle
    <3>2. CASE OpenReturns
      BY <3>2 DEF OpenReturns, BgIdle
    <3>3. CASE \E kind \in {"exited", "rebooted"} : Down(kind)
      BY <3>3 DEF Down
    <3> QED
      BY <1>5, <3>1, <3>2, <3>3
  <2> QED
    BY <2>1 DEF BgIdle
<1> QED
  BY <1>1, <1>2, <1>3, <1>4, <1>5
  DEF MovingStep, AddRecord, AddRecordFails, Sync, InsertInto, Finish, Recover, OpenLog, OpenSaves,
      Get, Close, GetBegin, bgVars

\* The tables, the edit and the recovery of the next state are made of pieces.
LEMMA TablesMove ==
    ASSUME QueueInv, BgInv, FilesInv, NumbersInv, QuietStep \/ MovingStep
    PROVE  /\ Made(version'.tables) /\ Made(manifest'.tables) /\ Made(rec'.entries)
           /\ \A i \in DOMAIN bg'.edit : Made(bg'.edit[i].tables)
<1>1. Made(version'.tables)
  <2>1. CASE version'.tables = version.tables \/ version'.tables = {}
    BY <2>1, MadeOf, PiecesAre
  <2>2. CASE CommitFlush
    <3>1. version'.tables = bg.edit[1].tables /\ EditIsRight
      BY <2>2 DEF CommitFlush, BgInv
    <3>2. 1 \in DOMAIN bg.edit
      BY <3>1 DEF EditIsRight
    <3> QED
      BY <3>1, <3>2, MadeOf, PiecesAre
  <2>3. CASE OpenReturns
    BY <2>3, MadeOf, PiecesAre DEF OpenReturns
  <2>4. CASE Merge
    <3>1. version'.tables = version.tables
      BY <2>4 DEF Merge, BgInv, Version
    <3> QED
      BY <2>1, <3>1
  <2>5. ASSUME NEW kind, Down(kind) PROVE version'.tables = {}
    BY <2>5 DEF Down
  <2>6. CASE QuietStep \/ SwitchMemTable \/ AddRecord \/ AddRecordFails \/ Sync \/ InsertInto
               \/ Finish \/ BuildTable \/ WriteManifest \/ ManifestFails \/ Recover \/ OpenLog
               \/ OpenSaves \/ Get \/ Close \/ \E k \in scope.reads : GetBegin(k)
    <3>1. version' = version
      BY <2>6
      DEF QuietStep, SwitchMemTable, AddRecord, AddRecordFails, Sync, InsertInto, Finish,
          BuildTable, WriteManifest, ManifestFails, Recover, OpenLog, OpenSaves, Get, Close, GetBegin,
          bgVars
    <3> QED
      BY <2>1, <3>1
  <2> QED
    BY <2>1, <2>2, <2>3, <2>4, <2>5, <2>6 DEF MovingStep
<1>2. Made(manifest'.tables)
  <2>1. CASE manifest'.tables = manifest.tables
    BY <2>1, MadeOf, PiecesAre
  <2>2. CASE WriteManifest \/ ManifestFails
    <3>1. manifest' \in {manifest, bg.edit[1]} /\ EditIsRight
      BY <2>2 DEF WriteManifest, ManifestFails, BgInv
    <3>2. 1 \in DOMAIN bg.edit
      BY <3>1 DEF EditIsRight
    <3> QED
      BY <3>1, <3>2, MadeOf, PiecesAre
  <2>3. CASE OpenSaves
    <3>1. manifest'.tables \in {manifest.tables, manifest.tables \cup rec.entries}
      BY <2>3 DEF OpenSaves
    <3> QED
      BY <3>1, MadeOf, PiecesAre
  <2>4. CASE Merge
    <3>1. manifest'.tables = manifest.tables
      BY <2>4 DEF Merge, BgInv, Edit
    <3> QED
      BY <2>1, <3>1
  <2> QED
    BY <2>1, <2>2, <2>3, <2>4
    DEF MovingStep, QuietStep, SwitchMemTable, AddRecord, AddRecordFails, Sync, InsertInto, Finish,
        BuildTable, CommitFlush, Recover, OpenLog, OpenReturns, Get, Close, GetBegin, Down, diskVars
<1>3. Made(rec'.entries)
  <2>1. CASE rec'.entries = rec.entries \/ rec'.entries = {}
    BY <2>1, MadeOf, PiecesAre
  <2>2. CASE Recover
    <3>1. PICK kept \in BOOLEAN : \E lastLog, tail, tabled : Read(kept, lastLog, tail, tabled)
      BY <2>2, RecoverReads DEF NumbersInv
    <3>2. PICK lastLog, tail, tabled : Read(kept, lastLog, tail, tabled)
      BY <3>1
    <3> DEFINE ns == IF kept THEN Relevant \ {lastLog} ELSE Relevant
    <3>3. rec'.entries = UNION RecordsOf(ns)
      BY <3>2 DEF Read
    <3>4. RecordsOf(ns) \in SUBSET Pieces
      BY DEF Pieces, RecordsOf
    <3> QED
      BY <3>3, <3>4, MadeOf
  <2>3. CASE OpenLog \/ OpenSaves \/ OpenReturns
    <3>1. rec'.entries \in {rec.entries, {}}
      <4>1. rec = [at |-> rec.at, entries |-> rec.entries, reuse |-> rec.reuse]
        BY DEF FilesInv, RecInv
      <4>2. \/ rec' = [rec EXCEPT !.at = "opened"]
            \/ rec' = [rec EXCEPT !.at = "saved"]
            \/ rec' = [at |-> "none", entries |-> {}, reuse |-> FALSE]
        BY <2>3 DEF OpenLog, OpenSaves, OpenReturns, NoRec
      <4> QED
        BY <4>1, <4>2
    <3> QED
      BY <2>1, <3>1
  <2>4. ASSUME NEW kind, Down(kind) PROVE rec'.entries = {}
    BY <2>4 DEF Down, NoRec
  <2> QED
    BY <2>1, <2>2, <2>3, <2>4
    DEF MovingStep, QuietStep, SwitchMemTable, AddRecord, AddRecordFails, Sync, InsertInto, Finish,
        BuildTable, WriteManifest, ManifestFails, CommitFlush, Merge, Get, Close, GetBegin, lifeVars
<1>4. \A i \in DOMAIN bg'.edit : Made(bg'.edit[i].tables)
  <2>1. CASE ~BuildTable
    <3>1. bg'.edit \in {bg.edit, << >>}
      BY <2>1, EditStays
    <3> QED
      BY <3>1, MadeOf, PiecesAre
  <2>2. CASE BuildTable
    <3>1. imm # 0 /\ bg = [on |-> bg.on, at |-> bg.at, merging |-> bg.merging, edit |-> bg.edit]
      BY <2>2 DEF BuildTable, BgInv
    <3>2. \E e : bg'.edit = <<e>> /\ e.tables = version.tables \cup mems[imm]
      BY <2>2, <3>1 DEF BuildTable
    <3>3. Made(version.tables \cup mems[imm])
      <4>1. imm \in DOMAIN mems
        BY <3>1 DEF FilesInv, MemsInv
      <4> QED
        BY <4>1, MadeOf, PiecesAre
    <3> QED
      BY <3>2, <3>3
  <2> QED
    BY <2>1, <2>2
<1> QED
  BY <1>1, <1>2, <1>3, <1>4

\* Every piece of the next state is made of pieces, or is the new group's.
LEMMA PiecesMove ==
    ASSUME QueueInv, BgInv, FilesInv, NumbersInv, BgInv', QuietStep \/ MovingStep
    PROVE  \A Q \in Pieces' : Made(Q) \/ (AddRecord /\ Q = Group)
<1>1. RecordsStay
  BY LogsMove
<1>2. \A n \in DOMAIN mems' : Made(mems'[n])
  BY MemsMove
<1>3. /\ Made(version'.tables) /\ Made(manifest'.tables) /\ Made(rec'.entries)
      /\ \A i \in DOMAIN bg'.edit : Made(bg'.edit[i].tables)
  BY TablesMove
<1>4. \A n \in Relevant' : \A r \in ToSet(logs'[n].recs) : Made(r) \/ (AddRecord /\ r = Group)
  BY <1>1, MadeOf, PiecesAre DEF RecordsStay
<1>5. \A Q \in Pieces' :
        \/ \E n \in DOMAIN mems' : Q = mems'[n]
        \/ \E n \in Relevant' : Q \in ToSet(logs'[n].recs)
        \/ Q \in {version'.tables, manifest'.tables, rec'.entries}
        \/ \E i \in DOMAIN bg'.edit : Q = bg'.edit[i].tables
  BY DEF Pieces, Edits, RecordsOf
<1> QED
  BY <1>2, <1>3, <1>4, <1>5

\* What is in a piece was in a piece, or is the group's.
LEMMA EntriesMove ==
    ASSUME QueueInv, BgInv, FilesInv, NumbersInv, BgInv', QuietStep \/ MovingStep,
           NEW Q \in Pieces', NEW e \in Q
    PROVE  (\E S \in Pieces : e \in S) \/ (AddRecord /\ e \in Group)
BY PiecesMove DEF Made

\* Every step keeps the pieces sound: a new group shares nothing with them.
LEMMA SoundStep ==
    ASSUME QueueInv, BgInv, FilesInv, NumbersInv, Sound(Pieces), Answered, BgInv',
           QuietStep \/ MovingStep
    PROVE  Sound(Pieces)'
<1>1. \A Q \in Pieces' : Made(Q) \/ (AddRecord /\ Q = Group)
  BY PiecesMove
<1>2. CASE ~AddRecord
  <2>1. \A Q \in Pieces' : \E A \in SUBSET Pieces : Q = UNION A
    BY <1>1, <1>2 DEF Made
  <2>2. Sound(Pieces')
    BY <2>1, SoundUnion
  <2> QED
    BY <2>2 DEF Sound
<1>3. CASE AddRecord
  <2>1. Alive /\ Working /\ ~InFlight /\ lastSequence \in Nat
    BY <1>3 DEF AddRecord, Alive, Working, Places, InFlight, FilesInv, MemsInv
  <2>2. /\ Group \subseteq Entry /\ Whole(Group) /\ \A e, f \in Group : e.seq = f.seq => e = f
        /\ \A f \in Group : status[f.by] = "waiting" /\ lastSequence < f.seq
    BY <2>1, GroupIs
  <2>3. ASSUME NEW S \in Pieces, NEW e \in S, NEW f \in Group PROVE e.by # f.by /\ e.seq # f.seq
    <3>1. status[e.by] \in {"ok", "failed", "lost"} /\ e.seq <= lastSequence
      BY <2>1 DEF Answered, NumbersInv, Counted
    <3>2. e.seq \in Nat /\ f.seq \in Nat
      BY <2>2 DEF Sound, Entry
    <3> QED
      BY <2>1, <2>2, <3>1, <3>2
  <2>4. Sound(Pieces \cup {Group})
    BY <2>2, <2>3, SoundFresh
  <2>5. \A Q \in Pieces' : \E A \in SUBSET (Pieces \cup {Group}) : Q = UNION A
    <3>1. {Group} \in SUBSET (Pieces \cup {Group}) /\ Group = UNION {Group}
      OBVIOUS
    <3> QED
      BY <3>1, <1>1 DEF Made
  <2>6. Sound(Pieces')
    BY ONLY <2>4, <2>5, SoundUnion
  <2> QED
    BY <2>6 DEF Sound
<1> QED
  BY <1>2, <1>3

-----------------------------------------------------------------------------
(***************************************************************************)
(* The group at work                                                       *)
(***************************************************************************)

\* What is answered stays answered.
LEMMA AnswersStay ==
    ASSUME QueueInv, FilesInv, QuietStep \/ MovingStep, NEW w \in Writer, status[w] \in Final
    PROVE  status'[w] \in Final
<1>1. CASE QuietStep
  BY <1>1 DEF QuietStep
<1>2. CASE Finish
  <2>1. /\ lead.group = SubSeq(writers, 1, Len(lead.group)) /\ Len(lead.group) \in 1 .. Len(writers)
        /\ writers \in Seq(Writer) /\ \A i \in DOMAIN writers : status[writers[i]] = "waiting"
    BY <1>2 DEF Finish, QueueInv, GroupIsFront, Working, Places
  <2>2. w \notin ToSet(lead.group)
    <3>1. \A i \in DOMAIN lead.group : status[lead.group[i]] = "waiting"
      BY <2>1
    <3> QED
      BY <3>1 DEF ToSet, Final
  <2>3. status'[w] = status[w]
    BY <1>2, <2>2 DEF Finish, Return
  <2> QED
    BY <2>3
<1>3. ASSUME NEW kind, Down(kind) PROVE status'[w] \in Final
  BY <1>3 DEF Down, Final
<1>4. CASE UNCHANGED status
  BY <1>4
<1> QED
  BY <1>1, <1>2, <1>3, <1>4
  DEF MovingStep, SwitchMemTable, AddRecord, AddRecordFails, Sync, InsertInto, BuildTable,
      WriteManifest, ManifestFails, CommitFlush, Merge, Recover, OpenLog, OpenSaves, OpenReturns, Get,
      Close, GetBegin, queueVars

\* The group stays at work until Finish counts it.
LEMMA GroupMoves ==
    ASSUME QueueInv, FilesInv, QuietStep \/ MovingStep, Alive' \/ rec'.at # "none", ~Recover
    PROVE  /\ \/ lastSequence' = lastSequence /\ (InFlight => InFlight' /\ Group' = Group)
              \/ Finish /\ lastSequence' = lastSequence + Cardinality(Group)
           /\ AddRecord => InFlight' /\ Group' = Group /\ ~InFlight
<1>1. CASE QuietStep
  <2>1. lastSequence' = lastSequence /\ (InFlight' <=> InFlight)
        /\ (InFlight => lead'.group = lead.group)
    BY <1>1 DEF QuietStep
  <2>2. InFlight => Group' = Group
    BY <2>1 DEF Group
  <2>3. ~AddRecord
    <3>1. AddRecord => ~InFlight /\ InFlight'
      BY DEF AddRecord, InFlight, QueueInv
    <3> QED
      BY <2>1, <3>1
  <2> QED
    BY <2>1, <2>2, <2>3
<1>2. CASE Finish
  BY <1>2 DEF Finish, AddRecord, Count
<1>3. CASE AddRecord \/ Sync \/ InsertInto
  <2>1. /\ lastSequence' = lastSequence /\ lead'.group = lead.group
        /\ lead'.at \in {"sync", "insert", "inserted"}
    BY <1>3 DEF AddRecord, Sync, InsertInto, memVars, QueueInv
  <2>2. InFlight' /\ Group' = Group
    BY <2>1 DEF InFlight, Group
  <2> QED
    BY <2>1, <2>2 DEF AddRecord, InFlight
<1>4. CASE AddRecordFails \/ SwitchMemTable
  <2>1. lastSequence' = lastSequence /\ ~InFlight
    BY <1>4 DEF AddRecordFails, SwitchMemTable, MakingRoom, memVars, InFlight
  <2>2. ~AddRecord
    <3>1. CASE AddRecordFails
      <4>1. lead'.at = "failed"
        BY <3>1 DEF AddRecordFails, QueueInv
      <4>2. AddRecord => lead'.at \in {"sync", "insert"}
        BY DEF AddRecord, QueueInv
      <4> QED
        BY <4>1, <4>2
    <3> QED
      BY <1>4, <3>1 DEF SwitchMemTable, MakingRoom, AddRecord
  <2> QED
    BY <2>1, <2>2
<1>5. CASE BuildTable \/ WriteManifest \/ ManifestFails \/ CommitFlush \/ Merge \/ OpenLog
             \/ OpenSaves \/ OpenReturns \/ Get \/ Close \/ \E k \in scope.reads : GetBegin(k)
  <2>1. lastSequence' = lastSequence /\ UNCHANGED lead
    BY <1>5 DEF BuildTable, WriteManifest, ManifestFails, CommitFlush, Merge, OpenLog, OpenSaves,
                OpenReturns, Get, Close, GetBegin, memVars, queueVars
  <2>2. ~AddRecord
    <3>1. AddRecord => lead.at = "append" /\ lead'.at # "append"
      BY DEF AddRecord, QueueInv
    <3> QED
      BY <2>1, <3>1
  <2> QED
    BY <2>1, <2>2 DEF InFlight, Group
<1>6. ASSUME NEW kind \in {"exited", "rebooted"}, Down(kind) PROVE FALSE
  BY <1>6 DEF Down, Alive, NoRec
<1> QED
  BY <1>1, <1>2, <1>3, <1>4, <1>5, <1>6 DEF MovingStep

\* Every step keeps what is there answered, but for the group at work.
LEMMA AnsweredStep ==
    ASSUME QueueInv, BgInv, FilesInv, NumbersInv, Sound(Pieces), Answered, BgInv',
           QuietStep \/ MovingStep
    PROVE  Answered'
<1> SUFFICES ASSUME NEW Q \in Pieces', NEW e \in Q
             PROVE  status'[e.by] \in Final \/ (InFlight' /\ e \in Group')
  BY DEF Answered, Final
<1>1. CASE AddRecord /\ e \in Group
  <2>1. Alive'
    BY <1>1 DEF AddRecord, Alive, lifeVars
  <2>2. ~Recover
    BY <1>1 DEF AddRecord, Recover
  <2> QED
    BY <1>1, <2>1, <2>2, GroupMoves
<1>2. CASE \E S \in Pieces : e \in S
  <2>1. PICK S \in Pieces : e \in S
    BY <1>2
  <2>2. e \in Entry /\ e.by \in Writer
    BY <2>1 DEF Sound, Entry, Write
  <2>3. CASE status[e.by] \in Final
    BY <2>2, <2>3, AnswersStay
  <2>4. CASE InFlight /\ e \in Group
    <3>0. up = "running" /\ Alive /\ Working /\ lastSequence \in Nat
      BY <2>4 DEF InFlight, Alive, QueueInv, FilesInv, MemsInv, Working, Places
    <3>1. /\ e.by \in ToSet(lead.group) /\ status[e.by] = "waiting"
          /\ e.by \notin Flusher
      BY <2>2, <2>4, <3>0, GroupIs DEF Entry, Write
    <3>2. CASE Finish
      <4>1. status'[e.by] \in {"failed", "ok"}
        BY <2>2, <3>1, <3>2 DEF Finish, Return
      <4> QED
        BY <4>1 DEF Final
    <3>3. ASSUME NEW kind \in {"exited", "rebooted"}, Down(kind) PROVE status'[e.by] \in Final
      BY <2>2, <3>1, <3>3 DEF Down, Final
    <3>4. CASE Alive' /\ ~Finish
      <4>1. ~Recover
        BY <3>0 DEF Recover
      <4> QED
        BY <2>4, <3>4, <4>1, GroupMoves
    <3>5. ~Alive' => \E kind \in {"exited", "rebooted"} : Down(kind)
      BY <3>0 DEF QuietStep, MovingStep, SwitchMemTable, AddRecord, AddRecordFails, Sync, InsertInto,
         Finish, BuildTable, WriteManifest, ManifestFails, CommitFlush, Merge, Recover, OpenLog,
         OpenSaves, OpenReturns, Get, Close, GetBegin, Alive, lifeVars
    <3> QED
      BY <3>2, <3>3, <3>4, <3>5
  <2> QED
    BY <2>1, <2>3, <2>4 DEF Answered, Final
<1> QED
  BY <1>1, <1>2, EntriesMove

-----------------------------------------------------------------------------
(***************************************************************************)
(* The numbers                                                             *)
(***************************************************************************)

\* The logs of the next state are those of this one and perhaps a new one.
LEMMA LogNumbers ==
    ASSUME FilesInv, QuietStep \/ MovingStep
    PROVE  \A n \in DOMAIN logs' : n \in DOMAIN logs \/ n = nextFile
<1>1. CASE UNCHANGED logs
  BY <1>1
<1>2. CASE AddRecord \/ AddRecordFails \/ Sync
  BY <1>2 DEF AddRecord, AddRecordFails, Sync, SyncLog
<1>3. CASE SwitchMemTable \/ OpenLog
  BY <1>3 DEF SwitchMemTable, OpenLog, With
<1>4. CASE CommitFlush \/ OpenReturns
  <2>1. \E S : logs' = Without(logs, S)
    BY <1>4 DEF CommitFlush, OpenReturns
  <2> QED
    BY <2>1 DEF Without
<1>5. ASSUME NEW kind, logs' \in LogsLeft(kind) PROVE DOMAIN logs' = DOMAIN logs
  BY <1>5, LogsLeftAre
<1> QED
  BY <1>1, <1>2, <1>3, <1>4, <1>5
  DEF MovingStep, QuietStep, InsertInto, Finish, BuildTable, WriteManifest, ManifestFails, Merge,
      Recover, OpenSaves, Get, Close, GetBegin, diskVars

\* The last number of a record that counts.
LEMMA LastsStep ==
    ASSUME QueueInv, BgInv, FilesInv, NumbersInv, BgInv', QuietStep \/ MovingStep
    PROVE  \A r \in RecordsOf(Relevant)' : LastIsMax(r)
<1>1. RecordsStay
  BY LogsMove
<1>2. ASSUME NEW n \in Relevant', NEW r \in ToSet(logs'[n].recs) PROVE LastIsMax(r)
  <2>1. CASE r = {}
    BY <2>1 DEF LastIsMax
  <2>2. CASE n \in Relevant /\ r \in Records(n)
    <3>1. r \in RecordsOf(Relevant)
      BY <2>2 DEF RecordsOf, Records
    <3> QED
      BY <3>1 DEF NumbersInv
  <2>3. CASE AddRecord /\ r = Group
    BY <2>3, GroupIs DEF AddRecord, Working, Places, FilesInv, MemsInv
  <2> QED
    BY <1>1, <2>1, <2>2, <2>3 DEF RecordsStay
<1> QED
  BY <1>2 DEF RecordsOf

\* Every step keeps the numbers bounded.
LEMMA BoundedStep ==
    ASSUME QueueInv, BgInv, FilesInv, NumbersInv, Sound(Pieces), BgInv', QuietStep \/ MovingStep
    PROVE  Bounded'
<1>1. PICK b \in Nat : /\ \A n \in DOMAIN logs : n <= b
                       /\ \A S \in Pieces : \A e \in S : e.seq <= b
  BY DEF NumbersInv, Bounded
<1>2. nextFile \in Nat /\ lastSequence \in Nat /\ DOMAIN logs \subseteq Nat
  BY DEF FilesInv, MemsInv, LogsInv
<1> DEFINE c == IF AddRecord THEN Cardinality(Group) ELSE 0
<1>3. c \in Nat /\ (AddRecord => Group \subseteq Entry
                        /\ \A e \in Group : e.seq <= lastSequence + c)
  <2>1. CASE AddRecord
    <3>1. Working
      BY <2>1 DEF AddRecord, Working, Places
    <3> QED
      BY <2>1, <3>1, <1>2, GroupIs
  <2> QED
    BY <2>1
<1> HIDE DEF c
<1> DEFINE d == b + nextFile + lastSequence + c
<1>4. /\ d \in Nat /\ \A n \in Nat : n <= b => n <= d
      /\ \A n \in Nat : n <= lastSequence + c => n <= d
      /\ nextFile <= d
  BY <1>1, <1>2, <1>3
<1> HIDE DEF d
<1>5. \A n \in DOMAIN logs' : n <= d
  BY <1>1, <1>2, <1>4, LogNumbers
<1>6. ASSUME NEW Q \in Pieces', NEW e \in Q PROVE e.seq <= d
  <2>1. CASE \E S \in Pieces : e \in S
    <3>1. e.seq \in Nat /\ e.seq <= b
      BY <2>1, <1>1 DEF Sound, Entry
    <3> QED
      BY <3>1, <1>4
  <2>2. CASE AddRecord /\ e \in Group
    <3>1. e.seq \in Nat /\ e.seq <= lastSequence + c
      BY <2>2, <1>3 DEF Entry
    <3> QED
      BY <3>1, <1>4
  <2> QED
    BY <2>1, <2>2, EntriesMove
<1> QED
  BY <1>4, <1>5, <1>6 DEF Bounded

\* What is in tables comes from tables, from a memtable that is flushed or from
\* logs that are replayed.
LEMMA TabledMoves ==
    ASSUME BgInv, FilesInv, QuietStep \/ MovingStep, ~Recover
    PROVE  /\ \A e \in Tabled' : \/ e \in Tabled
                                 \/ OpenSaves /\ e \in rec.entries
                                 \/ imm # 0 /\ e \in mems[imm] /\ Alive
           /\ \A e \in rec'.entries : e \in rec.entries
<1>1. \A e \in Tabled' : \/ e \in version'.tables \/ e \in manifest'.tables
                         \/ \E i \in DOMAIN bg'.edit : e \in bg'.edit[i].tables
  BY DEF Tabled, Edits
<1>2. /\ version.tables \subseteq Tabled /\ manifest.tables \subseteq Tabled
      /\ \A i \in DOMAIN bg.edit : bg.edit[i].tables \subseteq Tabled
  BY DEF Tabled, Edits
<1>3. \A e \in rec'.entries : e \in rec.entries
  <2>1. CASE UNCHANGED rec
    BY <2>1
  <2>2. CASE OpenLog \/ OpenSaves \/ OpenReturns
    <3>1. rec = [at |-> rec.at, entries |-> rec.entries, reuse |-> rec.reuse]
      BY DEF FilesInv, RecInv
    <3>2. \/ rec' = [rec EXCEPT !.at = "opened"]
          \/ rec' = [rec EXCEPT !.at = "saved"]
          \/ rec' = [at |-> "none", entries |-> {}, reuse |-> FALSE]
      BY <2>2 DEF OpenLog, OpenSaves, OpenReturns, NoRec
    <3> QED
      BY <3>1, <3>2
  <2>3. ASSUME NEW kind, Down(kind) PROVE rec'.entries = {}
    BY <2>3 DEF Down, NoRec
  <2> QED
    BY <2>1, <2>2, <2>3
    DEF MovingStep, QuietStep, SwitchMemTable, AddRecord, AddRecordFails, Sync, InsertInto, Finish,
        BuildTable, WriteManifest, ManifestFails, CommitFlush, Merge, Recover, Get, Close, GetBegin,
        lifeVars
<1>4. \A e \in version'.tables : e \in Tabled
  <2>1. CASE CommitFlush
    <3>1. version'.tables = bg.edit[1].tables /\ 1 \in DOMAIN bg.edit
      BY <2>1 DEF CommitFlush, BgInv, EditIsRight
    <3> QED
      BY <3>1, <1>2
  <2>2. CASE OpenReturns
    BY <2>2, <1>2 DEF OpenReturns
  <2>3. CASE Merge
    <3>1. version'.tables = version.tables
      BY <2>3 DEF Merge, BgInv, Version
    <3> QED
      BY <3>1, <1>2
  <2>4. ASSUME NEW kind, Down(kind) PROVE version'.tables = {}
    BY <2>4 DEF Down
  <2>5. CASE version' = version
    BY <2>5, <1>2
  <2> QED
    BY <2>1, <2>2, <2>3, <2>4, <2>5
    DEF MovingStep, QuietStep, SwitchMemTable, AddRecord, AddRecordFails, Sync, InsertInto, Finish,
        BuildTable, WriteManifest, ManifestFails, Recover, OpenLog, OpenSaves, Get, Close, GetBegin,
        bgVars
<1>5. \A e \in manifest'.tables : e \in Tabled \/ (OpenSaves /\ e \in rec.entries)
  <2>1. CASE manifest'.tables = manifest.tables
    BY <2>1, <1>2
  <2>2. CASE WriteManifest \/ ManifestFails
    <3>1. manifest' \in {manifest, bg.edit[1]} /\ EditIsRight
      BY <2>2 DEF WriteManifest, ManifestFails, BgInv
    <3>2. 1 \in DOMAIN bg.edit
      BY <3>1 DEF EditIsRight
    <3> QED
      BY <3>1, <3>2, <1>2
  <2>3. CASE OpenSaves
    <3>1. manifest'.tables \in {manifest.tables, manifest.tables \cup rec.entries}
      BY <2>3 DEF OpenSaves
    <3> QED
      BY <2>3, <3>1, <1>2
  <2>4. CASE Merge
    <3>1. manifest'.tables = manifest.tables
      BY <2>4 DEF Merge, BgInv, Edit
    <3> QED
      BY <2>1, <3>1
  <2> QED
    BY <2>1, <2>2, <2>3, <2>4
    DEF MovingStep, QuietStep, SwitchMemTable, AddRecord, AddRecordFails, Sync, InsertInto, Finish,
        BuildTable, CommitFlush, Recover, OpenLog, OpenReturns, Get, Close, GetBegin, Down, diskVars
<1>6. ASSUME NEW i \in DOMAIN bg'.edit, NEW e \in bg'.edit[i].tables
      PROVE  e \in Tabled \/ (imm # 0 /\ e \in mems[imm] /\ Alive)
  <2>1. CASE BuildTable
    <3>1. imm # 0 /\ Alive /\ bg = [on |-> bg.on, at |-> bg.at, merging |-> bg.merging, edit |-> bg.edit]
      BY <2>1 DEF BuildTable, BgInv, Alive
    <3>2. PICK f : bg'.edit = <<f>> /\ f.tables = version.tables \cup mems[imm]
      BY <2>1, <3>1 DEF BuildTable
    <3> QED
      BY <3>1, <3>2, <1>2
  <2>2. CASE ~BuildTable
    <3>1. bg'.edit \in {bg.edit, << >>}
      BY <2>2, EditStays
    <3> QED
      BY <3>1, <1>2
  <2> QED
    BY <2>1, <2>2
<1> QED
  BY <1>1, <1>3, <1>4, <1>5, <1>6

\* The immutable memtable is the one that was, or the one that was written to.
LEMMA ImmMoves ==
    ASSUME FilesInv, QuietStep \/ MovingStep, imm' # 0
    PROVE  \/ Alive /\ imm # 0 /\ imm' = imm /\ mems'[imm'] = mems[imm]
           \/ SwitchMemTable /\ imm' = logNumber /\ mems'[imm'] = mems[logNumber]
<1>0. imm # 0 => Alive
  BY DEF FilesInv, MemsInv
<1>1. CASE UNCHANGED <<mems, imm>>
  BY <1>0, <1>1
<1>2. CASE SwitchMemTable
  <2>1. /\ imm' = logNumber /\ mems' = With(mems, nextFile, {}) /\ Alive
    BY <1>2 DEF SwitchMemTable, MakingRoom, Alive
  <2>2. logNumber \in DOMAIN mems /\ logNumber # nextFile
    BY <2>1 DEF FilesInv, MemsInv, MemIsNewest
  <2>3. mems'[imm'] = mems[logNumber]
    BY <2>1, <2>2 DEF With
  <2> QED
    BY <1>2, <2>1, <2>3
<1>3. CASE InsertInto
  <2>1. /\ imm' = imm /\ mems' = [mems EXCEPT ![logNumber] = @ \cup Group]
    BY <1>3 DEF InsertInto
  <2>2. imm # 0 /\ imm \in DOMAIN mems /\ imm # logNumber
    BY <2>1 DEF FilesInv, MemsInv
  <2> QED
    BY <1>0, <2>1, <2>2
<1>4. CASE Recover \/ OpenLog
  <2>1. ~Alive /\ imm' = imm
    BY <1>4 DEF Recover, OpenLog, Alive
  <2> QED
    BY <1>0, <2>1
<1>5. ASSUME NEW kind, Down(kind) PROVE FALSE
  BY <1>5 DEF Down
<1>6. CASE CommitFlush
  BY <1>6 DEF CommitFlush
<1> QED
  BY <1>1, <1>2, <1>3, <1>4, <1>5, <1>6
  DEF MovingStep, QuietStep, AddRecord, AddRecordFails, Sync, Finish, BuildTable, WriteManifest,
      ManifestFails, Merge, OpenSaves, OpenReturns, Get, Close, GetBegin, memVars

\* A database that is open, or being opened, was so before, or is read again.
LEMMA StillOpen ==
    ASSUME QuietStep \/ MovingStep, Alive' \/ rec'.at # "none", ~Recover
    PROVE  Alive \/ rec.at # "none"
<1>1. ASSUME NEW kind \in {"exited", "rebooted"}, Down(kind) PROVE FALSE
  BY <1>1 DEF Down, Alive, NoRec
<1> QED
  BY <1>1
  DEF MovingStep, QuietStep, SwitchMemTable, MakingRoom, AddRecord, AddRecordFails, Sync, InsertInto,
      Finish, BuildTable, WriteManifest, ManifestFails, CommitFlush, Merge, OpenLog, OpenSaves,
      OpenReturns, Get, Close, GetBegin, Alive

\* A step other than Recover keeps lastSequence above what is there.
LEMMA CountedStep ==
    ASSUME QueueInv, BgInv, FilesInv, NumbersInv, Sound(Pieces), BgInv', QuietStep \/ MovingStep,
           Alive' \/ rec'.at # "none", ~Recover
    PROVE  Counted'
<1>1. Counted
  BY StillOpen DEF NumbersInv
<1>2. lastSequence \in Nat
  BY DEF FilesInv, MemsInv
<1>3. /\ \/ lastSequence' = lastSequence /\ (InFlight => InFlight' /\ Group' = Group)
         \/ Finish /\ lastSequence' = lastSequence + Cardinality(Group)
      /\ AddRecord => InFlight' /\ Group' = Group /\ ~InFlight
  BY GroupMoves
<1>4. Finish => /\ Cardinality(Group) \in Nat
                /\ \A e \in Group : e.seq <= lastSequence + Cardinality(Group)
  <2>1. Finish => Working
    BY DEF Finish, Working, Places
  <2> QED
    BY <2>1, <1>2, GroupIs
<1>5. lastSequence' \in Nat /\ \A x \in Nat : x <= lastSequence => x <= lastSequence'
  BY <1>2, <1>3, <1>4
<1>6. \A S \in Pieces : \A e \in S : e.seq \in Nat
  BY DEF Sound, Entry
<1>7. ASSUME NEW Q \in Pieces', NEW e \in Q PROVE e.seq <= lastSequence' \/ (InFlight' /\ e \in Group')
  <2>1. CASE AddRecord /\ e \in Group
    BY <1>3, <2>1
  <2>2. CASE \E S \in Pieces : e \in S
    <3>1. PICK S \in Pieces : e \in S
      BY <2>2
    <3>2. CASE e.seq <= lastSequence
      BY <1>5, <1>6, <3>1, <3>2
    <3>3. CASE InFlight /\ e \in Group
      <4>1. CASE Finish /\ lastSequence' = lastSequence + Cardinality(Group)
        BY <1>4, <3>3, <4>1
      <4> QED
        BY <1>3, <3>3, <4>1
    <3> QED
      BY <1>1, <3>1, <3>2, <3>3 DEF Counted
  <2> QED
    BY <2>1, <2>2, EntriesMove
<1>8. /\ \A e \in Tabled \cup rec.entries : e.seq \in Nat /\ e.seq <= lastSequence
      /\ imm # 0 => \A e \in mems[imm] : e.seq \in Nat /\ e.seq <= lastSequence
  <2>1. \A e \in Tabled \cup rec.entries : e.seq \in Nat
    <3>1. \A e \in Tabled \cup rec.entries : \E S \in Pieces : e \in S
      BY DEF Tabled, Pieces, Edits
    <3> QED
      BY <1>6, <3>1
  <2>2. imm # 0 => \A e \in mems[imm] : e.seq \in Nat
    <3>1. imm # 0 => mems[imm] \in Pieces
      BY PiecesAre DEF FilesInv, MemsInv
    <3> QED
      BY <1>6, <3>1
  <2> QED
    BY <1>1, <2>1, <2>2 DEF Counted
<1>9. \A e \in Tabled' \cup rec'.entries : e.seq <= lastSequence'
  BY <1>5, <1>8, TabledMoves
<1>10. ASSUME Alive, lead.at # "inserted" PROVE \A e \in mems[logNumber] : e.seq <= lastSequence'
  <2>1. mems[logNumber] \in Pieces
    BY <1>10, PiecesAre DEF FilesInv, MemsInv, MemIsNewest
  <2> QED
    BY <1>1, <1>5, <1>6, <1>10, <2>1 DEF Counted
<1>11. ASSUME imm' # 0 PROVE \A e \in mems'[imm'] : e.seq <= lastSequence'
  <2>1. CASE imm # 0 /\ mems'[imm'] = mems[imm]
    BY <1>5, <1>8, <2>1
  <2>2. CASE SwitchMemTable /\ mems'[imm'] = mems[logNumber]
    BY <1>10, <2>2 DEF SwitchMemTable, MakingRoom, Alive
  <2> QED
    BY <1>11, <2>1, <2>2, ImmMoves
<1>12. ASSUME Alive', lead'.at # "inserted" PROVE \A e \in mems'[logNumber'] : e.seq <= lastSequence'
  <2>1. CASE Alive /\ UNCHANGED <<mems, logNumber>> /\ lead.at # "inserted"
    BY <1>10, <2>1
  <2>2. CASE SwitchMemTable
    <3>1. mems' = With(mems, nextFile, {}) /\ logNumber' = nextFile
      BY <2>2 DEF SwitchMemTable
    <3>2. mems'[logNumber'] = {}
      BY <3>1 DEF With
    <3> QED
      BY <3>2
  <2>3. CASE InsertInto
    BY <1>12, <2>3 DEF InsertInto, QueueInv
  <2>4. CASE Finish \/ OpenReturns
    <3>1. UNCHANGED <<mems, logNumber>> /\ ~InFlight'
      <4>1. CASE Finish
        BY <4>1 DEF Finish, Return, InFlight, Idle
      <4>2. CASE OpenReturns
        <5>1. lead' = lead /\ UNCHANGED <<mems, logNumber>> /\ up # "running"
          BY <4>2 DEF OpenReturns, queueVars, memVars
        <5> QED
          BY <5>1 DEF QueueInv, InFlight
      <4> QED
        BY <2>4, <4>1, <4>2
    <3>2. mems[logNumber] \in Pieces'
      <4>1. logNumber \in DOMAIN mems
        <5>1. Alive \/ Recovered
          BY <2>4 DEF Finish, OpenReturns, Alive, Recovered
        <5> QED
          BY <5>1 DEF FilesInv, MemsInv, MemIsNewest
      <4> QED
        BY <3>1, <4>1 DEF Pieces
    <3> QED
      BY <1>7, <3>1, <3>2
  <2>5. CASE QuietStep
    BY <1>12, <2>1, <2>5 DEF QuietStep
  <2>6. CASE AddRecord \/ AddRecordFails \/ Sync \/ BuildTable \/ WriteManifest \/ ManifestFails
               \/ CommitFlush \/ Merge \/ Get \/ Close \/ \E k \in scope.reads : GetBegin(k)
    <3>1. Alive /\ UNCHANGED <<mems, logNumber>>
      BY <2>6 DEF AddRecord, AddRecordFails, Sync, BuildTable, WriteManifest, ManifestFails,
                  CommitFlush, Merge, Get, Close, GetBegin, Alive, memVars
    <3>2. lead.at # "inserted"
      BY <1>12, <2>6 DEF AddRecord, AddRecordFails, Sync, BuildTable, WriteManifest, ManifestFails,
                  CommitFlush, Merge, Get, Close, GetBegin, queueVars
    <3> QED
      BY <2>1, <3>1, <3>2
  <2>7. CASE OpenLog \/ OpenSaves \/ \E kind \in {"exited", "rebooted"} : Down(kind)
    <3>1. ~Alive'
      BY <2>7 DEF OpenLog, OpenSaves, Down, Alive
    <3> QED
      BY <1>12, <3>1
  <2> QED
    BY <2>2, <2>3, <2>4, <2>5, <2>6, <2>7 DEF MovingStep
<1> QED
  BY <1>7, <1>9, <1>11, <1>12 DEF Counted

\* Recover finds a lastSequence above what is there, though it only looks at the
\* last number of each record and at the manifest's.
LEMMA RecoverCounts ==
    ASSUME QueueInv, BgInv, FilesInv, NumbersInv, Sound(Pieces), BgInv', Recover
    PROVE  Counted'
<1>1. /\ ~Alive /\ ~Alive' /\ UNCHANGED <<imm, bg, version, logs, manifest, lead>>
  BY DEF Recover, Alive, bgVars, diskVars, queueVars
<1>2. PICK kept \in BOOLEAN : \E lastLog, tail, tabled : Read(kept, lastLog, tail, tabled)
  BY RecoverReads DEF NumbersInv
<1>3. PICK lastLog, tail, tabled : Read(kept, lastLog, tail, tabled)
  BY <1>2
<1> DEFINE S == {manifest.last} \cup {LastSeq(r) : r \in RecordsOf(Relevant)}
<1>4. PICK b \in Nat : \A Q \in Pieces : \A e \in Q : e.seq <= b
  BY DEF NumbersInv, Bounded
<1>5. manifest.last \in Nat /\ \A e \in manifest.tables : e.seq <= manifest.last
  BY DEF BgInv, Edit
<1>6. \A Q \in Pieces : \A e \in Q : e.seq \in Nat
  BY DEF Sound, Entry
<1>7. ASSUME NEW r \in RecordsOf(Relevant)
      PROVE  LastSeq(r) \in Nat /\ LastSeq(r) <= b /\ \A e \in r : e.seq <= LastSeq(r)
  <2>1. r # {} /\ r \in Pieces
    <3>1. PICK n \in DOMAIN logs : r \in Records(n)
      BY DEF RecordsOf, Records, Relevant
    <3> QED
      BY <3>1, <1>1 DEF FilesInv, LogsInv, Pieces
  <2>2. PICK e \in r : LastSeq(r) = e.seq /\ \A f \in r : f.seq <= e.seq
    BY <2>1 DEF NumbersInv, LastIsMax
  <2> QED
    BY <2>1, <2>2, <1>4, <1>6
<1>8. S \in SUBSET Nat /\ b + manifest.last \in Nat /\ \A x \in S : x <= b + manifest.last
  BY <1>4, <1>5, <1>7
<1>9. lastSequence' = MaxOr0(S)
  BY <1>3 DEF Read
<1>10. manifest.last \in S /\ \A r \in RecordsOf(Relevant) : LastSeq(r) \in S
  OBVIOUS
<1> HIDE DEF S
<1>11. lastSequence' \in Nat /\ \A x \in S : x <= lastSequence'
  <2>1. MaxOr0(S) \in S \cup {0} /\ \A x \in S : x <= MaxOr0(S)
    BY ONLY <1>8, MaxOr0Is
  <2>2. S \cup {0} \subseteq Nat
    BY ONLY <1>8
  <2> QED
    BY ONLY <1>9, <2>1, <2>2
<1>12. ASSUME NEW r \in RecordsOf(Relevant), NEW e \in r PROVE e.seq <= lastSequence'
  <2>1. r \in Pieces
    BY DEF Pieces
  <2>2. e.seq \in Nat /\ LastSeq(r) \in Nat /\ e.seq <= LastSeq(r) /\ LastSeq(r) <= lastSequence'
    BY <1>6, <1>7, <1>10, <1>11, <2>1
  <2> QED
    BY <2>2, <1>11
<1>13. ASSUME NEW e \in manifest.tables PROVE e.seq <= lastSequence'
  <2>1. e.seq \in Nat /\ e.seq <= manifest.last /\ manifest.last <= lastSequence'
    BY <1>5, <1>6, <1>10, <1>11, PiecesAre
  <2> QED
    BY <2>1, <1>5, <1>11
<1>14. imm' = 0 /\ version.tables = {} /\ bg.edit = << >>
  BY <1>1 DEF FilesInv, MemsInv, RecInv, BgIdle
<1>15. \A e \in tabled : \E r \in RecordsOf(Relevant) : e \in r
  BY <1>3 DEF Read, RecordsOf
<1>16. \A e \in tail : \E r \in RecordsOf(Relevant) : e \in r
  BY <1>3 DEF Read, RecordsOf, InLog, Records
<1>17. \A n \in DOMAIN mems' : mems'[n] = tail
  BY <1>3 DEF Read
<1>18. rec'.entries = tabled
  BY <1>3 DEF Read
<1>19. \A r \in RecordsOf(Relevant)' : r \in RecordsOf(Relevant)
  BY <1>1 DEF RecordsOf, Relevant
<1>20. \A Q \in Pieces' : \/ \E n \in DOMAIN mems' : Q = mems'[n]
                          \/ Q \in RecordsOf(Relevant)'
                          \/ Q = {} \/ Q = manifest.tables \/ Q = tabled
  BY <1>1, <1>14, <1>18 DEF Pieces, Edits
<1>21. \A Q \in Pieces' : \A e \in Q : e.seq <= lastSequence'
  BY <1>12, <1>13, <1>15, <1>16, <1>17, <1>19, <1>20
<1>22. \A e \in Tabled' \cup rec'.entries : e.seq <= lastSequence'
  <2>1. Tabled' = manifest.tables
    BY <1>1, <1>14 DEF Tabled, Edits
  <2> QED
    BY <2>1, <1>12, <1>13, <1>15, <1>18
<1> QED
  BY <1>1, <1>14, <1>21, <1>22 DEF Counted

\* Every step keeps the numbers right.
LEMMA NumbersStep ==
    ASSUME QueueInv, BgInv, FilesInv, NumbersInv, Sound(Pieces), BgInv', QuietStep \/ MovingStep
    PROVE  NumbersInv'
BY LastsStep, CountedStep, RecoverCounts, BoundedStep DEF NumbersInv

-----------------------------------------------------------------------------
(***************************************************************************)
(* The order                                                               *)
(***************************************************************************)

\* A log that stays the newest was the newest.
LEMMA NewestStays ==
    ASSUME FilesInv, FilesInv', QuietStep \/ MovingStep,
           NEW n \in DOMAIN logs, n \in DOMAIN logs', \A m \in DOMAIN logs' : m <= n
    PROVE  \A m \in DOMAIN logs : m <= n
<1>1. CASE CommitFlush \/ OpenReturns
  <2>1. /\ Alive \/ Recovered
        /\ logNumber' = logNumber
    BY <1>1 DEF CommitFlush, OpenReturns, Alive, Recovered, memVars
  <2>2. Alive'
    BY <1>1 DEF CommitFlush, OpenReturns, Alive, lifeVars
  <2>3. /\ logNumber \in Nat /\ \A m \in DOMAIN logs : m \in Nat /\ m <= logNumber
    BY <2>1 DEF FilesInv, LogsInv, MemsInv, MemIsNewest
  <2>4. logNumber \in DOMAIN logs'
    BY <2>1, <2>2 DEF FilesInv, MemsInv, MemIsNewest
  <2> QED
    BY <2>3, <2>4
<1>2. CASE DOMAIN logs \subseteq DOMAIN logs'
  BY <1>2
<1>3. ASSUME NEW kind, logs' \in LogsLeft(kind) PROVE DOMAIN logs' = DOMAIN logs
  BY <1>3, LogsLeftAre
<1>4. CASE AddRecord \/ AddRecordFails \/ Sync
  <2>1. DOMAIN logs' = DOMAIN logs
    BY <1>4 DEF AddRecord, AddRecordFails, Sync, SyncLog
  <2> QED
    BY <1>2, <2>1
<1>5. CASE SwitchMemTable \/ (OpenLog /\ ~rec.reuse)
  <2>1. logs' = With(logs, nextFile, EmptyLog)
    BY <1>5 DEF SwitchMemTable, OpenLog
  <2>2. DOMAIN logs \subseteq DOMAIN logs'
    BY <2>1 DEF With
  <2> QED
    BY <1>2, <2>2
<1>6. CASE UNCHANGED logs
  BY <1>2, <1>6
<1> QED
  BY <1>1, <1>2, <1>3, <1>4, <1>5, <1>6
  DEF MovingStep, QuietStep, InsertInto, Finish, BuildTable, WriteManifest, ManifestFails, Merge,
      Recover, OpenLog, OpenSaves, Get, Close, GetBegin, diskVars

\* What is in a log that counts was in it, or is the group's.
LEMMA LogEntries ==
    ASSUME QueueInv, BgInv, FilesInv, BgInv', QuietStep \/ MovingStep,
           NEW n \in Relevant', NEW e \in InLog(n)'
    PROVE  \/ n \in Relevant /\ e \in InLog(n)
           \/ AddRecord /\ n = logNumber /\ e \in Group
<1>1. PICK r \in ToSet(logs'[n].recs) : e \in r
  BY DEF InLog, Records
<1> QED
  BY <1>1, LogsMove DEF RecordsStay, InLog

\* The entries of a log that counts, and their numbers.
LEMMA LogNumbersAre ==
    ASSUME NumbersInv, Sound(Pieces), NEW n \in Relevant, NEW e \in InLog(n)
    PROVE  /\ e.seq \in Nat
           /\ Alive => e.seq <= lastSequence \/ InFlight
<1>1. PICK r \in Pieces : e \in r
  BY PiecesAre DEF InLog
<1> QED
  BY <1>1 DEF Sound, Entry, NumbersInv, Counted

\* The group comes after all that is there.
LEMMA GroupIsLast ==
    ASSUME QueueInv, FilesInv, AddRecord
    PROVE  /\ Alive /\ ~InFlight /\ lastSequence \in Nat
           /\ \A f \in Group : f.seq \in Nat /\ lastSequence < f.seq
           /\ \A m \in DOMAIN logs' : m \in DOMAIN logs /\ m \in Nat /\ m <= logNumber
<1>1. Alive /\ Working /\ ~InFlight /\ lastSequence \in Nat
  BY DEF AddRecord, Alive, Working, Places, InFlight, FilesInv, MemsInv
<1>2. \A f \in Group : f.seq \in Nat /\ lastSequence < f.seq
  BY <1>1, GroupIs DEF Entry
<1>3. DOMAIN logs' = DOMAIN logs
  BY DEF AddRecord
<1> QED
  BY <1>1, <1>2, <1>3 DEF FilesInv, LogsInv, MemsInv, MemIsNewest

\* The entries of a log come before those of the next.
LEMMA LogsInOrder ==
    ASSUME QueueInv, BgInv, FilesInv, NumbersInv, Sound(Pieces), OrderInv, BgInv',
           QuietStep \/ MovingStep, NEW m \in Relevant', NEW n \in Relevant', m < n
    PROVE  Precedes(InLog(m), InLog(n))'
<1> SUFFICES ASSUME NEW e \in InLog(m)', NEW f \in InLog(n)' PROVE e.seq < f.seq
  BY DEF Precedes
<1>1. \/ m \in Relevant /\ e \in InLog(m)
      \/ AddRecord /\ m = logNumber /\ e \in Group
  BY LogEntries
<1>2. \/ n \in Relevant /\ f \in InLog(n)
      \/ AddRecord /\ n = logNumber /\ f \in Group
  BY LogEntries
<1>3. CASE AddRecord /\ m = logNumber
  <2>1. n \in DOMAIN logs'
    BY DEF Relevant
  <2>2. n \in Nat /\ n <= logNumber /\ logNumber \in Nat
    BY <1>3, <2>1, GroupIsLast DEF FilesInv, MemsInv
  <2> QED
    BY <1>3, <2>2
<1>4. CASE m \in Relevant /\ e \in InLog(m) /\ AddRecord /\ f \in Group
  <2>1. Alive /\ ~InFlight /\ lastSequence \in Nat /\ f.seq \in Nat /\ lastSequence < f.seq
    BY <1>4, GroupIsLast
  <2>2. e.seq \in Nat /\ e.seq <= lastSequence
    BY <1>4, <2>1, LogNumbersAre
  <2> QED
    BY <2>1, <2>2
<1>5. CASE m \in Relevant /\ e \in InLog(m) /\ n \in Relevant /\ f \in InLog(n)
  BY <1>5 DEF OrderInv, Precedes
<1> QED
  BY <1>1, <1>2, <1>3, <1>4, <1>5

\* What is in tables comes before what is in the newest log.
LEMMA TabledInOrder ==
    ASSUME QueueInv, BgInv, FilesInv, NumbersInv, Sound(Pieces), OrderInv, BgInv', FilesInv',
           QuietStep \/ MovingStep, ~Recover,
           NEW n \in DOMAIN logs', \A m \in DOMAIN logs' : m <= n
    PROVE  /\ Precedes(Tabled, InLog(n))'
           /\ Alive' \/ Recovered' => Precedes(rec.entries, InLog(n))'
<1>1. n \in Relevant'
  <2>1. \A m \in DOMAIN logs' : m \in Nat
    BY DEF FilesInv, LogsInv
  <2>2. /\ manifest'.log \in DOMAIN logs'
        /\ Alive' => version'.log \in DOMAIN logs'
    BY DEF FilesInv, LogsInv
  <2> QED
    BY <2>1, <2>2 DEF Relevant
<1>2. /\ \A e \in Tabled' : \/ e \in Tabled
                            \/ OpenSaves /\ e \in rec.entries
                            \/ imm # 0 /\ e \in mems[imm] /\ Alive
      /\ \A e \in rec'.entries : e \in rec.entries
  BY TabledMoves
<1>3. CASE AddRecord
  <2>1. /\ Alive /\ ~InFlight /\ lastSequence \in Nat
        /\ \A f \in Group : f.seq \in Nat /\ lastSequence < f.seq
    BY <1>3, GroupIsLast
  <2>2. /\ rec' = rec /\ rec.entries = {} /\ Tabled' = Tabled
    BY <1>3, <2>1 DEF AddRecord, lifeVars, bgVars, FilesInv, RecInv, NoRec, Tabled, Edits
  <2>3. \A e \in Tabled : e.seq \in Nat /\ e.seq <= lastSequence
    <3>1. \A e \in Tabled : \E S \in Pieces : e \in S
      BY DEF Tabled, Pieces, Edits
    <3> QED
      BY <3>1, <2>1 DEF Sound, Entry, NumbersInv, Counted
  <2>4. n \in DOMAIN logs /\ \A m \in DOMAIN logs : m <= n
    <3>1. DOMAIN logs' = DOMAIN logs
      BY <1>3 DEF AddRecord
    <3> QED
      BY <3>1
  <2>5. ASSUME NEW e \in Tabled, NEW f \in InLog(n)' PROVE e.seq < f.seq
    <3>1. CASE f \in Group
      BY <2>1, <2>3, <3>1
    <3>2. CASE f \in InLog(n)
      BY <2>4, <3>2 DEF OrderInv, Precedes
    <3> QED
      BY <1>1, <3>1, <3>2, LogEntries
  <2> QED
    BY <2>2, <2>5 DEF Precedes
<1>4. CASE ~AddRecord
  <2>1. ASSUME NEW f \in InLog(n)' PROVE n \in Relevant /\ f \in InLog(n)
    BY <1>1, <1>4, LogEntries
  <2>2. ASSUME n \in Relevant
        PROVE  /\ \A m \in DOMAIN logs : m <= n
               /\ Precedes(Tabled, InLog(n)) /\ (Recovered => Precedes(rec.entries, InLog(n)))
    <3>1. n \in DOMAIN logs
      BY <2>2 DEF Relevant
    <3>2. \A m \in DOMAIN logs : m <= n
      BY <3>1, NewestStays
    <3> QED
      BY <3>1, <3>2 DEF OrderInv
  <2>3. ASSUME n \in Relevant, imm # 0, Alive PROVE Precedes(mems[imm], InLog(n))
    <3>1. /\ imm \in DOMAIN logs /\ version.log <= imm /\ imm < logNumber
          /\ mems[imm] \subseteq InLog(imm) /\ logNumber \in DOMAIN logs
      BY <2>3 DEF FilesInv, MemsInv, MemIsNewest
    <3>2. imm \in Relevant
      BY <2>3, <3>1, <2>3 DEF Relevant, FilesInv, LogsInv, BgInv, Version
    <3>3. imm < n
      <4>1. imm \in Nat /\ logNumber \in Nat /\ n \in Nat /\ logNumber <= n
        BY <2>2, <2>3, <3>1 DEF Relevant, FilesInv, LogsInv, MemsInv
      <4> QED
        BY <3>1, <4>1
    <3> QED
      BY <2>3, <3>1, <3>2, <3>3 DEF OrderInv, Precedes
  <2>4. ASSUME NEW e \in Tabled', NEW f \in InLog(n)' PROVE e.seq < f.seq
    <3>1. n \in Relevant /\ f \in InLog(n)
      BY <2>1
    <3>2. CASE e \in Tabled
      BY <2>2, <3>1, <3>2 DEF Precedes
    <3>3. CASE OpenSaves /\ e \in rec.entries
      BY <2>2, <3>1, <3>3 DEF Precedes, OpenSaves, Recovered
    <3>4. CASE imm # 0 /\ e \in mems[imm] /\ Alive
      BY <2>3, <3>1, <3>4 DEF Precedes
    <3> QED
      BY <1>2, <3>2, <3>3, <3>4
  <2>5. ASSUME Alive' \/ Recovered', NEW e \in rec'.entries, NEW f \in InLog(n)' PROVE e.seq < f.seq
    <3>1. n \in Relevant /\ f \in InLog(n)
      BY <2>1
    <3>2. CASE Alive'
      BY <3>2 DEF FilesInv, RecInv, NoRec
    <3>3. CASE Recovered
      BY <1>2, <2>2, <3>1, <3>3 DEF Precedes
    <3>4. CASE ~Alive' /\ Recovered' /\ ~Recovered
      <4>1. OpenLog /\ ~rec.reuse
        <5>1. CASE UNCHANGED <<rec>>
          BY <3>4, <5>1 DEF Recovered
        <5>2. CASE OpenLog
          <6>1. rec.at = "replayed"
            BY <5>2 DEF OpenLog
          <6> QED
            BY <3>4, <5>2, <6>1 DEF Recovered
        <5>3. CASE OpenSaves
          BY <3>4, <5>3 DEF OpenSaves, Recovered
        <5>4. CASE OpenReturns \/ \E kind \in {"exited", "rebooted"} : Down(kind)
          <6>1. rec' = NoRec
            BY <5>4 DEF OpenReturns, Down
          <6> QED
            BY <3>4, <6>1 DEF Recovered, NoRec
        <5> QED
          BY <5>1, <5>2, <5>3, <5>4
          DEF QuietStep, MovingStep, SwitchMemTable, AddRecord, AddRecordFails, Sync, InsertInto, Finish,
              BuildTable, WriteManifest, ManifestFails, CommitFlush, Merge, Get, Close, GetBegin,
              lifeVars
      <4>2. nextFile \in DOMAIN logs' /\ nextFile \in Nat
        BY <4>1 DEF OpenLog, With, FilesInv, MemsInv
      <4>3. n \in DOMAIN logs /\ n < nextFile /\ n \in Nat
        BY <3>1, <4>1 DEF Relevant, OpenLog, FilesInv, LogsInv
      <4>4. nextFile <= n
        BY <4>2
      <4> QED
        BY <4>2, <4>3, <4>4
    <3> QED
      BY <2>5, <3>2, <3>3, <3>4
  <2> QED
    BY <2>4, <2>5 DEF Precedes
<1> QED
  BY <1>3, <1>4

\* What a recovery will put in a table comes before what it keeps in a log.
LEMMA RecoverInOrder ==
    ASSUME BgInv, FilesInv, NumbersInv, OrderInv, Recover,
           NEW n \in DOMAIN logs', \A m \in DOMAIN logs' : m <= n
    PROVE  /\ Precedes(Tabled, InLog(n))'
           /\ Alive' \/ Recovered' => Precedes(rec.entries, InLog(n))'
<1>1. ~Alive /\ ~Alive' /\ UNCHANGED <<bg, version, logs, manifest>>
  BY DEF Recover, Alive, bgVars, diskVars
<1>2. PICK kept \in BOOLEAN : \E lastLog, tail, tabled : Read(kept, lastLog, tail, tabled)
  BY RecoverReads DEF NumbersInv
<1>3. PICK lastLog, tail, tabled : Read(kept, lastLog, tail, tabled)
  BY <1>2
<1>4. Tabled' = Tabled /\ InLog(n)' = InLog(n) /\ n \in DOMAIN logs /\ \A m \in DOMAIN logs : m <= n
  BY <1>1 DEF Tabled, Edits, InLog, Records
<1>5. Precedes(Tabled, InLog(n))'
  BY <1>4 DEF OrderInv, Precedes
<1>6. Recovered' => kept
  BY <1>3 DEF Read, Recovered
<1>7. n = lastLog
  <2>1. n \in Nat /\ lastLog \in Nat /\ lastLog \in DOMAIN logs
    BY <1>3, <1>4 DEF Read, Relevant, FilesInv, LogsInv
  <2> QED
    BY <1>3, <1>4, <2>1 DEF Read
<1>8. ASSUME kept, NEW e \in rec'.entries, NEW f \in InLog(n) PROVE e.seq < f.seq
  <2>1. rec'.entries = UNION RecordsOf(Relevant \ {lastLog})
    BY <1>3, <1>8 DEF Read
  <2>2. PICK m \in Relevant \ {lastLog} : e \in InLog(m)
    BY <2>1 DEF RecordsOf, InLog, Records
  <2>3. m < n
    <3>1. m \in Nat /\ n \in Nat /\ m <= n
      BY <1>4, <2>2 DEF Relevant, FilesInv, LogsInv
    <3> QED
      BY <1>7, <2>2, <3>1
  <2> QED
    BY <1>3, <1>7, <2>2, <2>3 DEF OrderInv, Precedes, Read
<1> QED
  BY <1>1, <1>4, <1>5, <1>6, <1>8 DEF Precedes

\* What is in tables comes before what is in the immutable memtable.
LEMMA ImmInOrder ==
    ASSUME BgInv, FilesInv, OrderInv, QuietStep \/ MovingStep, imm' # 0
    PROVE  Precedes(version.tables, mems[imm])'
<1>1. CASE Alive /\ imm # 0 /\ mems'[imm'] = mems[imm]
  <2>1. version'.tables = version.tables
    <3>1. CASE Merge
      BY <3>1 DEF Merge, BgInv, Version
    <3>2. ~CommitFlush /\ ~OpenReturns /\ ~Recover /\ ~OpenLog /\ ~OpenSaves
      BY <1>1 DEF CommitFlush, OpenReturns, Recover, OpenLog, OpenSaves, Alive
    <3>3. ASSUME NEW kind, Down(kind) PROVE FALSE
      BY <3>3 DEF Down
    <3> QED
      BY <3>1, <3>2, <3>3
      DEF MovingStep, QuietStep, SwitchMemTable, AddRecord, AddRecordFails, Sync, InsertInto, Finish,
          BuildTable, WriteManifest, ManifestFails, Get, Close, GetBegin, bgVars
  <2> QED
    BY <1>1, <2>1 DEF OrderInv, Precedes
<1>2. CASE SwitchMemTable /\ mems'[imm'] = mems[logNumber]
  <2>1. Alive /\ version' = version
    BY <1>2 DEF SwitchMemTable, MakingRoom, Alive
  <2>2. /\ logNumber \in DOMAIN logs /\ \A m \in DOMAIN logs : m <= logNumber
        /\ mems[logNumber] \subseteq InLog(logNumber)
    BY <2>1 DEF FilesInv, MemsInv, MemIsNewest
  <2>3. Precedes(Tabled, InLog(logNumber))
    BY <2>2 DEF OrderInv
  <2>4. version.tables \subseteq Tabled
    BY DEF Tabled
  <2> QED
    BY <1>2, <2>1, <2>2, <2>3, <2>4 DEF Precedes
<1> QED
  BY <1>1, <1>2, ImmMoves

\* Every step keeps the order.
LEMMA OrderStep ==
    ASSUME QueueInv, BgInv, FilesInv, NumbersInv, Sound(Pieces), OrderInv, BgInv', FilesInv',
           QuietStep \/ MovingStep
    PROVE  OrderInv'
<1>1. \A m, n \in Relevant' : m < n => Precedes(InLog(m), InLog(n))'
  BY LogsInOrder
<1>2. \A n \in DOMAIN logs' : (\A m \in DOMAIN logs' : m <= n) =>
        /\ Precedes(Tabled, InLog(n))'
        /\ Alive' \/ Recovered' => Precedes(rec.entries, InLog(n))'
  BY TabledInOrder, RecoverInOrder
<1>3. imm' # 0 => Precedes(version.tables, mems[imm])'
  BY ImmInOrder
<1> QED
  BY <1>1, <1>2, <1>3 DEF OrderInv

-----------------------------------------------------------------------------
(***************************************************************************)
(* The reader                                                              *)
(***************************************************************************)

\* A reader's view stays if what is in memory as of its snapshot stays.
LEMMA ReaderStays ==
    ASSUME NEW r, ReaderIsRight(r), lastSequence \in Nat, lastSequence' \in Nat,
           lastSequence <= lastSequence', r.mem \in DOMAIN mems',
           \A e : e.seq <= r.snap => (e \in mems'[r.mem] <=> e \in mems[r.mem]),
           Precedes(Older(r), mems'[r.mem]),
           r.imm # 0 => /\ r.imm \in DOMAIN mems' /\ r.imm # logNumber'
                        /\ mems'[r.imm] = mems[r.imm],
           \A e : e.seq <= r.snap => (e \in InMemory' <=> e \in InMemory)
    PROVE  ReaderIsRight(r)'
<1>1. /\ r = [key |-> r.key, snap |-> r.snap, mem |-> r.mem, imm |-> r.imm,
              tables |-> r.tables, got |-> r.got, done |-> r.done]
      /\ r.snap \in Nat /\ r.snap <= lastSequence
      /\ r.imm \in (DOMAIN mems \cup {0}) \ {r.mem}
      /\ \A e \in ViewOf(r) : e.seq <= r.snap => e \in InMemory
      /\ \A e \in InMemory : e.seq <= r.snap => e \in ViewOf(r)
      /\ \A e \in Older(r) : e.seq <= r.snap
      /\ r.imm # 0 => Precedes(r.tables, mems[r.imm])
      /\ r.done => r.got = Newest(InMemory, r.key, r.snap)
  BY DEF ReaderIsRight
<1>2. Older(r)' = Older(r)
  BY DEF Older
<1>3. r.snap <= lastSequence'
  BY <1>1
<1>4. \A e : e.seq <= r.snap => (e \in ViewOf(r)' <=> e \in ViewOf(r))
  BY <1>2 DEF ViewOf
<1>5. Hits(InMemory', r.key, r.snap) = Hits(InMemory, r.key, r.snap)
  BY DEF Hits
<1>6. Newest(InMemory', r.key, r.snap) = Newest(InMemory, r.key, r.snap)
  BY <1>5, NewestHits
<1>7. Precedes(Older(r)', mems'[r.mem])
  BY <1>2
<1>8. r.imm # 0 => Precedes(r.tables, mems'[r.imm])
  BY <1>1
<1>9. r.imm \in (DOMAIN mems' \cup {0}) \ {r.mem}
  BY <1>1
<1>10. \A e \in ViewOf(r)' : e.seq <= r.snap => e \in InMemory'
  BY <1>1, <1>4
<1>11. \A e \in InMemory' : e.seq <= r.snap => e \in ViewOf(r)'
  BY <1>1, <1>4
<1>12. \A e \in Older(r)' : e.seq <= r.snap
  BY <1>1, <1>2
<1>13. r.done => r.got = Newest(InMemory', r.key, r.snap)
  BY <1>1, <1>6
<1> QED
  BY <1>1, <1>3, <1>7, <1>8, <1>9, <1>10, <1>11, <1>12, <1>13 DEF ReaderIsRight, Precedes

\* What a Get that begins takes under the mutex.
LEMMA BeginsRight ==
    ASSUME BgInv, FilesInv, NumbersInv, OrderInv, Alive, NEW k, NEW r,
           r = [key |-> k, snap |-> lastSequence, mem |-> logNumber, imm |-> imm,
                tables |-> version.tables, got |-> << >>, done |-> FALSE]
    PROVE  ReaderIsRight(r)
<1>1. /\ lastSequence \in Nat /\ logNumber \in Nat /\ imm \in Nat
      /\ logNumber \in DOMAIN logs /\ logNumber \in DOMAIN mems
      /\ \A n \in DOMAIN logs : n \in Nat /\ n <= logNumber
      /\ \A n \in DOMAIN mems : n # 0
      /\ mems[logNumber] \subseteq InLog(logNumber)
  BY DEF FilesInv, LogsInv, MemsInv, MemIsNewest
<1>2. imm # 0 => /\ imm \in DOMAIN mems \cap DOMAIN logs /\ version.log <= imm
                 /\ imm < logNumber /\ mems[imm] \subseteq InLog(imm)
  BY DEF FilesInv, MemsInv
<1>3. r.key = k /\ r.snap = lastSequence /\ r.mem = logNumber /\ r.imm = imm
      /\ r.tables = version.tables /\ r.done = FALSE
  OBVIOUS
<1>4. r = [key |-> r.key, snap |-> r.snap, mem |-> r.mem, imm |-> r.imm,
           tables |-> r.tables, got |-> r.got, done |-> r.done]
  OBVIOUS
<1>5. version.tables \subseteq Tabled
  BY DEF Tabled
<1>6. ViewOf(r) = InMemory
  BY <1>3 DEF ViewOf, Older, InMemory
<1>7. \A e \in Older(r) : e.seq <= r.snap
  BY <1>3, <1>5 DEF Older, NumbersInv, Counted
<1>8. Precedes(version.tables, mems[logNumber])
  BY <1>1, <1>5 DEF OrderInv, Precedes
<1>9. imm # 0 => Precedes(mems[imm], mems[logNumber])
  <2> SUFFICES ASSUME imm # 0 PROVE Precedes(mems[imm], mems[logNumber])
    OBVIOUS
  <2>1. version.log \in Nat /\ version.log <= logNumber
    BY <1>1 DEF FilesInv, LogsInv, BgInv, Version
  <2>2. imm \in Relevant /\ logNumber \in Relevant
    BY <1>1, <1>2, <2>1 DEF Relevant
  <2>3. Precedes(InLog(imm), InLog(logNumber))
    BY <1>2, <2>2 DEF OrderInv
  <2> QED
    BY <1>1, <1>2, <2>3 DEF Precedes
<1>10. Precedes(Older(r), mems[r.mem])
  BY <1>3, <1>8, <1>9 DEF Older, Precedes
<1>11. r.imm # 0 => Precedes(r.tables, mems[r.imm]) /\ r.imm # logNumber
  BY <1>1, <1>2, <1>3 DEF OrderInv
<1>12. r.imm \in (DOMAIN mems \cup {0}) \ {r.mem}
  BY <1>1, <1>2, <1>3
<1>13. r.snap \in Nat /\ r.snap <= lastSequence /\ r.mem \in DOMAIN mems
  BY <1>1, <1>3
<1>14. /\ \A e \in ViewOf(r) : e.seq <= r.snap => e \in InMemory
       /\ \A e \in InMemory : e.seq <= r.snap => e \in ViewOf(r)
  BY <1>6
<1>15. r.done => r.got = Newest(InMemory, r.key, r.snap)
  BY <1>3
<1> QED
  BY ONLY <1>4, <1>7, <1>10, <1>11, <1>12, <1>13, <1>14, <1>15 DEF ReaderIsRight

\* A step that leaves the reader alone.
LEMMA ReaderKeeps ==
    ASSUME QueueInv, BgInv, FilesInv, FilesInv', Sound(Pieces), NEW r, ReaderIsRight(r), Alive,
           \/ QuietStep \/ AddRecord \/ AddRecordFails \/ Sync \/ BuildTable \/ WriteManifest
           \/ ManifestFails \/ Merge \/ Finish \/ SwitchMemTable \/ InsertInto \/ CommitFlush
    PROVE  ReaderIsRight(r)'
<1>1. lastSequence \in Nat /\ lastSequence' \in Nat /\ logNumber \in DOMAIN mems /\ MemIsNewest
  BY DEF FilesInv, MemsInv, MemIsNewest
<1>2. /\ r.mem \in DOMAIN mems /\ r.imm \in (DOMAIN mems \cup {0}) \ {r.mem}
      /\ r.imm # 0 => r.imm # logNumber
      /\ Precedes(Older(r), mems[r.mem]) /\ r.snap \in Nat /\ r.snap <= lastSequence
      /\ \A e \in Older(r) : e.seq <= r.snap
  BY DEF ReaderIsRight
<1>3. CASE /\ UNCHANGED <<mems, logNumber>> /\ InMemory' = InMemory
           /\ lastSequence <= lastSequence'
  <2>1. \A e : e.seq <= r.snap => (e \in InMemory' <=> e \in InMemory)
    BY <1>3
  <2>2. \A e : e.seq <= r.snap => (e \in mems'[r.mem] <=> e \in mems[r.mem])
    BY <1>3
  <2>3. /\ r.mem \in DOMAIN mems' /\ Precedes(Older(r), mems'[r.mem])
        /\ r.imm # 0 => /\ r.imm \in DOMAIN mems' /\ r.imm # logNumber'
                        /\ mems'[r.imm] = mems[r.imm]
    BY <1>2, <1>3
  <2>4. lastSequence <= lastSequence'
    BY <1>3
  <2> QED
    BY <1>1, <2>1, <2>2, <2>3, <2>4, ReaderStays
<1>4. CASE QuietStep \/ AddRecord \/ AddRecordFails \/ Sync \/ BuildTable \/ WriteManifest
           \/ ManifestFails \/ Merge
  <2>1. UNCHANGED <<mems, logNumber, imm, lastSequence>>
    BY <1>4 DEF QuietStep, AddRecord, AddRecordFails, Sync, BuildTable, WriteManifest, ManifestFails,
                Merge, memVars
  <2>2. version'.tables = version.tables
    <3>1. CASE Merge
      BY <3>1 DEF Merge, BgInv, Version
    <3> QED
      BY <1>4, <3>1 DEF QuietStep, AddRecord, AddRecordFails, Sync, BuildTable, WriteManifest,
                        ManifestFails, bgVars
  <2>3. InMemory' = InMemory /\ lastSequence <= lastSequence'
    BY <1>1, <2>1, <2>2 DEF InMemory
  <2> QED
    BY <1>3, <2>1, <2>3
<1>5. CASE Finish
  <2>1. UNCHANGED <<mems, logNumber, imm, version>> /\ lastSequence' = lastSequence + Cardinality(Group)
    BY <1>5 DEF Finish, Count
  <2>2. Cardinality(Group) \in Nat
    BY <1>1, <1>5, GroupIs DEF Finish, Working, Places
  <2>3. InMemory' = InMemory /\ lastSequence <= lastSequence'
    BY <1>1, <2>1, <2>2 DEF InMemory
  <2> QED
    BY <1>3, <2>1, <2>3
<1>6. CASE CommitFlush
  <2>1. /\ UNCHANGED <<mems, logNumber, lastSequence>> /\ imm' = 0 /\ imm # 0
        /\ version'.tables = version.tables \cup mems[imm]
    BY <1>6 DEF CommitFlush, BgInv, EditIsRight
  <2>2. InMemory' = InMemory /\ lastSequence <= lastSequence'
    BY <1>1, <2>1 DEF InMemory
  <2> QED
    BY <1>3, <2>1, <2>2
<1>7. CASE SwitchMemTable
  <2>1. /\ imm = 0 /\ imm' = logNumber /\ logNumber' = nextFile /\ UNCHANGED <<version, lastSequence>>
        /\ mems' = With(mems, nextFile, {})
    BY <1>7 DEF SwitchMemTable, MustWait
  <2>2. /\ nextFile \notin DOMAIN mems /\ logNumber # 0 /\ nextFile # 0
    BY <1>1 DEF FilesInv, MemsInv, MemIsNewest
  <2>3. /\ DOMAIN mems' = DOMAIN mems \cup {nextFile} /\ mems'[nextFile] = {}
        /\ \A n \in DOMAIN mems : mems'[n] = mems[n]
    BY <2>1, <2>2 DEF With
  <2>4. InMemory' = InMemory
    BY <1>1, <2>1, <2>2, <2>3 DEF InMemory
  <2>5. /\ r.mem \in DOMAIN mems' /\ mems'[r.mem] = mems[r.mem]
        /\ r.imm # 0 => /\ r.imm \in DOMAIN mems' /\ r.imm # logNumber'
                        /\ mems'[r.imm] = mems[r.imm]
    BY <1>2, <2>1, <2>2, <2>3
  <2>6. lastSequence <= lastSequence'
    BY <1>1, <2>1
  <2>7. /\ \A e : e.seq <= r.snap => (e \in InMemory' <=> e \in InMemory)
        /\ \A e : e.seq <= r.snap => (e \in mems'[r.mem] <=> e \in mems[r.mem])
        /\ Precedes(Older(r), mems'[r.mem])
    BY <1>2, <2>4, <2>5
  <2> QED
    BY <1>1, <2>5, <2>6, <2>7, ReaderStays
<1>8. CASE InsertInto
  <2>1. /\ UNCHANGED <<imm, logNumber, version, lastSequence>> /\ Working
        /\ mems' = [mems EXCEPT ![logNumber] = @ \cup Group]
    BY <1>8 DEF InsertInto, bgVars, Working, Places
  <2>2. /\ DOMAIN mems' = DOMAIN mems /\ mems'[logNumber] = mems[logNumber] \cup Group
        /\ \A n \in DOMAIN mems : n # logNumber => mems'[n] = mems[n]
    BY <1>1, <2>1
  <2>3. \A f \in Group : f.seq \in Nat /\ lastSequence < f.seq
    BY <1>1, <2>1, GroupIs DEF Entry
  <2>4. \A f \in Group : ~(f.seq <= r.snap)
    BY <1>1, <1>2, <2>3
  <2>5. imm # 0 => imm \in DOMAIN mems /\ imm # logNumber
    BY DEF FilesInv, MemsInv
  <2>6. \A e : e.seq <= r.snap => (e \in InMemory' <=> e \in InMemory)
    BY <2>1, <2>2, <2>4, <2>5 DEF InMemory
  <2>7. \A e : e.seq <= r.snap => (e \in mems'[r.mem] <=> e \in mems[r.mem])
    BY <1>2, <2>2, <2>4
  <2>8. \A e \in Older(r) : e.seq \in Nat
    <3>1. \A e \in Older(r) : e \in InMemory
      BY <1>2 DEF ReaderIsRight, ViewOf
    <3> QED
      BY <3>1, InMemoryIsSound DEF Entry
  <2>9. Precedes(Older(r), mems'[r.mem])
    BY <1>1, <1>2, <2>2, <2>3, <2>8 DEF Precedes
  <2>10. /\ r.mem \in DOMAIN mems' /\ lastSequence <= lastSequence'
         /\ r.imm # 0 => /\ r.imm \in DOMAIN mems' /\ r.imm # logNumber'
                         /\ mems'[r.imm] = mems[r.imm]
    BY <1>1, <1>2, <2>1, <2>2
  <2> QED
    BY <1>1, <2>6, <2>7, <2>9, <2>10, ReaderStays
<1> QED
  BY <1>4, <1>5, <1>6, <1>7, <1>8

\* Every step keeps the view of a Get right.
LEMMA ReaderStep ==
    ASSUME QueueInv, BgInv, FilesInv, FilesInv', NumbersInv, Sound(Pieces), OrderInv, ReaderInv,
           QuietStep \/ MovingStep
    PROVE  ReaderInv'
<1>1. CASE reader' = << >>
  BY <1>1 DEF ReaderInv
<1>2. CASE UNCHANGED reader /\ ~Alive
  BY <1>1, <1>2 DEF FilesInv, RecInv
<1>3. CASE /\ Alive /\ UNCHANGED reader
           /\ \/ QuietStep \/ AddRecord \/ AddRecordFails \/ Sync \/ BuildTable \/ WriteManifest
              \/ ManifestFails \/ Merge \/ Finish \/ SwitchMemTable \/ InsertInto \/ CommitFlush
  <2>1. ASSUME NEW i \in DOMAIN reader PROVE ReaderIsRight(reader[i])'
    <3>1. \A r : ReaderIsRight(r) => ReaderIsRight(r)'
      BY <1>3, ReaderKeeps
    <3>2. ReaderIsRight(reader[i])
      BY DEF ReaderInv
    <3>3. reader'[i] = reader[i]
      BY <1>3
    <3> QED
      BY <3>1, <3>2, <3>3 DEF ReaderIsRight
  <2> QED
    BY <1>3, <2>1 DEF ReaderInv
<1>4. ASSUME NEW k, GetBegin(k) PROVE ReaderInv'
  <2>1. PICK r : /\ reader' = <<r>>
                 /\ r = [key |-> k, snap |-> lastSequence, mem |-> logNumber, imm |-> imm,
                         tables |-> version.tables, got |-> << >>, done |-> FALSE]
    BY <1>4 DEF GetBegin
  <2>2. Alive /\ UNCHANGED <<mems, logNumber, imm, lastSequence, version>>
    BY <1>4 DEF GetBegin, Alive, memVars, bgVars
  <2>3. ReaderIsRight(r)
    BY <2>1, <2>2, BeginsRight
  <2>4. ReaderIsRight(r)'
    BY <2>2, <2>3 DEF ReaderIsRight, ViewOf, Older, InMemory
  <2>5. reader' = <<reader'[1]>> /\ DOMAIN reader' = {1} /\ reader'[1] = r
    BY <2>1
  <2> QED
    BY <2>4, <2>5 DEF ReaderInv, ReaderIsRight
<1>5. CASE Get
  <2>1. /\ reader = <<reader[1]>> /\ ReaderIsRight(reader[1]) /\ Alive
        /\ reader' = <<[reader[1] EXCEPT !.got = Got(reader[1]), !.done = TRUE]>>
        /\ UNCHANGED <<mems, logNumber, imm, lastSequence, version>>
    BY <1>5 DEF Get, ReaderInv, Alive, memVars, bgVars
  <2>2. Got(reader[1]) = Newest(InMemory, reader[1].key, reader[1].snap)
    BY <2>1, GotIsNewest
  <2>3. PICK r : r = [reader[1] EXCEPT !.got = Got(reader[1]), !.done = TRUE]
    OBVIOUS
  <2>4. /\ r.key = reader[1].key /\ r.snap = reader[1].snap /\ r.mem = reader[1].mem
        /\ r.imm = reader[1].imm /\ r.tables = reader[1].tables /\ r.got = Got(reader[1])
        /\ r = [key |-> r.key, snap |-> r.snap, mem |-> r.mem, imm |-> r.imm,
                tables |-> r.tables, got |-> r.got, done |-> r.done]
    BY <2>1, <2>3 DEF ReaderIsRight
  <2>5. Older(r) = Older(reader[1]) /\ ViewOf(r) = ViewOf(reader[1])
    BY <2>4 DEF ViewOf, Older
  <2>6. ReaderIsRight(r)
    BY <2>1, <2>2, <2>4, <2>5 DEF ReaderIsRight
  <2>7. ReaderIsRight(r)'
    BY <2>1, <2>6 DEF ReaderIsRight, ViewOf, Older, InMemory
  <2>8. reader' = <<reader'[1]>> /\ DOMAIN reader' = {1} /\ reader'[1] = r
    BY <2>1, <2>3
  <2> QED
    BY <2>7, <2>8 DEF ReaderInv, ReaderIsRight
<1>6. CASE Close \/ \E kind \in {"exited", "rebooted"} : Down(kind)
  <2>1. reader' = << >>
    BY <1>6 DEF Close, Down
  <2> QED
    BY <1>1, <2>1
<1>7. CASE Recover \/ OpenLog \/ OpenSaves \/ OpenReturns
  <2>1. UNCHANGED reader /\ ~Alive
    BY <1>7 DEF Recover, OpenLog, OpenSaves, OpenReturns, Alive
  <2> QED
    BY <1>2, <2>1
<1>8. CASE QuietStep \/ AddRecord \/ AddRecordFails \/ Sync \/ BuildTable \/ WriteManifest
              \/ ManifestFails \/ Merge \/ Finish \/ SwitchMemTable \/ InsertInto \/ CommitFlush
  <2>1. Alive /\ UNCHANGED reader
    BY <1>8 DEF QuietStep, AddRecord, AddRecordFails, Sync, BuildTable, WriteManifest, ManifestFails,
                Merge, Finish, SwitchMemTable, MakingRoom, InsertInto, CommitFlush, Alive
  <2> QED
    BY <1>3, <1>8, <2>1
<1> QED
  BY <1>4, <1>5, <1>6, <1>7, <1>8 DEF MovingStep

-----------------------------------------------------------------------------
(***************************************************************************)
(* The invariant                                                           *)
(***************************************************************************)
\* The invariant holds at first.
LEMMA StartsRight ==
    ASSUME Init
    PROVE  DBInv
<1>1. QueueInv
  BY DEF Init, QueueInv, Idle, Places, Statuses, IsInjective, GroupIsFront, Working
<1>2. BgInv
  BY DEF Init, BgInv, BgIdle, Version, Edit
<1>3. DOMAIN logs = {3} /\ logs[3] = EmptyLog /\ DOMAIN mems = {3} /\ mems[3] = {}
  BY DEF Init
<1>4. Records(3) = {} /\ EmptyLog \in [recs : Seq(SUBSET Entry), synced : Nat]
  BY <1>3 DEF Records, EmptyLog, ToSet
<1>5. /\ up = "running" /\ rec = NoRec /\ lead = Idle /\ bg = BgIdle
      /\ logNumber = 3 /\ imm = 0 /\ lastSequence = 0 /\ nextFile = 4 /\ reader = << >>
      /\ version = [tables |-> {}, level0 |-> 0, log |-> 3]
      /\ manifest = [tables |-> {}, level0 |-> 0, log |-> 3, last |-> 0, next |-> 4]
  BY DEF Init
<1>6. LogsInv
  BY <1>3, <1>4, <1>5 DEF LogsInv, NoRec, Alive
<1>7. MemsInv
  <2>1. MemIsNewest
    BY <1>3, <1>5 DEF MemIsNewest
  <2> QED
    BY <2>1, <1>3, <1>5 DEF MemsInv, Alive, InFlight, Idle
<1>8. RecInv
  BY <1>5 DEF RecInv, NoRec, Alive
<1>9. RecordsOf(Relevant) = {}
  BY <1>3, <1>4 DEF RecordsOf, Relevant, Records
<1>10. \A S \in Pieces : S = {}
  BY <1>3, <1>5, <1>9 DEF Pieces, Edits, BgIdle, NoRec
<1>11. Sound(Pieces)
  BY <1>10 DEF Sound, Whole, By, Agree
<1>12. Answered
  BY <1>10 DEF Answered
<1>13. Tabled = {} /\ rec.entries = {} /\ mems[logNumber] = {} /\ \A n \in DOMAIN logs : InLog(n) = {}
  BY <1>3, <1>4, <1>5 DEF Tabled, Edits, BgIdle, NoRec, InLog
<1>14. NumbersInv
  <2>1. Counted
    BY <1>5, <1>10, <1>13 DEF Counted
  <2>2. \A n \in DOMAIN logs : n <= 3
    BY <1>3
  <2>3. Bounded
    BY <1>10, <2>2 DEF Bounded
  <2> QED
    BY <1>9, <2>1, <2>3 DEF NumbersInv
<1>15. OrderInv
  BY <1>5, <1>13 DEF OrderInv, Precedes, Relevant
<1>16. ReaderInv
  BY <1>5 DEF ReaderInv
<1>17. scope \in Scopes
  BY DEF Init
<1> QED
  BY <1>1, <1>2, <1>6, <1>7, <1>8, <1>11, <1>12, <1>14, <1>15, <1>16, <1>17 DEF DBInv, FilesInv

\* The scope never changes.
LEMMA ScopeStays ==
    ASSUME Next
    PROVE  scope' = scope
<1>1. CASE WriterStep
  BY <1>1 DEF WriterStep, Lead, RoomError, Delay, WaitForBackground, SwitchMemTable, SwitchFails,
              BuildGroup, AddRecord, AddRecordFails, Sync, SyncFails, InsertInto, Finish,
              CompactMemTableWaits, lifeVars
<1>2. CASE BackgroundStep
  BY <1>2 DEF BackgroundStep, BackgroundCall, MergeFlushes, BuildTable, FlushFails, WriteManifest,
              ManifestFails, CommitFlush, Merge, MergeFails, lifeVars
<1>3. CASE OpenStep
  BY <1>3 DEF OpenStep, Recover, OpenLog, OpenSaves, OpenReturns
<1>4. CASE (\E w \in scope.writers : Enqueue(w)) \/ (\E k \in scope.reads : GetBegin(k)) \/ Get
  BY <1>4 DEF Enqueue, GetBegin, Get, lifeVars
<1>5. CASE (\E kind \in {"exited", "rebooted"} : Crash(kind)) \/ Close \/ CloseEnds
  BY <1>5 DEF Crash, Close, CloseEnds, Down
<1> QED
  BY <1>1, <1>2, <1>3, <1>4, <1>5 DEF Next

\* A step that changes nothing keeps the invariant.
LEMMA StutterKeeps ==
    ASSUME DBInv, UNCHANGED vars
    PROVE  DBInv'
<1>1. UNCHANGED <<scope, writers, status, asleep, lead, mems, logNumber, imm, lastSequence, nextFile,
                  version, bg, bgError, logs, manifest, up, rec, reader>>
  BY DEF vars, queueVars, memVars, bgVars, diskVars, lifeVars
<1>2. (Alive' <=> Alive) /\ (Recovered' <=> Recovered) /\ (InFlight' <=> InFlight)
      /\ (Working' <=> Working) /\ Group' = Group
  BY <1>1 DEF Alive, Recovered, InFlight, Working, Group
<1>3. \A n : Records(n)' = Records(n) /\ InLog(n)' = InLog(n)
  BY <1>1 DEF Records, InLog
<1>4. Relevant' = Relevant
  BY <1>1 DEF Relevant, Alive
<1>5. RecordsOf(Relevant)' = RecordsOf(Relevant)
  BY <1>1, <1>4 DEF RecordsOf
<1>6. Edits' = Edits /\ Tabled' = Tabled
  BY <1>1 DEF Edits, Tabled
<1>7. Pieces' = Pieces
  BY <1>1, <1>5, <1>6 DEF Pieces
<1>8. InMemory' = InMemory
  BY <1>1 DEF InMemory
<1>9. QueueInv'
  BY <1>1, <1>2 DEF DBInv, QueueInv, GroupIsFront
<1>10. BgInv'
  BY <1>1, <1>2 DEF DBInv, BgInv, EditIsRight
<1>11. LogsInv'
  BY <1>1, <1>2, <1>3 DEF DBInv, FilesInv, LogsInv
<1>12. MemsInv'
  BY <1>1, <1>2, <1>3 DEF DBInv, FilesInv, MemsInv, MemIsNewest
<1>13. RecInv'
  BY <1>1, <1>2 DEF DBInv, FilesInv, RecInv
<1>14. Sound(Pieces)'
  BY <1>7 DEF DBInv, Sound
<1>15. Answered'
  BY <1>1, <1>2, <1>7 DEF DBInv, Answered
<1>16. NumbersInv'
  <2>1. Counted' <=> Counted
    BY <1>1, <1>2, <1>6, <1>7 DEF Counted
  <2>2. Bounded' <=> Bounded
    BY <1>1, <1>7 DEF Bounded
  <2> QED
    BY <1>1, <1>2, <1>5, <2>1, <2>2 DEF DBInv, NumbersInv
<1>17. OrderInv'
  BY <1>1, <1>2, <1>3, <1>4, <1>6 DEF DBInv, OrderInv, Precedes
<1>18. ReaderInv'
  <2>1. \A r : ReaderIsRight(r)' <=> ReaderIsRight(r)
    BY <1>1, <1>8 DEF ReaderIsRight, ViewOf, Older
  <2> QED
    BY <1>1, <2>1 DEF DBInv, ReaderInv, ReaderIsRight
<1> QED
  BY <1>1, <1>9, <1>10, <1>11, <1>12, <1>13, <1>14, <1>15, <1>16, <1>17, <1>18 DEF DBInv, FilesInv

\* The invariant is inductive.
LEMMA StepKeeps ==
    ASSUME DBInv, Next
    PROVE  DBInv'
<1>1. /\ QueueInv /\ BgInv /\ FilesInv /\ Sound(Pieces) /\ Answered /\ NumbersInv /\ OrderInv
      /\ ReaderInv /\ scope \in Scopes
  BY DEF DBInv
<1>2. QuietStep \/ MovingStep
  BY <1>1, StepKinds
<1>3. QueueInv'
  BY <1>1, QueueStep
<1>4. BgInv'
  BY <1>1, BgStep
<1>5. FilesInv'
  BY <1>1, <1>2, FilesStep
<1>6. Sound(Pieces)' /\ Answered'
  BY <1>1, <1>2, <1>4, SoundStep, AnsweredStep
<1>7. NumbersInv'
  BY <1>1, <1>2, <1>4, NumbersStep
<1>8. OrderInv'
  BY <1>1, <1>2, <1>4, <1>5, OrderStep
<1>9. ReaderInv'
  BY <1>1, <1>2, <1>5, ReaderStep
<1>10. scope' \in Scopes
  BY <1>1, ScopeStays
<1> QED
  BY <1>3, <1>4, <1>5, <1>6, <1>7, <1>8, <1>9, <1>10 DEF DBInv

-----------------------------------------------------------------------------
(***************************************************************************)
(* What it says                                                            *)
(***************************************************************************)
\* The types.
LEMMA TypesAreRight ==
    ASSUME DBInv
    PROVE  TypeOK
<1>1. QueueInv /\ BgInv /\ FilesInv /\ Sound(Pieces)
  BY DEF DBInv
<1>2. ToSet(writers) \subseteq Writer /\ IsInjective(writers)
  BY <1>1 DEF QueueInv, ToSet
<1>3. /\ status \in [Writer -> {"new", "waiting", "flushing", "ok", "failed", "lost"}]
      /\ asleep \subseteq {w \in Writer : status[w] \in {"waiting", "flushing"}}
      /\ lead.at # "idle" => writers # << >>
  BY <1>1 DEF QueueInv, Statuses
<1>4. imm \in DOMAIN mems \cup {0} /\ logNumber \in DOMAIN mems \cup {0}
  BY <1>1 DEF FilesInv, MemsInv, MemIsNewest
<1>5. \A n \in DOMAIN mems : mems[n] \subseteq Entry
  BY <1>1, PiecesAre DEF Sound
<1>6. \A n \in DOMAIN logs : UNION ToSet(logs[n].recs) \subseteq Entry
  <2> TAKE n \in DOMAIN logs
  <2>1. logs[n].recs \in Seq(SUBSET Entry)
    BY <1>1 DEF FilesInv, LogsInv
  <2>2. ToSet(logs[n].recs) \subseteq SUBSET Entry
    BY <2>1 DEF ToSet
  <2> QED
    BY <2>2
<1>7. version.tables \subseteq Entry /\ manifest.tables \subseteq Entry
  BY <1>1, PiecesAre DEF Sound
<1>8. version.level0 \in Nat /\ bg.merging <= version.level0
  BY <1>1 DEF BgInv, Version
<1>9. up = "running" => logNumber \in DOMAIN logs
  BY <1>1 DEF FilesInv, MemsInv, MemIsNewest, Alive
<1> QED
  BY <1>2, <1>3, <1>4, <1>5, <1>6, <1>7, <1>8, <1>9 DEF TypeOK

\* What takes all of a write from some piece, if it takes any, is whole.
LEMMA WholeView ==
    ASSUME NEW Ps, Sound(Ps), NEW V, NEW w \in Write,
           \A e \in V : e.by = w => \E S \in Ps : e \in S /\ By(S, w) \subseteq V,
           \A e \in V : \E S \in Ps : e \in S
    PROVE  Cardinality({e \in V : e.by = w}) \in {0, Len(Batch[w])}
<1>1. CASE {e \in V : e.by = w} = {}
  BY <1>1, FS_EmptySet
<1>2. ASSUME NEW e \in V, e.by = w PROVE Cardinality({f \in V : f.by = w}) = Len(Batch[w])
  <2>1. PICK S \in Ps : e \in S /\ By(S, w) \subseteq V
    BY <1>2
  <2>2. ASSUME NEW f \in V, f.by = w PROVE f \in S
    <3>1. PICK T \in Ps : f \in T
      OBVIOUS
    <3> QED
      BY <1>2, <2>1, <2>2, <3>1 DEF Sound, Agree
  <2>3. {f \in V : f.by = w} = By(S, w)
    BY <2>1, <2>2 DEF By
  <2>4. By(S, w) # {}
    BY <1>2, <2>1 DEF By
  <2> QED
    BY <2>1, <2>3, <2>4 DEF Sound, Whole
<1> QED
  BY <1>1, <1>2

\* What is visible of a batch is all of it or nothing: all of it is in a piece,
\* and if one entry is counted in lastSequence, the group it came with is.
LEMMA WritesAreWhole ==
    ASSUME DBInv
    PROVE  AllOrNothing
<1>1. QueueInv /\ FilesInv /\ Sound(Pieces) /\ Answered /\ NumbersInv
  BY DEF DBInv
<1> SUFFICES ASSUME NEW w \in Write
             PROVE  Cardinality({e \in Visible : e.by = w}) \in {0, Len(Batch[w])}
  BY DEF AllOrNothing
<1>2. CASE Alive
  <2>1. Visible = {e \in InMemory : e.seq <= lastSequence}
    BY <1>2 DEF Visible
  <2>2. \A e \in InMemory : \E S \in Pieces : e \in S /\ S \subseteq InMemory
    BY <1>1, <1>2, InMemoryIsSound DEF InMemory
  <2>3. ASSUME NEW e \in Visible, e.by = w, NEW S \in Pieces, e \in S, NEW f \in By(S, w)
        PROVE  f.seq <= lastSequence
    <3>1. f \in S /\ f.by = w
      BY DEF By
    <3>2. CASE InFlight /\ f \in Group
      <4>1. Working /\ lastSequence \in Nat
        BY <1>1, <3>2 DEF InFlight, Working, Places, FilesInv, MemsInv
      <4>2. \A g \in Group : /\ g.seq \in Nat /\ lastSequence < g.seq
                             /\ status[g.by] = "waiting"
        BY <1>1, <4>1, GroupIs DEF Entry
      <4>3. status[e.by] = "waiting"
        BY <2>3, <3>1, <3>2, <4>2
      <4>4. e \in Group
        BY <1>1, <2>3, <4>3 DEF Answered
      <4>5. e.seq <= lastSequence
        BY <2>1
      <4> QED
        BY <4>1, <4>2, <4>4, <4>5
    <3> QED
      BY <1>1, <1>2, <3>1, <3>2 DEF NumbersInv, Counted
  <2>4. \A e \in Visible : e.by = w => \E S \in Pieces : e \in S /\ By(S, w) \subseteq Visible
    <3> SUFFICES ASSUME NEW e \in Visible, e.by = w
                 PROVE  \E S \in Pieces : e \in S /\ By(S, w) \subseteq Visible
      OBVIOUS
    <3>1. PICK S \in Pieces : e \in S /\ S \subseteq InMemory
      BY <2>1, <2>2
    <3>2. \A f \in By(S, w) : f \in InMemory /\ f.seq <= lastSequence
      BY <2>3, <3>1 DEF By
    <3> QED
      BY <2>1, <3>1, <3>2
  <2> QED
    BY <1>1, <2>1, <2>2, <2>4, WholeView
<1>3. CASE ~Alive
  <2>1. Visible = OnDisk
    BY <1>3 DEF Visible
  <2>2. {n \in DOMAIN logs : ToReplay(n)} = Relevant
    BY <1>3 DEF Relevant, ToReplay
  <2>3. OnDisk = manifest.tables \cup UNION RecordsOf(Relevant)
    BY <2>2 DEF OnDisk
  <2>4. \A e \in Visible : \E S \in Pieces : e \in S /\ S \subseteq Visible
    BY <2>1, <2>3 DEF Pieces
  <2>5. \A e \in Visible : e.by = w => \E S \in Pieces : e \in S /\ By(S, w) \subseteq Visible
    BY <2>4 DEF By
  <2> QED
    BY <1>1, <2>4, <2>5, WholeView
<1> QED
  BY <1>2, <1>3

\* No two entries that can be seen have one number.
LEMMA NumbersAreUnique ==
    ASSUME DBInv
    PROVE  SequencesUnique
<1>1. FilesInv /\ BgInv /\ Sound(Pieces)
  BY DEF DBInv
<1>2. \A n \in DOMAIN logs : ToReplay(n) => n \in Relevant
  <2>1. /\ manifest.log \in Nat /\ version.log \in Nat /\ DOMAIN logs \subseteq Nat
        /\ Alive => version.log <= manifest.log
    BY <1>1 DEF FilesInv, LogsInv, BgInv, Version, Edit
  <2> QED
    BY <2>1 DEF Relevant, ToReplay
<1>3. \A e \in OnDisk : \E S \in Pieces : e \in S
  <2>1. \A r \in RecordsOf({n \in DOMAIN logs : ToReplay(n)}) : r \in RecordsOf(Relevant)
    BY <1>2 DEF RecordsOf
  <2> QED
    BY <2>1 DEF OnDisk, Pieces
<1>4. Alive => \A e \in InMemory : \E S \in Pieces : e \in S
  BY <1>1, InMemoryIsSound DEF InMemory
<1>5. ASSUME NEW e \in OnDisk \cup (IF Alive THEN InMemory ELSE {}),
             NEW f \in OnDisk \cup (IF Alive THEN InMemory ELSE {}), e.seq = f.seq
      PROVE  e = f
  <2>1. PICK S \in Pieces : e \in S
    BY <1>3, <1>4
  <2>2. PICK T \in Pieces : f \in T
    BY <1>3, <1>4
  <2> QED
    BY <1>1, <1>5, <2>1, <2>2 DEF Sound, Agree
<1> QED
  BY <1>5 DEF SequencesUnique

-----------------------------------------------------------------------------
(***************************************************************************)
(* What stays                                                              *)
(***************************************************************************)

\* The entries of a log that a crash of the machine leaves.
SyncedIn(n) == UNION {logs[n].recs[i] : i \in 1 .. logs[n].synced}

\* What asked for sync is in memory only once it is safe in the log.
MemIsSynced(n) == \A e \in mems[n] : e.by \in Synced => e \in SyncedIn(n)

\* A failed append is the only way to an empty record.
TornInv == torn \in Nat /\ (torn = 0 => \A n \in DOMAIN logs : {} \notin Records(n))

\* What a recovery reads back, the machine may not lose any more.
SyncInv ==
    /\ \A n \in DOMAIN logs : logs[n].synced <= Len(logs[n].recs)
    /\ ~Alive => \A n \in DOMAIN logs : logs[n].synced = Len(logs[n].recs)

\* What is in memory is on disk too: the tables in the manifest; a memtable in
\* its log, or, when its flush was saved, in the manifest.
DiskInv ==
    /\ Alive => version.tables \subseteq manifest.tables /\ MemIsSynced(logNumber)
    /\ imm # 0 => /\ MemIsSynced(imm)
                  /\ mems[imm] \subseteq manifest.tables \/ imm >= manifest.log

\* Those of a group that asked for sync get it.
GroupInv ==
    /\ Working => \A w \in ToSet(lead.group) \cap Synced : writers[1] \in Synced
    /\ lead.at \in {"insert", "inserted"} /\ writers[1] \in Synced
            => Group \subseteq SyncedIn(logNumber)
    /\ lead.at = "inserted" => Group \subseteq mems[logNumber]

\* A recovery has read all the logs that count, and saves what it read.
ReadInv ==
    /\ rec.at # "none" =>
        \A n \in Relevant : \A e \in InLog(n) :
            e \in rec.entries \/ (Recovered /\ e \in mems[logNumber])
    /\ rec.at = "saved" => rec.entries \subseteq manifest.tables

StayInv == TornInv /\ SyncInv /\ DiskInv /\ GroupInv /\ ReadInv /\ SyncedStay

\* How the logs change.
LogMoves(n) ==
    \/ n \in DOMAIN logs /\ logs'[n] = logs[n]
    \/ n \notin DOMAIN logs /\ logs'[n] = EmptyLog /\ (SwitchMemTable \/ OpenLog)
    \/ /\ AddRecord /\ n = logNumber /\ n \in DOMAIN logs
       /\ logs'[n] = [recs |-> Append(logs[n].recs, Group), synced |-> logs[n].synced]
    \/ /\ AddRecordFails /\ n = logNumber /\ n \in DOMAIN logs
       /\ logs'[n] = [recs |-> Append(logs[n].recs, {}), synced |-> logs[n].synced]
    \/ /\ Sync /\ n = logNumber /\ n \in DOMAIN logs
       /\ logs'[n] = [recs |-> logs[n].recs, synced |-> Len(logs[n].recs)]

\* Every step but the end of a process changes the logs so.
LEMMA LogSteps ==
    ASSUME FilesInv, QuietStep \/ MovingStep, Alive' \/ rec'.at # "none", NEW n \in DOMAIN logs'
    PROVE  LogMoves(n)
<1>1. \A m \in DOMAIN logs : logs[m] = [recs |-> logs[m].recs, synced |-> logs[m].synced]
  BY DEF FilesInv, LogsInv
<1>2. CASE UNCHANGED logs
  BY <1>2 DEF LogMoves
<1>3. CASE AddRecord \/ AddRecordFails \/ Sync
  <2>1. DOMAIN logs' = DOMAIN logs
    BY <1>3 DEF AddRecord, AddRecordFails, Sync, SyncLog
  <2>2. n # logNumber => logs'[n] = logs[n]
    BY <1>3, <2>1 DEF AddRecord, AddRecordFails, Sync, SyncLog
  <2>3. CASE n = logNumber
    BY <1>1, <1>3, <2>1, <2>3 DEF AddRecord, AddRecordFails, Sync, SyncLog, LogMoves
  <2> QED
    BY <2>1, <2>2, <2>3 DEF LogMoves
<1>4. CASE SwitchMemTable \/ (OpenLog /\ ~rec.reuse)
  <2>1. logs' = With(logs, nextFile, EmptyLog)
    BY <1>4 DEF SwitchMemTable, OpenLog
  <2>2. nextFile \notin DOMAIN logs
    <3>1. nextFile \in Nat /\ DOMAIN logs \subseteq Nat
      BY DEF FilesInv, LogsInv, MemsInv
    <3>2. \A m \in DOMAIN logs : m < nextFile
      <4>1. CASE SwitchMemTable
        <5>1. Alive
          BY <4>1 DEF SwitchMemTable, MakingRoom, Alive
        <5>2. logNumber \in Nat /\ logNumber < nextFile /\ \A m \in DOMAIN logs : m <= logNumber
          BY <5>1 DEF FilesInv, MemsInv, MemIsNewest
        <5> QED
          BY <3>1, <5>2
      <4>2. CASE OpenLog
        BY <4>2 DEF OpenLog, FilesInv, LogsInv
      <4> QED
        BY <1>4, <4>1, <4>2
    <3> QED
      BY <3>1, <3>2
  <2>3. CASE n = nextFile
    BY <1>4, <2>1, <2>2, <2>3 DEF With, LogMoves
  <2>4. CASE n # nextFile
    BY <2>1, <2>4 DEF With, LogMoves
  <2> QED
    BY <2>3, <2>4
<1>5. CASE CommitFlush \/ OpenReturns
  <2>1. PICK S : logs' = Without(logs, S)
    BY <1>5 DEF CommitFlush, OpenReturns
  <2> QED
    BY <2>1 DEF Without, LogMoves
<1>6. ASSUME NEW kind \in {"exited", "rebooted"}, Down(kind) PROVE FALSE
  BY <1>6 DEF Down, Alive, NoRec
<1> QED
  BY <1>2, <1>3, <1>4, <1>5, <1>6
  DEF MovingStep, QuietStep, InsertInto, Finish, BuildTable, WriteManifest, ManifestFails, Merge,
      Recover, OpenLog, OpenSaves, Get, Close, GetBegin, diskVars

\* A finite set of numbers in their order: all of them.
LEMMA AscendingTakesAll ==
    ASSUME NEW m \in Nat, NEW K \in SUBSET (1 .. m), NEW p \in Ascending(K)
    PROVE  /\ Len(p) = Cardinality(K) /\ Cardinality(K) \in Nat
           /\ DOMAIN p = 1 .. Cardinality(K) /\ p \in [1 .. Cardinality(K) -> K]
           /\ \A i \in K : \E j \in 1 .. Cardinality(K) : p[j] = i
<1> DEFINE c == Cardinality(K)
<1>1. IsFiniteSet(K) /\ c \in Nat
  <2>1. IsFiniteSet(1 .. m)
    BY FS_Interval
  <2> QED
    BY <2>1, FS_Subset, FS_CardinalityType
<1>2. p \in [1 .. c -> K] /\ \A i, j \in DOMAIN p : i < j => p[i] < p[j]
  BY DEF Ascending
<1>3. IsFiniteSet(1 .. c) /\ Cardinality(1 .. c) = c
  BY <1>1, FS_Interval
<1> HIDE DEF c
<1>4. DOMAIN p = 1 .. c /\ Len(p) = c
  BY <1>1, <1>2
<1>5. \A i, j \in 1 .. c : p[i] = p[j] => i = j
  <2> SUFFICES ASSUME NEW i \in 1 .. c, NEW j \in 1 .. c, p[i] = p[j] PROVE i = j
    OBVIOUS
  <2>1. p[i] \in 1 .. m /\ p[j] \in 1 .. m
    BY <1>2
  <2>2. ~(i < j) /\ ~(j < i)
    BY <1>2, <1>4, <2>1
  <2> QED
    BY <1>1, <2>2
<1>6. p \in Injection(1 .. c, K)
  BY <1>2, <1>5 DEF Injection, IsInjective
<1>7. p \in Surjection(1 .. c, K)
  BY <1>1, <1>3, <1>6, FS_Injection DEF c
<1>8. \A i \in K : \E j \in 1 .. c : p[j] = i
  BY <1>7 DEF Surjection
<1> QED
  BY <1>1, <1>2, <1>4, <1>8 DEF c

\* What is left of a log counts as synced.  Without an empty record, all that
\* was synced is left, and, if only the process ended, all that was written.
LEMMA LeftStays ==
    ASSUME FilesInv, NEW kind, NEW g \in LogsLeft(kind), NEW n \in DOMAIN logs,
           logs[n].synced <= Len(logs[n].recs)
    PROVE  /\ g[n].synced = Len(g[n].recs)
           /\ {} \notin Records(n) =>
                /\ SyncedIn(n) \subseteq UNION ToSet(g[n].recs)
                /\ kind = "exited" => InLog(n) \subseteq UNION ToSet(g[n].recs)
<1> DEFINE f == logs[n]
           len == Len(f.recs)
           Some == {i \in DOMAIN f.recs : f.recs[i] # {}}
           bad == Min({i \in DOMAIN f.recs : f.recs[i] = {}} \cup {len + 1})
           least == IF kind = "exited" THEN len ELSE f.synced
           Of(p) == [recs |-> [j \in DOMAIN p |-> f.recs[p[j]]], synced |-> Len(p)]
<1>1. f \in [recs : Seq(SUBSET Entry), synced : Nat] /\ g[n] \in Left(f, kind)
  BY DEF FilesInv, LogsInv, LogsLeft
<1>2. /\ f.recs \in Seq(SUBSET Entry) /\ f.synced \in Nat /\ len \in Nat /\ f.synced <= len
      /\ DOMAIN f.recs = 1 .. len
  BY <1>1
<1>3. PICK K \in SUBSET Some :
        /\ \E m \in least .. len : /\ \A i \in K : i <= m
                                   /\ \A i \in 1 .. m : i < bad => i \in K
        /\ \E p \in Ascending(K) : g[n] = Of(p)
  BY <1>1 DEF Left
<1>4. PICK p \in Ascending(K) : g[n] = Of(p)
  BY <1>3
<1>5. PICK m \in least .. len : \A i \in 1 .. m : i < bad => i \in K
  BY <1>3
<1>6. K \in SUBSET (1 .. len)
  BY <1>2
<1>7. /\ Len(p) = Cardinality(K) /\ Cardinality(K) \in Nat /\ DOMAIN p = 1 .. Cardinality(K)
      /\ p \in [1 .. Cardinality(K) -> K]
      /\ \A i \in K : \E j \in 1 .. Cardinality(K) : p[j] = i
  <2> HIDE DEF len, Some
  <2> QED
    BY <1>2, <1>4, <1>6, AscendingTakesAll
<1> DEFINE rs == g[n].recs
<1>8. /\ rs = [j \in 1 .. Cardinality(K) |-> f.recs[p[j]]] /\ g[n].synced = Cardinality(K)
      /\ DOMAIN rs = 1 .. Cardinality(K)
  BY <1>4, <1>7
<1>9. rs \in Seq(SUBSET Entry) /\ Len(rs) = Cardinality(K)
  <2>1. \A j \in 1 .. Cardinality(K) : p[j] \in 1 .. len /\ f.recs[p[j]] \in SUBSET Entry
    BY <1>2, <1>6, <1>7
  <2> HIDE DEF len
  <2>2. rs \in [1 .. Cardinality(K) -> SUBSET Entry]
    BY <1>8, <2>1
  <2> HIDE DEF rs
  <2> QED
    BY <1>7, <2>2
<1>10. ASSUME NEW i \in K PROVE f.recs[i] \in ToSet(rs)
  <2>1. PICK j \in 1 .. Cardinality(K) : p[j] = i
    BY <1>7, <1>10
  <2>2. rs[j] = f.recs[i]
    BY <1>8, <2>1
  <2> QED
    BY <1>8, <2>1, <2>2 DEF ToSet
<1>11. ASSUME {} \notin Records(n)
       PROVE  /\ \A i \in 1 .. f.synced : i \in K
              /\ kind = "exited" => \A i \in 1 .. len : i \in K
  <2>1. \A i \in 1 .. len : f.recs[i] # {}
    BY <1>2, <1>11 DEF Records, ToSet
  <2>2. {i \in DOMAIN f.recs : f.recs[i] = {}} \cup {len + 1} = {len + 1}
    BY <1>2, <2>1
  <2>3. bad = len + 1
    <3>1. len + 1 \in {len + 1} /\ {len + 1} \in SUBSET Nat /\ \A x \in {len + 1} : len + 1 <= x
      BY <1>2
    <3> HIDE DEF len
    <3>2. Min({len + 1}) = len + 1
      BY ONLY <3>1, MinIs
    <3> QED
      BY <2>2, <3>2
  <2>4. least \in Nat /\ f.synced <= least /\ (kind = "exited" => least = len)
    BY <1>2
  <2> HIDE DEF bad, least, len, f
  <2>5. m \in Nat /\ least <= m /\ m <= len
    BY <1>2, <1>5, <2>4
  <2> QED
    BY <1>2, <1>5, <2>3, <2>4, <2>5
<1>12. ASSUME {} \notin Records(n) PROVE SyncedIn(n) \subseteq UNION ToSet(rs)
  BY <1>10, <1>11, <1>12 DEF SyncedIn
<1>13. ASSUME {} \notin Records(n), kind = "exited" PROVE InLog(n) \subseteq UNION ToSet(rs)
  BY <1>2, <1>10, <1>11, <1>13 DEF InLog, Records, ToSet
<1> QED
  BY <1>8, <1>9, <1>12, <1>13

\* What was synced stays so while the process lives.
LEMMA SyncedGrows ==
    ASSUME FilesInv, SyncInv, QuietStep \/ MovingStep, Alive' \/ rec'.at # "none",
           NEW n \in DOMAIN logs, n \in DOMAIN logs'
    PROVE  SyncedIn(n) \subseteq SyncedIn(n)' /\ InLog(n) \subseteq InLog(n)'
<1>1. LogMoves(n)
  BY LogSteps
<1>2. /\ logs[n].recs \in Seq(SUBSET Entry) /\ logs[n].synced \in Nat
      /\ Len(logs[n].recs) \in Nat /\ logs[n].synced <= Len(logs[n].recs)
      /\ DOMAIN logs[n].recs = 1 .. Len(logs[n].recs)
  BY DEF FilesInv, LogsInv, SyncInv
<1>3. CASE logs'[n] = logs[n]
  BY <1>3 DEF SyncedIn, InLog, Records
<1>4. ASSUME NEW x,
             logs'[n] = [recs |-> Append(logs[n].recs, x), synced |-> logs[n].synced]
      PROVE  SyncedIn(n) \subseteq SyncedIn(n)' /\ InLog(n) \subseteq InLog(n)'
  <2>1. /\ \A i \in 1 .. Len(logs[n].recs) : Append(logs[n].recs, x)[i] = logs[n].recs[i]
        /\ DOMAIN Append(logs[n].recs, x) = 1 .. Len(logs[n].recs) + 1
    BY <1>2
  <2>2. \A i \in 1 .. logs[n].synced : i \in 1 .. Len(logs[n].recs)
    BY <1>2
  <2>3. \A i \in 1 .. Len(logs[n].recs) : i \in 1 .. Len(logs[n].recs) + 1
    BY <1>2
  <2>0. logs'[n].recs = Append(logs[n].recs, x) /\ logs'[n].synced = logs[n].synced
    BY <1>4
  <2>4. SyncedIn(n)' = UNION {Append(logs[n].recs, x)[i] : i \in 1 .. logs[n].synced}
    BY <2>0 DEF SyncedIn
  <2>5. SyncedIn(n) \subseteq SyncedIn(n)'
    BY <2>1, <2>2, <2>4 DEF SyncedIn
  <2>6. InLog(n)' = UNION {Append(logs[n].recs, x)[i] : i \in DOMAIN Append(logs[n].recs, x)}
    BY <2>0 DEF InLog, Records, ToSet
  <2>7. InLog(n) \subseteq InLog(n)'
    BY <1>2, <2>1, <2>3, <2>6 DEF InLog, Records, ToSet
  <2> QED
    BY <2>5, <2>7
<1>5. CASE logs'[n] = [recs |-> logs[n].recs, synced |-> Len(logs[n].recs)]
  <2>1. SyncedIn(n)' = UNION {logs[n].recs[i] : i \in 1 .. Len(logs[n].recs)}
    BY <1>5 DEF SyncedIn
  <2>2. \A i \in 1 .. logs[n].synced : i \in 1 .. Len(logs[n].recs)
    BY <1>2
  <2> QED
    BY <1>5, <2>1, <2>2 DEF SyncedIn, InLog, Records
<1> QED
  BY <1>1, <1>3, <1>4, <1>5 DEF LogMoves

\* Where every record is synced, so is every entry.
LEMMA AllSynced ==
    ASSUME FilesInv, NEW n \in DOMAIN logs, logs[n].synced = Len(logs[n].recs)
    PROVE  SyncedIn(n) = InLog(n)
<1>1. DOMAIN logs[n].recs = 1 .. Len(logs[n].recs)
  BY DEF FilesInv, LogsInv
<1> QED
  BY <1>1 DEF SyncedIn, InLog, Records, ToSet

\* The number of failed appends.
LEMMA TornMoves ==
    ASSUME Next
    PROVE  torn' = torn \/ (AddRecordFails /\ torn' = torn + 1)
<1>1. CASE WriterStep
  BY <1>1 DEF WriterStep, Lead, RoomError, Delay, WaitForBackground, SwitchMemTable, SwitchFails,
              BuildGroup, AddRecord, AddRecordFails, Sync, SyncFails, InsertInto, Finish,
              CompactMemTableWaits, lifeVars
<1>2. CASE BackgroundStep
  BY <1>2 DEF BackgroundStep, BackgroundCall, MergeFlushes, BuildTable, FlushFails, WriteManifest,
              ManifestFails, CommitFlush, Merge, MergeFails, lifeVars
<1>3. CASE OpenStep
  BY <1>3 DEF OpenStep, Recover, OpenLog, OpenSaves, OpenReturns
<1>4. CASE (\E w \in scope.writers : Enqueue(w)) \/ (\E k \in scope.reads : GetBegin(k)) \/ Get
  BY <1>4 DEF Enqueue, GetBegin, Get, lifeVars
<1>5. CASE (\E kind \in {"exited", "rebooted"} : Crash(kind)) \/ Close \/ CloseEnds
  BY <1>5 DEF Crash, Close, CloseEnds, Down
<1> QED
  BY <1>1, <1>2, <1>3, <1>4, <1>5 DEF Next

\* Either the process lives on, or it ends.
LEMMA LivesOrEnds ==
    ASSUME FilesInv, QuietStep \/ MovingStep
    PROVE  \/ Alive' \/ rec'.at # "none"
           \/ \E kind \in {"exited", "rebooted"} : Down(kind) /\ logs' \in LogsLeft(kind)
<1>1. CASE Recover \/ OpenLog \/ OpenSaves
  <2>1. rec = [at |-> rec.at, entries |-> rec.entries, reuse |-> rec.reuse]
    BY DEF FilesInv, RecInv
  <2>2. \/ rec'.at = "replayed" \/ rec' = [rec EXCEPT !.at = "opened"]
        \/ rec' = [rec EXCEPT !.at = "saved"]
    <3>1. Recover => rec'.at = "replayed"
      BY DEF Recover
    <3> QED
      BY <1>1, <3>1 DEF OpenLog, OpenSaves
  <2> QED
    BY <2>1, <2>2
<1>2. CASE QuietStep \/ SwitchMemTable \/ AddRecord \/ AddRecordFails \/ Sync \/ InsertInto
             \/ Finish \/ BuildTable \/ WriteManifest \/ ManifestFails \/ CommitFlush \/ Merge
             \/ OpenReturns \/ Get \/ Close \/ \E k \in scope.reads : GetBegin(k)
  BY <1>2 DEF QuietStep, SwitchMemTable, MakingRoom, AddRecord, AddRecordFails, Sync, InsertInto,
      Finish, BuildTable, WriteManifest, ManifestFails, CommitFlush, Merge, OpenReturns, Get, Close,
      GetBegin, Alive, lifeVars
<1> QED
  BY <1>1, <1>2 DEF MovingStep

\* Every step keeps the records apart from what a failed append leaves.
LEMMA TornStep ==
    ASSUME QueueInv, FilesInv, TornInv, Next, QuietStep \/ MovingStep
    PROVE  TornInv'
<1>1. torn' \in Nat /\ (torn' = 0 => torn = 0 /\ ~AddRecordFails)
  <2>1. torn \in Nat /\ (AddRecordFails => torn' = torn + 1)
    BY DEF TornInv, AddRecordFails
  <2> QED
    BY <2>1, TornMoves
<1> SUFFICES ASSUME torn' = 0, NEW n \in DOMAIN logs' PROVE {} \notin ToSet(logs'[n].recs)
  BY <1>1 DEF TornInv, Records
<1>2. \A m \in DOMAIN logs : {} \notin Records(m)
  BY <1>1 DEF TornInv
<1>3. CASE Alive' \/ rec'.at # "none"
  <2>1. LogMoves(n)
    BY <1>3, LogSteps
  <2>2. CASE AddRecord /\ n \in DOMAIN logs /\ logs'[n].recs = Append(logs[n].recs, Group)
    <3>1. Working /\ lastSequence \in Nat
      BY <2>2 DEF AddRecord, Working, Places, FilesInv, MemsInv
    <3>2. Group # {} /\ Group \in SUBSET Entry
      BY <3>1, GroupIs
    <3>3. logs[n].recs \in Seq(SUBSET Entry)
      BY <2>2 DEF FilesInv, LogsInv
    <3>4. ToSet(logs'[n].recs) = Records(n) \cup {Group}
      BY <2>2, <3>2, <3>3, AppendRecord DEF Records
    <3> QED
      BY <1>2, <2>2, <3>2, <3>4
  <2>3. CASE logs'[n] = EmptyLog
    BY <2>3 DEF EmptyLog, ToSet
  <2> QED
    BY <1>1, <1>2, <2>1, <2>2, <2>3 DEF LogMoves, Records
<1>4. ASSUME NEW kind, logs' \in LogsLeft(kind) PROVE {} \notin ToSet(logs'[n].recs)
  BY <1>4, LogsLeftAre
<1> QED
  BY <1>3, <1>4, LivesOrEnds

\* Every step keeps what counts as synced among what was written.
LEMMA SyncStep ==
    ASSUME FilesInv, SyncInv, QuietStep \/ MovingStep
    PROVE  SyncInv'
<1> SUFFICES ASSUME NEW n \in DOMAIN logs'
             PROVE  /\ logs'[n].synced <= Len(logs'[n].recs)
                    /\ ~Alive' => logs'[n].synced = Len(logs'[n].recs)
  BY DEF SyncInv
<1>1. CASE Alive' \/ rec'.at # "none"
  <2>1. LogMoves(n)
    BY <1>1, LogSteps
  <2>2. n \in DOMAIN logs =>
            /\ logs[n].recs \in Seq(SUBSET Entry) /\ logs[n].synced \in Nat
            /\ Len(logs[n].recs) \in Nat /\ logs[n].synced <= Len(logs[n].recs)
            /\ ~Alive => logs[n].synced = Len(logs[n].recs)
    BY DEF FilesInv, LogsInv, SyncInv
  <2>3. AddRecord \/ AddRecordFails \/ Sync => Alive'
    BY DEF AddRecord, AddRecordFails, Sync, Alive, lifeVars
  <2>4. ~Alive' => ~Alive
    <3>1. ASSUME NEW kind \in {"exited", "rebooted"}, Down(kind) PROVE FALSE
      BY <1>1, <3>1 DEF Down, Alive, NoRec
    <3> QED
      BY <3>1 DEF QuietStep, MovingStep, SwitchMemTable, AddRecord, AddRecordFails, Sync,
          InsertInto, Finish, BuildTable, WriteManifest, ManifestFails, CommitFlush, Merge, Recover,
          OpenLog, OpenSaves, OpenReturns, Get, Close, GetBegin, Alive, lifeVars
  <2>5. ASSUME NEW x, n \in DOMAIN logs,
               logs'[n] = [recs |-> Append(logs[n].recs, x), synced |-> logs[n].synced]
        PROVE  logs'[n].synced <= Len(logs'[n].recs)
    <3>1. Len(logs'[n].recs) = Len(logs[n].recs) + 1
      BY <2>2, <2>5
    <3> QED
      BY <2>2, <2>5, <3>1
  <2>6. CASE logs'[n] = EmptyLog
    BY <2>6 DEF EmptyLog
  <2>7. CASE Sync /\ n \in DOMAIN logs /\ logs'[n] = [recs |-> logs[n].recs, synced |-> Len(logs[n].recs)]
    BY <2>2, <2>7
  <2>8. CASE n \in DOMAIN logs /\ logs'[n] = logs[n]
    BY <2>2, <2>4, <2>8
  <2> QED
    BY <2>1, <2>3, <2>5, <2>6, <2>7, <2>8 DEF LogMoves
<1>2. ASSUME NEW kind, logs' \in LogsLeft(kind) PROVE logs'[n].synced = Len(logs'[n].recs) /\ Len(logs'[n].recs) \in Nat
  <2>1. n \in DOMAIN logs /\ logs'[n] \in [recs : Seq(SUBSET Entry), synced : Nat]
    BY <1>2, LogsLeftAre
  <2> QED
    BY <1>2, <2>1, LeftStays DEF SyncInv
<1> QED
  BY <1>1, <1>2, LivesOrEnds

\* A group at work keeps its leader, its sequence numbers and its log.
GroupStays ==
    /\ Working /\ lead'.group = lead.group /\ writers'[1] = writers[1]
    /\ UNCHANGED <<lastSequence, logNumber, up>>
    /\ \/ lead'.at = lead.at /\ (UNCHANGED <<mems>> \/ InsertInto)
       \/ AddRecord \/ AddRecordFails \/ Sync \/ SyncFails \/ InsertInto

\* The leader takes the front of the queue for its group, if there was no error.
GroupForms ==
    /\ ~bgError /\ lead.at = "room"
    /\ lead'.at = "append" /\ lead'.group \in BuildBatchGroup
    /\ UNCHANGED <<writers, up>> /\ writers # << >>

\* While a group is at work, each step is one of these.
LEMMA LeaderStays ==
    ASSUME QueueInv, Next, Working'
    PROVE  GroupStays \/ GroupForms
<1>0. /\ writers \in Seq(Writer) /\ Len(writers) \in Nat
      /\ lead = [at |-> lead.at, delay |-> lead.delay, force |-> lead.force, group |-> lead.group]
      /\ Working => up = "running" /\ writers # << >>
  BY DEF QueueInv, Working, Places
<1>1. ASSUME NEW w \in scope.writers, Enqueue(w) PROVE GroupStays
  <2>1. writers' = Append(writers, w) /\ UNCHANGED <<lead, memVars, up>>
    BY <1>1 DEF Enqueue, lifeVars
  <2>2. Working /\ Len(writers) >= 1
    BY <1>0, <2>1 DEF Working
  <2>3. writers'[1] = writers[1]
    BY <1>0, <2>1, <2>2
  <2> QED
    BY <2>1, <2>2, <2>3 DEF GroupStays, memVars
<1>2. CASE Lead \/ Delay \/ WaitForBackground \/ SwitchMemTable
  <2>1. lead'.at = "room"
    BY <1>0, <1>2 DEF Lead, Delay, WaitForBackground, SwitchMemTable, MakingRoom, Idle
  <2> QED
    BY <2>1 DEF Working
<1>3. CASE RoomError \/ SwitchFails \/ Finish
  <2>1. lead' = Idle
    <3>1. RoomError \/ SwitchFails => lead' = Idle
      BY DEF RoomError, SwitchFails, Return
    <3>2. Finish => lead' = Idle
      BY DEF Finish, Return
    <3> QED
      BY <1>3, <3>1, <3>2
  <2> QED
    BY <2>1 DEF Working, Idle
<1>4. CASE BuildGroup
  <2>1. CASE writers[1] \in Flusher
    <3>1. lead'.at = "idle"
      BY <1>4, <2>1 DEF BuildGroup, Return, Idle
    <3> QED
      BY <3>1 DEF Working
  <2>2. CASE writers[1] \notin Flusher
    <3>1. PICK ws \in BuildBatchGroup : lead' = [lead EXCEPT !.at = "append", !.group = ws]
      BY <1>4, <2>2 DEF BuildGroup
    <3>2. lead'.at = "append" /\ lead'.group = ws
      BY <1>0, <3>1
    <3>3. UNCHANGED <<writers, up>> /\ lead.at = "room" /\ ~bgError
      BY <1>4, <2>2 DEF BuildGroup, MakingRoom, lifeVars
    <3> QED
      BY <3>2, <3>3 DEF GroupForms, QueueInv
  <2> QED
    BY <2>1, <2>2
<1>5. CASE AddRecord \/ AddRecordFails \/ Sync \/ SyncFails \/ InsertInto
  <2>1. UNCHANGED <<writers, lastSequence, logNumber, up>>
    BY <1>5 DEF AddRecord, AddRecordFails, Sync, SyncFails, InsertInto, memVars, lifeVars
  <2>2. lead'.group = lead.group /\ Working
    BY <1>0, <1>5 DEF AddRecord, AddRecordFails, Sync, SyncFails, InsertInto, Working, Places
  <2> QED
    BY <1>5, <2>1, <2>2 DEF GroupStays
<1>6. CASE UNCHANGED <<lead, writers, up, lastSequence, logNumber, mems>>
  BY <1>6 DEF GroupStays, Working
<1>7. ASSUME NEW w \in Flusher, CompactMemTableWaits(w) PROVE GroupStays \/ GroupForms
  <2>1. UNCHANGED <<lead, writers, up, lastSequence, logNumber, mems>>
    BY <1>7 DEF CompactMemTableWaits, memVars, lifeVars
  <2> QED
    BY <1>6, <2>1
<1>8. CASE BackgroundStep
  <2>1. UNCHANGED <<lead, writers, up, lastSequence, logNumber, mems>>
    BY <1>8 DEF BackgroundStep, BackgroundCall, MergeFlushes, BuildTable, FlushFails,
        WriteManifest, ManifestFails, CommitFlush, Merge, MergeFails, queueVars, memVars, lifeVars
  <2> QED
    BY <1>6, <2>1
<1>9. CASE Get \/ \E k \in scope.reads : GetBegin(k)
  <2>1. UNCHANGED <<lead, writers, up, lastSequence, logNumber, mems>>
    BY <1>9 DEF Get, GetBegin, queueVars, memVars, lifeVars
  <2> QED
    BY <1>6, <2>1
<1>10. CASE OpenStep \/ Close
  <2>1. lead' = lead /\ (up # "running" \/ writers = << >>)
    BY <1>10 DEF OpenStep, Recover, OpenLog, OpenSaves, OpenReturns, Close, queueVars
  <2> QED
    BY <1>0, <2>1 DEF Working
<1>11. CASE CloseEnds \/ \E kind \in {"exited", "rebooted"} : Crash(kind)
  <2>1. lead' = Idle
    BY <1>11 DEF CloseEnds, Crash, Down
  <2> QED
    BY <2>1 DEF Working, Idle
<1> QED
  BY <1>1, <1>2, <1>3, <1>4, <1>5, <1>7, <1>8, <1>9, <1>10, <1>11 DEF Next, WriterStep

\* Every step keeps a group that asked for sync under a leader that does, and
\* its record synced before it is inserted.
LEMMA GroupStep ==
    ASSUME QueueInv, FilesInv, FilesInv', SyncInv, GroupInv, Next, QuietStep \/ MovingStep
    PROVE  GroupInv'
<1> SUFFICES ASSUME Working' PROVE GroupInv'
  BY DEF GroupInv, Working, Places
<1>0. /\ lead = [at |-> lead.at, delay |-> lead.delay, force |-> lead.force, group |-> lead.group]
      /\ Working => up = "running"
      /\ writers \in Seq(Writer) /\ Len(writers) \in Nat
  BY DEF QueueInv, Working, Places
<1>1. CASE GroupForms
  <2>1. PICK n \in 1 .. Len(writers) :
            /\ lead'.group = SubSeq(writers, 1, n) /\ \A i \in 2 .. n : MayJoin(writers[i])
    BY <1>1 DEF GroupForms, BuildBatchGroup
  <2>2. ASSUME NEW w \in ToSet(lead'.group), w \in Synced PROVE writers[1] \in Synced
    <3>1. /\ n \in Nat /\ DOMAIN SubSeq(writers, 1, n) = 1 .. n
          /\ \A i \in 1 .. n : SubSeq(writers, 1, n)[i] = writers[i] /\ (i = 1 \/ i \in 2 .. n)
      BY <1>0
    <3>2. PICK i \in 1 .. n : w = writers[i]
      BY <2>1, <2>2, <3>1 DEF ToSet
    <3> QED
      BY <2>1, <2>2, <3>1, <3>2 DEF MayJoin
  <2> QED
    BY <1>1, <2>2 DEF GroupForms, GroupInv
<1>2. CASE GroupStays
  <2>1. /\ Group' = Group /\ logNumber' = logNumber /\ writers'[1] = writers[1]
        /\ lead'.group = lead.group /\ Working /\ Alive /\ Alive'
    BY <1>0, <1>2 DEF GroupStays, Group, Alive
  <2>2. logNumber \in DOMAIN logs /\ logNumber \in DOMAIN logs' /\ logNumber \in DOMAIN mems
    BY <2>1 DEF FilesInv, MemsInv, MemIsNewest
  <2>3. SyncedIn(logNumber) \subseteq SyncedIn(logNumber)'
    <3>1. \A m \in DOMAIN logs \cap DOMAIN logs' : SyncedIn(m) \subseteq SyncedIn(m)'
      BY <2>1, SyncedGrows
    <3> QED
      BY <2>1, <2>2, <3>1 DEF SyncedIn
  <2>4. Sync => /\ lead.at = "sync" /\ Group \subseteq SyncedIn(logNumber)'
    <3> SUFFICES ASSUME Sync PROVE lead.at = "sync" /\ Group \subseteq SyncedIn(logNumber)'
      OBVIOUS
    <3>1. lead.at = "sync" /\ logs' = [logs EXCEPT ![logNumber].synced = Len(logs[logNumber].recs)]
      BY DEF Sync, SyncLog
    <3>2. Group \in Records(logNumber)
      BY <3>1 DEF FilesInv, MemsInv, InFlight
    <3>3. /\ logs[logNumber] \in [recs : Seq(SUBSET Entry), synced : Nat]
      BY <2>2 DEF FilesInv, LogsInv
    <3>4. logs'[logNumber].recs = logs[logNumber].recs
          /\ logs'[logNumber].synced = Len(logs[logNumber].recs)
      BY <2>2, <3>1, <3>3
    <3>5. PICK i \in 1 .. Len(logs[logNumber].recs) : Group = logs[logNumber].recs[i]
      BY <3>2, <3>3 DEF Records, ToSet
    <3> QED
      BY <2>1, <3>1, <3>4, <3>5 DEF SyncedIn
  <2>6. ASSUME lead'.at \in {"insert", "inserted"}, writers'[1] \in Synced
        PROVE  Group' \subseteq SyncedIn(logNumber)'
    <3>1. lead.at \in {"insert", "inserted"} => Group' \subseteq SyncedIn(logNumber)'
      BY <2>1, <2>3, <2>6 DEF GroupInv
    <3>2. CASE AddRecord \/ AddRecordFails \/ SyncFails
      BY <1>0, <2>1, <2>6, <3>2 DEF AddRecord, AddRecordFails, SyncFails
    <3>3. CASE InsertInto
      BY <3>1, <3>3 DEF InsertInto
    <3> QED
      BY <1>2, <2>1, <2>4, <2>6, <3>1, <3>2, <3>3 DEF GroupStays
  <2>7. ASSUME lead'.at = "inserted" PROVE Group' \subseteq mems'[logNumber']
    <3>1. CASE InsertInto
      BY <2>1, <2>2, <3>1 DEF InsertInto
    <3>2. CASE AddRecord \/ AddRecordFails \/ Sync \/ SyncFails
      BY <1>0, <2>7, <3>2 DEF AddRecord, AddRecordFails, Sync, SyncFails
    <3>3. CASE lead'.at = lead.at /\ mems' = mems
      BY <2>1, <2>7, <3>3 DEF GroupInv
    <3> QED
      BY <1>2, <3>1, <3>2, <3>3 DEF GroupStays
  <2>8. \A w \in ToSet(lead'.group) \cap Synced : writers'[1] \in Synced
    BY <2>1 DEF GroupInv
  <2> QED
    BY <2>6, <2>7, <2>8 DEF GroupInv
<1> QED
  BY <1>1, <1>2, LeaderStays

\* How the manifest changes while the database is open.
LEMMA ManifestMoves ==
    ASSUME QueueInv, BgInv, FilesInv, QuietStep \/ MovingStep, Alive, Alive'
    PROVE  \/ manifest' = manifest
           \/ /\ imm # 0 /\ manifest'.tables = version.tables \cup mems[imm]
              /\ UNCHANGED <<imm, mems, version>>
           \/ /\ Merge /\ manifest'.tables = manifest.tables /\ version'.tables = version.tables
              /\ manifest'.log = version.log
<1>1. CASE WriteManifest \/ ManifestFails
  <2>1. manifest' \in {manifest, bg.edit[1]} /\ EditIsRight /\ imm # 0 /\ UNCHANGED <<imm, mems, version>>
    BY <1>1 DEF WriteManifest, ManifestFails, BgInv, memVars
  <2> QED
    BY <2>1 DEF EditIsRight
<1>2. CASE Merge
  <2>1. /\ manifest' = [manifest EXCEPT !.level0 = @ - bg.merging, !.log = version.log,
                        !.last = lastSequence, !.next = nextFile]
        /\ version' = [version EXCEPT !.level0 = @ - bg.merging]
    BY <1>2 DEF Merge
  <2>2. manifest \in Edit /\ version \in Version
    BY DEF BgInv
  <2> QED
    BY <1>2, <2>1, <2>2 DEF Edit, Version
<1>3. CASE Recover \/ OpenLog \/ OpenSaves \/ \E kind \in {"exited", "rebooted"} : Down(kind)
  BY <1>3 DEF Recover, OpenLog, OpenSaves, Down, Alive
<1> QED
  BY <1>1, <1>2, <1>3
  DEF MovingStep, QuietStep, SwitchMemTable, AddRecord, AddRecordFails, Sync, InsertInto, Finish,
      BuildTable, CommitFlush, OpenReturns, Get, Close, GetBegin, diskVars

\* How the tables of the version change while the database is open.
LEMMA VersionMoves ==
    ASSUME QueueInv, BgInv, FilesInv, QuietStep \/ MovingStep, Alive, Alive'
    PROVE  \/ version'.tables = version.tables
           \/ /\ CommitFlush /\ imm # 0 /\ version'.tables = version.tables \cup mems[imm]
              /\ manifest.tables = version'.tables /\ UNCHANGED <<manifest, mems, logNumber>>
              /\ imm' = 0
<1>1. CASE CommitFlush
  <2>1. EditIsRight /\ imm # 0 /\ version'.tables = bg.edit[1].tables /\ bg.at = "written"
    BY <1>1 DEF CommitFlush, BgInv
  <2>2. UNCHANGED <<manifest, mems, logNumber>> /\ imm' = 0
    BY <1>1 DEF CommitFlush
  <2> QED
    BY <1>1, <2>1, <2>2 DEF EditIsRight
<1>2. CASE Merge
  <2>1. version' = [version EXCEPT !.level0 = @ - bg.merging] /\ version \in Version
    BY <1>2 DEF Merge, BgInv
  <2> QED
    BY <2>1 DEF Version
<1>3. CASE Recover \/ OpenLog \/ OpenSaves \/ OpenReturns
             \/ \E kind \in {"exited", "rebooted"} : Down(kind)
  BY <1>3 DEF Recover, OpenLog, OpenSaves, OpenReturns, Down, Alive
<1> QED
  BY <1>1, <1>2, <1>3
  DEF MovingStep, QuietStep, SwitchMemTable, AddRecord, AddRecordFails, Sync, InsertInto, Finish,
      BuildTable, WriteManifest, ManifestFails, Get, Close, GetBegin, bgVars

\* A database that is open was so before, or has just been opened.
LEMMA WasOpen ==
    ASSUME QuietStep \/ MovingStep, Alive'
    PROVE  Alive \/ OpenReturns
<1>1. CASE Recover \/ OpenLog \/ OpenSaves \/ \E kind \in {"exited", "rebooted"} : Down(kind)
  BY <1>1 DEF Recover, OpenLog, OpenSaves, Down, Alive
<1> QED
  BY <1>1
  DEF MovingStep, QuietStep, SwitchMemTable, MakingRoom, AddRecord, AddRecordFails, Sync, InsertInto,
      Finish, BuildTable, WriteManifest, ManifestFails, CommitFlush, Merge, Get, Close, GetBegin, Alive

\* The memtable in use, while the database is open.
LEMMA MemMoves ==
    ASSUME FilesInv, QuietStep \/ MovingStep, Alive, Alive'
    PROVE  \/ logNumber' = logNumber /\ mems'[logNumber'] = mems[logNumber]
           \/ SwitchMemTable /\ mems'[logNumber'] = {}
           \/ /\ InsertInto /\ logNumber' = logNumber
              /\ mems'[logNumber'] = mems[logNumber] \cup Group
<1>1. CASE SwitchMemTable
  <2>1. mems' = With(mems, nextFile, {}) /\ logNumber' = nextFile
    BY <1>1 DEF SwitchMemTable
  <2> QED
    BY <1>1, <2>1 DEF With
<1>2. CASE InsertInto
  <2>1. logNumber' = logNumber /\ mems' = [mems EXCEPT ![logNumber] = @ \cup Group]
    BY <1>2 DEF InsertInto
  <2>2. logNumber \in DOMAIN mems
    BY DEF FilesInv, MemsInv, MemIsNewest
  <2> QED
    BY <1>2, <2>1, <2>2
<1>3. CASE Recover \/ OpenLog \/ OpenSaves \/ \E kind \in {"exited", "rebooted"} : Down(kind)
  BY <1>3 DEF Recover, OpenLog, OpenSaves, Down, Alive
<1> QED
  BY <1>1, <1>2, <1>3
  DEF MovingStep, QuietStep, AddRecord, AddRecordFails, Sync, Finish, BuildTable, WriteManifest,
      ManifestFails, CommitFlush, Merge, OpenReturns, Get, Close, GetBegin, memVars

\* Every step keeps what is in memory on disk.
LEMMA DiskStep ==
    ASSUME QueueInv, BgInv, FilesInv, FilesInv', SyncInv, DiskInv, GroupInv,
           QuietStep \/ MovingStep
    PROVE  DiskInv'
<1>0. imm' # 0 => Alive'
  BY DEF FilesInv, MemsInv
<1> SUFFICES ASSUME Alive' PROVE DiskInv'
  BY <1>0 DEF DiskInv
<1>1. CASE Alive
  <2>1. version'.tables \subseteq manifest'.tables
    BY <1>1, ManifestMoves, VersionMoves DEF DiskInv
  <2>2. /\ logNumber \in DOMAIN logs /\ logNumber' \in DOMAIN logs' /\ logNumber \in DOMAIN mems
        /\ imm # 0 => imm \in DOMAIN logs /\ version.log <= imm
        /\ imm' # 0 => imm' \in DOMAIN logs'
        /\ manifest.log \in DOMAIN logs /\ \A n \in DOMAIN logs : n <= logNumber
    BY <1>1 DEF FilesInv, LogsInv, MemsInv, MemIsNewest
  <2>3. \A n \in DOMAIN logs \cap DOMAIN logs' : SyncedIn(n) \subseteq SyncedIn(n)'
    BY SyncedGrows
  <2>4. MemIsSynced(logNumber)'
    <3>1. CASE logNumber' = logNumber /\ mems'[logNumber'] = mems[logNumber]
      <4>1. \A e \in mems[logNumber] : e.by \in Synced => e \in SyncedIn(logNumber)'
        BY <1>1, <2>2, <2>3, <3>1 DEF DiskInv, MemIsSynced, SyncedIn
      <4> QED
        BY <3>1, <4>1 DEF MemIsSynced
    <3>2. CASE mems'[logNumber'] = {}
      BY <3>2 DEF MemIsSynced
    <3>3. CASE InsertInto /\ logNumber' = logNumber /\ mems'[logNumber'] = mems[logNumber] \cup Group
      <4>1. lead.at = "insert" /\ logs' = logs /\ Working /\ lastSequence \in Nat
        BY <3>3 DEF InsertInto, diskVars, Working, Places, FilesInv, MemsInv
      <4>2. SyncedIn(logNumber)' = SyncedIn(logNumber)
        BY <3>3, <4>1 DEF SyncedIn
      <4>3. ASSUME NEW e \in Group, e.by \in Synced PROVE e \in SyncedIn(logNumber)
        <5>1. e.by \in ToSet(lead.group)
          BY <4>1, GroupIs
        <5> QED
          BY <4>1, <4>3, <5>1 DEF GroupInv
      <4> QED
        BY <1>1, <3>3, <4>2, <4>3 DEF DiskInv, MemIsSynced
    <3> QED
      BY <1>1, <3>1, <3>2, <3>3, MemMoves
  <2>5. ASSUME imm' # 0
        PROVE  MemIsSynced(imm)' /\ (mems'[imm'] \subseteq manifest'.tables \/ imm' >= manifest'.log)
    <3>1. CASE imm # 0 /\ imm' = imm /\ mems'[imm'] = mems[imm]
      <4>1. \A e \in mems[imm] : e.by \in Synced => e \in SyncedIn(imm)'
        BY <2>2, <2>3, <3>1 DEF DiskInv, MemIsSynced, SyncedIn
      <4>2. MemIsSynced(imm)'
        BY <3>1, <4>1 DEF MemIsSynced
      <4>3. mems'[imm'] \subseteq manifest'.tables \/ imm' >= manifest'.log
        <5>1. version.log \in Nat /\ imm \in Nat
          BY DEF BgInv, Version, FilesInv, MemsInv
        <5> QED
          BY <1>1, <2>2, <3>1, <5>1, ManifestMoves DEF DiskInv
      <4> QED
        BY <4>2, <4>3
    <3>2. CASE SwitchMemTable /\ imm' = logNumber /\ mems'[imm'] = mems[logNumber]
      <4>1. \A e \in mems[logNumber] : e.by \in Synced => e \in SyncedIn(imm)'
        BY <1>1, <2>2, <2>3, <2>5, <3>2 DEF DiskInv, MemIsSynced, SyncedIn
      <4>2. MemIsSynced(imm)'
        BY <3>2, <4>1 DEF MemIsSynced
      <4>3. manifest' = manifest /\ manifest.log <= logNumber
        BY <2>2, <3>2 DEF SwitchMemTable
      <4>4. manifest.log \in Nat /\ logNumber \in Nat
        BY DEF BgInv, Edit, FilesInv, MemsInv
      <4> QED
        BY <3>2, <4>2, <4>3, <4>4
    <3> QED
      BY <2>5, <3>1, <3>2, ImmMoves
  <2> QED
    BY <2>1, <2>4, <2>5 DEF DiskInv
<1>2. CASE OpenReturns
  <2>1. /\ ~Alive /\ Recovered /\ version'.tables = manifest.tables /\ manifest' = manifest
        /\ UNCHANGED <<mems, logNumber, imm>> /\ \E S : logs' = Without(logs, S)
    BY <1>2 DEF OpenReturns, Alive, Recovered, memVars
  <2>2. /\ imm = 0 /\ logNumber \in DOMAIN logs /\ logNumber \in DOMAIN logs'
        /\ mems[logNumber] \subseteq InLog(logNumber)
    BY <2>1 DEF FilesInv, MemsInv, MemIsNewest
  <2>3. SyncedIn(logNumber) = InLog(logNumber)
    BY <2>1, <2>2, AllSynced DEF SyncInv
  <2>4. logs'[logNumber] = logs[logNumber]
    BY <2>1, <2>2 DEF Without
  <2>5. MemIsSynced(logNumber)'
    <3>1. SyncedIn(logNumber)' = SyncedIn(logNumber)
      BY <2>1, <2>4 DEF SyncedIn
    <3> QED
      BY <2>1, <2>2, <2>3, <3>1 DEF MemIsSynced
  <2> QED
    BY <2>1, <2>2, <2>5 DEF DiskInv
<1> QED
  BY <1>1, <1>2, WasOpen

\* Only a recovery that goes on leaves one under way.
LEMMA ReadsOn ==
    ASSUME FilesInv', QuietStep \/ MovingStep, rec'.at # "none"
    PROVE  Recover \/ OpenLog \/ OpenSaves
<1>1. ~Alive'
  BY DEF FilesInv, RecInv, NoRec
<1>2. ASSUME NEW kind \in {"exited", "rebooted"}, Down(kind) PROVE FALSE
  BY <1>2 DEF Down, NoRec
<1> QED
  BY <1>1, <1>2
  DEF MovingStep, QuietStep, SwitchMemTable, MakingRoom, AddRecord, AddRecordFails, Sync,
      InsertInto, Finish, BuildTable, WriteManifest, ManifestFails, CommitFlush, Merge, OpenReturns,
      Get, Close, GetBegin, Alive, lifeVars

\* Every step of a recovery keeps all that counts among what was read.
LEMMA ReadStep ==
    ASSUME QueueInv, BgInv, FilesInv, FilesInv', NumbersInv, ReadInv, QuietStep \/ MovingStep
    PROVE  ReadInv'
<1>0. rec = [at |-> rec.at, entries |-> rec.entries, reuse |-> rec.reuse]
  BY DEF FilesInv, RecInv
<1> SUFFICES ASSUME rec'.at # "none" PROVE ReadInv'
  BY DEF ReadInv
<1>1. Recover \/ OpenLog \/ OpenSaves
  BY ReadsOn
<1>2. CASE Recover
  <2>1. ~Alive /\ ~Alive' /\ UNCHANGED <<logs, manifest>>
    BY <1>2 DEF Recover, Alive, diskVars
  <2>2. PICK kept \in BOOLEAN : \E lastLog, tail, tabled : Read(kept, lastLog, tail, tabled)
    BY <1>2, RecoverReads DEF NumbersInv
  <2>3. PICK lastLog, tail, tabled : Read(kept, lastLog, tail, tabled)
    BY <2>2
  <2>4. Relevant' = Relevant /\ \A n : InLog(n)' = InLog(n)
    BY <2>1 DEF Relevant, InLog, Records
  <2>5. /\ rec'.at = "replayed" /\ rec'.entries = tabled /\ rec'.reuse = kept
        /\ tail = InLog(lastLog)
        /\ tabled = UNION RecordsOf(IF kept THEN Relevant \ {lastLog} ELSE Relevant)
        /\ kept => logNumber' = lastLog /\ mems' = [n \in {lastLog} |-> tail]
    BY <2>3 DEF Read
  <2>6. \A ns : \A n \in ns : InLog(n) \subseteq UNION RecordsOf(ns)
    BY DEF InLog, Records, RecordsOf
  <2>7. ASSUME NEW n \in Relevant, NEW e \in InLog(n)
        PROVE  e \in rec'.entries \/ (Recovered' /\ e \in mems'[logNumber'])
    <3>1. CASE kept /\ n = lastLog
      BY <2>5, <2>7, <3>1 DEF Recovered
    <3>2. CASE ~(kept /\ n = lastLog)
      <4>1. n \in (IF kept THEN Relevant \ {lastLog} ELSE Relevant)
        BY <3>2
      <4> QED
        BY <2>5, <2>6, <2>7, <4>1
    <3> QED
      BY <3>1, <3>2
  <2> QED
    BY <2>4, <2>5, <2>7 DEF ReadInv
<1>3. CASE OpenLog
  <2>1. /\ ~Alive /\ ~Alive' /\ manifest' = manifest /\ rec.at = "replayed"
        /\ rec'.at = "opened" /\ rec'.entries = rec.entries
    BY <1>0, <1>3 DEF OpenLog, Alive
  <2>2. CASE rec.reuse
    <3>1. UNCHANGED <<logs, mems, logNumber>> /\ Recovered /\ Recovered'
      BY <1>3, <2>1, <2>2 DEF OpenLog, Recovered
    <3>2. Relevant' = Relevant /\ \A n : InLog(n)' = InLog(n)
      BY <2>1, <3>1 DEF Relevant, InLog, Records
    <3> QED
      BY <2>1, <3>1, <3>2 DEF ReadInv
  <2>3. CASE ~rec.reuse
    <3>1. logs' = With(logs, nextFile, EmptyLog) /\ ~Recovered
      BY <1>3, <2>1, <2>3 DEF OpenLog, Recovered
    <3>2. ASSUME NEW n \in Relevant', NEW e \in InLog(n)' PROVE e \in rec.entries
      <4>1. CASE n = nextFile
        <5>1. logs'[n] = EmptyLog
          BY <3>1, <4>1 DEF With
        <5>2. InLog(n)' = {}
          BY <5>1 DEF InLog, Records, EmptyLog, ToSet
        <5> QED
          BY <3>2, <5>2
      <4>2. CASE n # nextFile
        <5>1. n \in DOMAIN logs /\ logs'[n] = logs[n] /\ n \in Relevant
          BY <2>1, <3>1, <3>2, <4>2 DEF With, Relevant
        <5>2. e \in InLog(n)
          BY <3>2, <5>1 DEF InLog, Records
        <5> QED
          BY <2>1, <3>1, <5>1, <5>2 DEF ReadInv
      <4> QED
        BY <4>1, <4>2
    <3> QED
      BY <2>1, <3>2 DEF ReadInv
  <2> QED
    BY <2>2, <2>3
<1>4. CASE OpenSaves
  <2>1. /\ ~Alive /\ ~Alive' /\ rec.at = "opened" /\ Recovered /\ Recovered'
        /\ rec'.at = "saved" /\ rec'.entries = rec.entries
        /\ UNCHANGED <<logs, mems, logNumber>>
    BY <1>0, <1>4 DEF OpenSaves, Alive, Recovered, memVars
  <2>2. \/ manifest'.tables = manifest.tables \cup rec.entries /\ manifest'.log = logNumber
        \/ rec.entries = {} /\ manifest' = manifest
    BY <1>4 DEF OpenSaves
  <2>3. /\ manifest.log <= logNumber /\ manifest.log \in Nat /\ logNumber \in Nat
        /\ DOMAIN logs \subseteq Nat
    BY <2>1 DEF FilesInv, LogsInv, MemsInv, MemIsNewest
  <2>4. \A n \in Relevant' : n \in Relevant
    BY <2>1, <2>2, <2>3 DEF Relevant
  <2>5. \A n : InLog(n)' = InLog(n)
    BY <2>1 DEF InLog, Records
  <2> QED
    BY <2>1, <2>2, <2>4, <2>5 DEF ReadInv
<1> QED
  BY <1>1, <1>2, <1>3, <1>4

\* A process ends in a crash, or because the database was closed.
LEMMA OnlyCrashes ==
    ASSUME FilesInv, Next, NEW kind \in {"exited", "rebooted"}, Down(kind)
    PROVE  kind = "exited" \/ Crash("rebooted")
<1>1. ~Alive' /\ rec'.at = "none" /\ up' = kind
  BY DEF Down, Alive, NoRec
<1>2. ~OpenStep
  <2>1. rec = [at |-> rec.at, entries |-> rec.entries, reuse |-> rec.reuse]
    BY DEF FilesInv, RecInv
  <2>2. Recover => rec'.at = "replayed"
    BY DEF Recover
  <2>3. OpenReturns => up' = "running"
    BY DEF OpenReturns
  <2>4. OpenLog => rec' = [rec EXCEPT !.at = "opened"]
    BY DEF OpenLog
  <2>5. OpenSaves => rec' = [rec EXCEPT !.at = "saved"]
    BY DEF OpenSaves
  <2> QED
    BY <1>1, <2>1, <2>2, <2>3, <2>4, <2>5 DEF OpenStep
<1>3. ~WriterStep
  BY <1>1 DEF WriterStep, Lead, RoomError, Delay, WaitForBackground, SwitchMemTable, SwitchFails,
              BuildGroup, AddRecord, AddRecordFails, Sync, SyncFails, InsertInto, Finish,
              CompactMemTableWaits, MakingRoom, lifeVars, Alive
<1>4. ~BackgroundStep
  BY <1>1 DEF BackgroundStep, BackgroundCall, MergeFlushes, BuildTable, FlushFails, WriteManifest,
              ManifestFails, CommitFlush, Merge, MergeFails, lifeVars, Alive
<1>5. (\E w \in scope.writers : Enqueue(w)) \/ (\E k \in scope.reads : GetBegin(k)) \/ Get \/ Close
        => FALSE
  BY <1>1 DEF Enqueue, GetBegin, Get, Close, lifeVars, Alive
<1>6. CloseEnds => up' = "exited"
  BY DEF CloseEnds, Down
<1>7. \A k \in {"exited", "rebooted"} : Crash(k) => up' = k
  BY DEF Crash, Down
<1> QED
  BY <1>1, <1>2, <1>3, <1>4, <1>5, <1>6, <1>7 DEF Next

\* The logs that the next recovery replays, and what it finds.
LEMMA OnDiskIs ==
    ASSUME NEW e
    PROVE  e \in OnDisk <=> \/ e \in manifest.tables
                            \/ \E n \in DOMAIN logs : n >= manifest.log /\ e \in InLog(n)
BY DEF OnDisk, RecordsOf, ToReplay, InLog, Records

\* The same, after a step.
LEMMA OnDiskWillBe ==
    ASSUME NEW e
    PROVE  e \in OnDisk' <=> \/ e \in manifest'.tables
                             \/ \E n \in DOMAIN logs' : n >= manifest'.log /\ e \in InLog(n)'
BY DEF OnDisk, RecordsOf, ToReplay, InLog, Records

\* What is in memory is on disk; what asked for sync is so for good.
LEMMA MemoryOnDisk ==
    ASSUME FilesInv, SyncInv, DiskInv, Alive, NEW e \in InMemory
    PROVE  \/ e \in manifest.tables
           \/ \E n \in DOMAIN logs : /\ n >= manifest.log /\ e \in InLog(n)
                                     /\ e.by \in Synced => e \in SyncedIn(n)
<1>1. /\ logNumber \in DOMAIN logs /\ manifest.log <= logNumber
      /\ mems[logNumber] \subseteq InLog(logNumber)
      /\ imm # 0 => imm \in DOMAIN logs /\ mems[imm] \subseteq InLog(imm)
      /\ manifest.log \in Nat /\ logNumber \in Nat
  BY DEF FilesInv, LogsInv, MemsInv, MemIsNewest
<1>2. CASE e \in mems[logNumber]
  <2>1. logNumber >= manifest.log
    BY <1>1
  <2> QED
    BY <1>1, <1>2, <2>1 DEF DiskInv, MemIsSynced
<1>3. CASE imm # 0 /\ e \in mems[imm]
  BY <1>1, <1>3 DEF DiskInv, MemIsSynced
<1>4. CASE e \in version.tables
  BY <1>4 DEF DiskInv
<1> QED
  BY <1>2, <1>3, <1>4 DEF InMemory

\* What the end of a process leaves of the disk: with no empty record, all of it
\* or, if the machine goes down, what was synced.
LEMMA DiskLeft ==
    ASSUME FilesInv, SyncInv, TornInv, torn = 0, NEW kind, Down(kind), logs' \in LogsLeft(kind)
    PROVE  /\ ~Alive' \/ kind \notin {"exited", "rebooted"}
           /\ manifest' = manifest /\ DOMAIN logs' = DOMAIN logs
           /\ \A n \in DOMAIN logs : /\ SyncedIn(n) \subseteq InLog(n)'
                                     /\ kind = "exited" => InLog(n) \subseteq InLog(n)'
<1>1. manifest' = manifest /\ (~Alive' \/ kind \notin {"exited", "rebooted"})
  BY DEF Down, Alive
<1>2. DOMAIN logs' = DOMAIN logs
  BY LogsLeftAre
<1>3. ASSUME NEW n \in DOMAIN logs
      PROVE  /\ SyncedIn(n) \subseteq InLog(n)'
             /\ kind = "exited" => InLog(n) \subseteq InLog(n)'
  <2>1. {} \notin Records(n) /\ logs[n].synced <= Len(logs[n].recs)
    BY DEF TornInv, SyncInv
  <2>2. /\ SyncedIn(n) \subseteq UNION ToSet(logs'[n].recs)
        /\ kind = "exited" => InLog(n) \subseteq UNION ToSet(logs'[n].recs)
    BY <2>1, LeftStays
  <2> QED
    BY <2>2 DEF InLog, Records
<1> QED
  BY <1>1, <1>2, <1>3

\* imm_ is dropped when its flush is committed.
LEMMA ImmDrops ==
    ASSUME FilesInv, QuietStep \/ MovingStep, Alive, Alive', imm # 0
    PROVE  CommitFlush \/ (imm' = imm /\ mems'[imm'] = mems[imm])
<1>1. CASE imm' # 0
  <2>1. ~SwitchMemTable
    BY DEF SwitchMemTable, MustWait
  <2> QED
    BY <1>1, <2>1, ImmMoves
<1>2. CASE imm' = 0
  <2>1. CASE Recover \/ OpenLog \/ OpenSaves \/ \E kind \in {"exited", "rebooted"} : Down(kind)
    BY <2>1 DEF Recover, OpenLog, OpenSaves, Down, Alive
  <2>2. CASE SwitchMemTable
    BY <2>2 DEF SwitchMemTable, MustWait
  <2>3. CASE imm' = imm
    BY <1>2, <2>3
  <2> QED
    BY <2>1, <2>2, <2>3
    DEF MovingStep, QuietStep, AddRecord, AddRecordFails, Sync, InsertInto, Finish, BuildTable,
        WriteManifest, ManifestFails, Merge, OpenReturns, Get, Close, GetBegin, memVars
<1> QED
  BY <1>1, <1>2

\* What an open database has in memory, in whatever place, it keeps.
LEMMA MemoryStays ==
    ASSUME BgInv, QueueInv, FilesInv, FilesInv', QuietStep \/ MovingStep, Alive, Alive',
           NEW e \in InMemory
    PROVE  e \in InMemory'
<1>1. CASE e \in mems[logNumber]
  <2>1. CASE logNumber' = logNumber /\ mems'[logNumber'] = mems[logNumber]
    BY <1>1, <2>1 DEF InMemory
  <2>2. CASE SwitchMemTable
    <3>1. imm' # 0
      <4>1. imm' = logNumber /\ logNumber \in DOMAIN mems
        BY <2>2 DEF SwitchMemTable, FilesInv, MemsInv, MemIsNewest
      <4> QED
        BY <4>1 DEF FilesInv, MemsInv
    <3>2. imm = 0
      BY <2>2 DEF SwitchMemTable, MustWait
    <3>3. mems'[imm'] = mems[logNumber]
      BY <3>1, <3>2, ImmMoves
    <3> QED
      BY <1>1, <3>1, <3>3 DEF InMemory
  <2>3. CASE mems'[logNumber'] = mems[logNumber] \cup Group
    BY <1>1, <2>3 DEF InMemory
  <2> QED
    BY <2>1, <2>2, <2>3, MemMoves
<1>2. CASE imm # 0 /\ e \in mems[imm]
  <2>1. CASE imm' = imm /\ mems'[imm'] = mems[imm]
    BY <1>2, <2>1 DEF InMemory
  <2>2. CASE CommitFlush
    <3>1. EditIsRight /\ version'.tables = bg.edit[1].tables
      BY <2>2 DEF CommitFlush, BgInv
    <3>2. e \in version'.tables
      BY <1>2, <3>1 DEF EditIsRight
    <3> QED
      BY <3>2 DEF InMemory
  <2> QED
    BY <1>2, <2>1, <2>2, ImmDrops
<1>3. CASE e \in version.tables
  <2>1. e \in version'.tables
    BY <1>3, VersionMoves
  <2> QED
    BY <2>1 DEF InMemory
<1> QED
  BY <1>1, <1>2, <1>3 DEF InMemory

\* What an open database shows, it goes on showing.
LEMMA OpenShows ==
    ASSUME QueueInv, BgInv, FilesInv, FilesInv', Sound(Pieces), QuietStep \/ MovingStep,
           Alive, Alive', NEW e \in Visible
    PROVE  e \in Visible'
<1>1. e \in InMemory /\ e.seq <= lastSequence
  BY DEF Visible
<1>2. e.seq \in Nat /\ lastSequence \in Nat
  BY <1>1, InMemoryIsSound DEF Entry, FilesInv, MemsInv
<1>3. e.seq <= lastSequence'
  <2>1. ~Recover
    BY DEF Recover, Alive
  <2>2. lastSequence' = lastSequence \/ (Finish /\ lastSequence' = lastSequence + Cardinality(Group))
    BY <2>1, GroupMoves
  <2>3. Finish => Cardinality(Group) \in Nat
    BY <1>2, GroupIs DEF Finish, Working, Places
  <2> QED
    BY <1>1, <1>2, <2>2, <2>3
<1>4. e \in InMemory'
  BY <1>1, MemoryStays
<1> QED
  BY <1>3, <1>4 DEF Visible

\* A database that is opened shows what was on disk.
LEMMA OpeningShows ==
    ASSUME QueueInv, BgInv, FilesInv, FilesInv', NumbersInv, ReadInv, OpenReturns,
           NEW e \in Visible
    PROVE  e \in Visible'
<1>1. /\ ~Alive /\ Alive' /\ rec.at = "saved" /\ up # "running"
      /\ version'.tables = manifest.tables /\ UNCHANGED <<mems, logNumber, lastSequence>>
  BY DEF OpenReturns, Alive, memVars
<1>2. ~InFlight
  BY <1>1 DEF QueueInv, InFlight
<1>3. \/ e \in manifest.tables
      \/ \E n \in DOMAIN logs : n >= manifest.log /\ e \in InLog(n)
  BY <1>1, OnDiskIs DEF Visible
<1>4. e \in InMemory' /\ \E S \in Pieces : e \in S
  <2>1. CASE e \in manifest.tables
    BY <1>1, <2>1, PiecesAre DEF InMemory
  <2>2. ASSUME NEW n \in DOMAIN logs, n >= manifest.log, e \in InLog(n)
        PROVE  e \in InMemory' /\ \E S \in Pieces : e \in S
    <3>1. n \in Relevant
      BY <1>1, <2>2 DEF Relevant
    <3>2. e \in manifest.tables \/ e \in mems[logNumber]
      BY <1>1, <2>2, <3>1 DEF ReadInv
    <3>3. e \in InMemory'
      BY <1>1, <3>2 DEF InMemory
    <3>4. \E S \in Pieces : e \in S
      BY <2>2, <3>1, PiecesAre DEF InLog
    <3> QED
      BY <3>3, <3>4
  <2> QED
    BY <1>3, <2>1, <2>2
<1>5. e.seq <= lastSequence'
  BY <1>1, <1>2, <1>4 DEF NumbersInv, Counted
<1> QED
  BY <1>1, <1>4, <1>5 DEF Visible

\* A recovery loses nothing of what was on disk.
LEMMA RecoveryShows ==
    ASSUME BgInv, FilesInv, ReadInv, Recover \/ OpenLog \/ OpenSaves, NEW e \in Visible,
           QuietStep \/ MovingStep, FilesInv'
    PROVE  e \in Visible'
<1>1. ~Alive /\ ~Alive' /\ e \in OnDisk
  BY DEF Recover, OpenLog, OpenSaves, Alive, Visible
<1>2. \/ e \in manifest.tables
      \/ \E n \in DOMAIN logs : n >= manifest.log /\ e \in InLog(n)
  BY <1>1, OnDiskIs
<1>3. CASE Recover \/ (OpenLog /\ rec.reuse) \/ (OpenSaves /\ manifest' = manifest)
  <2>1. logs' = logs /\ manifest' = manifest
    BY <1>3 DEF Recover, OpenLog, OpenSaves, diskVars
  <2>2. \A n : InLog(n)' = InLog(n)
    BY <2>1 DEF InLog, Records
  <2>3. e \in OnDisk'
    BY <1>2, <2>1, <2>2, OnDiskWillBe
  <2> QED
    BY <1>1, <2>3 DEF Visible
<1>4. CASE OpenLog /\ ~rec.reuse
  <2>1. /\ logs' = With(logs, nextFile, EmptyLog) /\ manifest' = manifest
        /\ rec.at = "replayed"
    BY <1>4 DEF OpenLog
  <2>2. \A n \in DOMAIN logs : n # nextFile
    <3>1. \A n \in DOMAIN logs : n < nextFile /\ n \in Nat
      BY <2>1 DEF FilesInv, LogsInv
    <3>2. nextFile \in Nat
      BY DEF FilesInv, MemsInv
    <3> QED
      BY <3>1, <3>2
  <2>3. \A n \in DOMAIN logs : n \in DOMAIN logs' /\ logs'[n] = logs[n]
    BY <2>1, <2>2 DEF With
  <2>4. \A n \in DOMAIN logs : InLog(n)' = InLog(n)
    BY <2>3 DEF InLog, Records
  <2>5. e \in OnDisk'
    BY <1>2, <2>1, <2>3, <2>4, OnDiskWillBe
  <2> QED
    BY <1>1, <2>5 DEF Visible
<1>5. CASE OpenSaves /\ manifest'.tables = manifest.tables \cup rec.entries
                     /\ manifest'.log = logNumber
  <2>1. /\ logs' = logs /\ UNCHANGED <<mems, logNumber>> /\ rec.at = "opened" /\ Recovered
    BY <1>5 DEF OpenSaves, memVars, Recovered
  <2>2. \A n : InLog(n)' = InLog(n)
    BY <2>1 DEF InLog, Records
  <2>3. /\ logNumber \in DOMAIN logs /\ mems[logNumber] \subseteq InLog(logNumber)
        /\ logNumber \in Nat
    BY <2>1 DEF FilesInv, MemsInv, MemIsNewest
  <2>4. e \in manifest'.tables \/ e \in InLog(logNumber)
    <3>1. ASSUME NEW n \in DOMAIN logs, n >= manifest.log, e \in InLog(n)
          PROVE  e \in rec.entries \/ e \in mems[logNumber]
      <4>1. n \in Relevant
        BY <1>1, <3>1 DEF Relevant
      <4> QED
        BY <2>1, <3>1, <4>1 DEF ReadInv
    <3> QED
      BY <1>2, <1>5, <2>3, <3>1
  <2>5. logNumber >= logNumber
    BY <2>3
  <2>6. e \in OnDisk'
    BY <1>5, <2>1, <2>2, <2>3, <2>4, <2>5, OnDiskWillBe
  <2> QED
    BY <1>1, <2>6 DEF Visible
<1>6. OpenSaves => \/ manifest' = manifest
                   \/ manifest'.tables = manifest.tables \cup rec.entries /\ manifest'.log = logNumber
  BY DEF OpenSaves
<1> QED
  BY <1>3, <1>4, <1>5, <1>6

\* What can be seen stays, unless the machine goes down or an append failed.
LEMMA ShownStays ==
    ASSUME QueueInv, BgInv, FilesInv, FilesInv', Sound(Pieces), NumbersInv, TornInv, SyncInv, DiskInv,
           ReadInv, Next, QuietStep \/ MovingStep, torn = 0, ~Crash("rebooted"), NEW e \in Visible
    PROVE  e \in Visible'
<1>1. CASE Alive'
  BY <1>1, WasOpen, OpenShows, OpeningShows
<1>2. CASE rec'.at # "none"
  BY <1>2, ReadsOn, RecoveryShows
<1>3. ASSUME NEW kind \in {"exited", "rebooted"}, Down(kind), logs' \in LogsLeft(kind)
      PROVE  e \in Visible'
  <2>1. kind = "exited"
    BY <1>3, OnlyCrashes
  <2>2. /\ ~Alive' /\ manifest' = manifest /\ DOMAIN logs' = DOMAIN logs
        /\ \A n \in DOMAIN logs : InLog(n) \subseteq InLog(n)'
    BY <1>3, <2>1, DiskLeft
  <2>3. \/ e \in manifest.tables
        \/ \E n \in DOMAIN logs : n >= manifest.log /\ e \in InLog(n)
    BY MemoryOnDisk, OnDiskIs DEF Visible
  <2>4. e \in OnDisk'
    BY <2>2, <2>3, OnDiskWillBe
  <2> QED
    BY <2>2, <2>4 DEF Visible
<1> QED
  BY <1>1, <1>2, <1>3, LivesOrEnds

\* Each write of a group has an entry.
LEMMA GroupHasEach ==
    ASSUME QueueInv, Working, NEW w \in Write, w \in ToSet(lead.group)
    PROVE  \E e \in Group : e.by = w
<1> DEFINE ws == lead.group
<1>1. ws \in Seq(Writer)
  <2>1. writers \in Seq(Writer) /\ Len(ws) \in 1 .. Len(writers) /\ ws = SubSeq(writers, 1, Len(ws))
    BY DEF QueueInv, GroupIsFront
  <2> HIDE DEF ws
  <2>2. SubSeq(writers, 1, Len(ws)) \in Seq(Writer)
    BY <2>1
  <2> QED
    BY <2>1, <2>2
<1>2. PICK i \in DOMAIN ws : ws[i] = w
  BY DEF ToSet
<1>3. w \in Writer /\ Batch[w] # << >>
  BY BatchTypes DEF Write
<1>4. 1 \in DOMAIN Batch[w]
  BY <1>3, BatchTypes
<1>5. i \in 1 .. Len(ws)
  BY <1>1, <1>2
<1>6. <<i, 1>> \in Items(ws)
  <2> HIDE DEF ws
  <2> QED
    BY <1>1, <1>2, <1>4, <1>5, ItemsFinite
<1> DEFINE entry(p) == [key |-> Batch[ws[p[1]]][p[2]], by |-> ws[p[1]],
                        seq |-> lastSequence + 1 + Cardinality(Before(ws, p))]
<1>7. Group = {entry(p) : p \in Items(ws)}
  BY DEF Group, Entries
<1>8. entry(<<i, 1>>).by = w
  BY <1>2
<1>9. entry(<<i, 1>>) \in Group
  <2> HIDE DEF entry, ws
  <2> QED
    BY <1>6, <1>7
<1> QED
  BY <1>8, <1>9

\* A batch is answered with success by Finish, when its group was inserted.
LEMMA OkComes ==
    ASSUME QueueInv, Next, scope \in Scopes, NEW w \in Write, status'[w] = "ok", status[w] # "ok"
    PROVE  Finish /\ lead.at = "inserted" /\ w \in ToSet(lead.group)
<1>0. w \in Writer /\ w \notin Flusher /\ status \in [Writer -> Statuses]
  BY DEF Write, QueueInv
<1>1. status' # status
  OBVIOUS
<1>2. ASSUME NEW v \in scope.writers, Enqueue(v) PROVE FALSE
  <2>1. status' = [status EXCEPT ![v] = "waiting"]
    BY <1>2 DEF Enqueue
  <2> QED
    BY <1>0, <2>1
<1>3. ASSUME NEW ws, NEW ok, Return(ws, ok) PROVE ok /\ w \in ToSet(ws)
  <2>1. status'[w] = IF w \notin ToSet(ws) THEN status[w]
                     ELSE IF ~ok THEN "failed"
                     ELSE IF w \in Flusher THEN "flushing" ELSE "ok"
    BY <1>0, <1>3 DEF Return
  <2> QED
    BY <2>1
<1>4. ASSUME RoomError \/ SwitchFails PROVE FALSE
  <2>1. Return(<<writers[1]>>, FALSE)
    BY <1>4 DEF RoomError, SwitchFails
  <2> QED
    BY <1>3, <2>1
<1>5. ASSUME BuildGroup PROVE FALSE
  <2>1. writers[1] \in Flusher /\ Return(<<writers[1]>>, TRUE)
    BY <1>1, <1>5 DEF BuildGroup
  <2>2. w \in ToSet(<<writers[1]>>)
    BY <1>3, <2>1
  <2>3. w = writers[1]
    BY <2>2 DEF ToSet
  <2> QED
    BY <1>0, <2>1, <2>3
<1>6. CASE Finish
  <2>1. Return(lead.group, lead.at = "inserted")
    BY <1>6 DEF Finish
  <2> QED
    BY <1>3, <1>6, <2>1
<1>7. ASSUME NEW f \in Flusher, CompactMemTableWaits(f) PROVE FALSE
  <2>1. f \in Writer /\ f # w
    BY <1>0 DEF Flusher
  <2>2. PICK x : status' = [status EXCEPT ![f] = x]
    BY <1>1, <1>7 DEF CompactMemTableWaits
  <2> QED
    BY <1>0, <2>1, <2>2
<1>8. ~BackgroundStep
  BY <1>1 DEF BackgroundStep, BackgroundCall, MergeFlushes, BuildTable, FlushFails, WriteManifest,
              ManifestFails, CommitFlush, Merge, MergeFails, queueVars
<1>9. ~OpenStep
  BY <1>1 DEF OpenStep, Recover, OpenLog, OpenSaves, OpenReturns, queueVars
<1>10. ASSUME NEW kind, Down(kind) PROVE FALSE
  <2>1. status'[w] = IF status[w] \in {"waiting", "flushing"} THEN "lost" ELSE status[w]
    BY <1>0, <1>10 DEF Down
  <2> QED
    BY <2>1
<1>11. ~CloseEnds /\ ~(\E kind \in {"exited", "rebooted"} : Crash(kind))
  BY <1>10 DEF CloseEnds, Crash
<1>12. (\E k \in scope.reads : GetBegin(k)) \/ Get \/ Close => FALSE
  BY <1>1 DEF GetBegin, Get, Close, queueVars
<1>13. Lead \/ Delay \/ WaitForBackground \/ SwitchMemTable \/ AddRecord \/ AddRecordFails \/ Sync
         \/ SyncFails \/ InsertInto => FALSE
  BY <1>1 DEF Lead, Delay, WaitForBackground, SwitchMemTable, AddRecord, AddRecordFails, Sync,
              SyncFails, InsertInto
<1> QED
  BY <1>2, <1>4, <1>5, <1>6, <1>7, <1>8, <1>9, <1>11, <1>12, <1>13 DEF Next, WriterStep

\* What is answered with success is shown with that.
LEMMA OkShows ==
    ASSUME QueueInv, FilesInv, GroupInv, Next, scope \in Scopes,
           NEW w \in Write, status'[w] = "ok", status[w] # "ok"
    PROVE  \E e \in Visible' : e.by = w
<1>1. Finish /\ lead.at = "inserted" /\ w \in ToSet(lead.group)
  BY OkComes
<1>2. /\ Working /\ lastSequence \in Nat /\ Alive' /\ UNCHANGED <<mems, logNumber>>
      /\ lastSequence' = lastSequence + Cardinality(Group)
  BY <1>1 DEF Working, Places, FilesInv, MemsInv, Finish, Count, Alive, lifeVars
<1>3. PICK e \in Group : e.by = w
  BY <1>1, <1>2, GroupHasEach
<1>4. e \in InMemory'
  BY <1>1, <1>2, <1>3 DEF GroupInv, InMemory
<1>5. e.seq <= lastSequence'
  BY <1>2, <1>3, GroupIs
<1> QED
  BY <1>2, <1>3, <1>4, <1>5 DEF Visible

\* Every step keeps the synced writes that were answered.
LEMMA SyncedStayStep ==
    ASSUME DBInv, FilesInv', StayInv, Next, QuietStep \/ MovingStep
    PROVE  SyncedStay'
<1>1. /\ QueueInv /\ BgInv /\ FilesInv /\ Sound(Pieces) /\ NumbersInv /\ scope \in Scopes
      /\ TornInv /\ SyncInv /\ DiskInv /\ GroupInv /\ ReadInv /\ SyncedStay
  BY DEF DBInv, StayInv
<1> SUFFICES ASSUME torn' = 0, NEW w \in Write \cap Synced, status'[w] = "ok"
             PROVE  \E e \in Visible' : e.by = w
  BY DEF SyncedStay
<1>2. torn = 0
  <2>1. torn \in Nat
    BY <1>1 DEF TornInv
  <2> QED
    BY <2>1, TornMoves
<1>3. CASE status[w] = "ok"
  <2>1. PICK e \in Visible : e.by = w
    BY <1>1, <1>2, <1>3 DEF SyncedStay
  <2>2. CASE ~Crash("rebooted")
    <3>1. e \in Visible'
      BY <1>1, <1>2, <2>2, ShownStays
    <3> QED
      BY <2>1, <3>1
  <2>3. CASE Crash("rebooted")
    <3>1. Down("rebooted") /\ logs' \in LogsLeft("rebooted")
      BY <2>3 DEF Crash
    <3>2. /\ ~Alive' /\ manifest' = manifest /\ DOMAIN logs' = DOMAIN logs
          /\ \A n \in DOMAIN logs : SyncedIn(n) \subseteq InLog(n)'
      BY <1>1, <1>2, <3>1, DiskLeft
    <3>3. \/ e \in manifest.tables
          \/ \E n \in DOMAIN logs : n >= manifest.log /\ e \in SyncedIn(n)
      <4>1. CASE Alive
        BY <1>1, <2>1, <4>1, MemoryOnDisk DEF Visible
      <4>2. CASE ~Alive
        <5>1. \A n \in DOMAIN logs : SyncedIn(n) = InLog(n)
          BY <1>1, <4>2, AllSynced DEF SyncInv
        <5> QED
          BY <2>1, <4>2, <5>1, OnDiskIs DEF Visible
      <4> QED
        BY <4>1, <4>2
    <3>4. e \in OnDisk'
      BY <3>2, <3>3, OnDiskWillBe
    <3> QED
      BY <2>1, <3>2, <3>4 DEF Visible
  <2> QED
    BY <2>2, <2>3
<1>4. CASE status[w] # "ok"
  BY <1>1, <1>4, OkShows
<1> QED
  BY <1>3, <1>4

\* It is so at the start.
LEMMA StartsToStay ==
    ASSUME Init
    PROVE  StayInv
<1>1. /\ DOMAIN logs = {3} /\ logs[3] = EmptyLog /\ mems[3] = {} /\ torn = 0 /\ logNumber = 3
      /\ imm = 0 /\ rec = NoRec /\ lead = Idle /\ up = "running"
      /\ version.tables = {} /\ \A w \in Writer : status[w] = "new"
  BY DEF Init
<1>2. Records(3) = {}
  BY <1>1 DEF Records, EmptyLog, ToSet
<1>3. TornInv
  BY <1>1, <1>2 DEF TornInv
<1>4. SyncInv
  BY <1>1 DEF SyncInv, EmptyLog, Alive
<1>5. DiskInv
  BY <1>1 DEF DiskInv, MemIsSynced
<1>6. GroupInv
  BY <1>1 DEF GroupInv, Working, Idle
<1>7. ReadInv
  BY <1>1 DEF ReadInv, NoRec
<1>8. SyncedStay
  BY <1>1 DEF SyncedStay, Write
<1> QED
  BY <1>3, <1>4, <1>5, <1>6, <1>7, <1>8 DEF StayInv

\* A step that changes nothing keeps it.
LEMMA StutterStays ==
    ASSUME StayInv, UNCHANGED vars
    PROVE  StayInv'
<1>1. UNCHANGED <<writers, status, lead, mems, logNumber, imm, lastSequence, version, logs, manifest,
                  up, rec, torn>>
  BY DEF vars, queueVars, memVars, bgVars, diskVars, lifeVars
<1>2. (Alive' <=> Alive) /\ (Recovered' <=> Recovered) /\ (Working' <=> Working) /\ Group' = Group
  BY <1>1 DEF Alive, Recovered, Working, Group
<1>3. \A n : Records(n)' = Records(n) /\ InLog(n)' = InLog(n) /\ SyncedIn(n)' = SyncedIn(n)
  BY <1>1 DEF Records, InLog, SyncedIn
<1>4. Relevant' = Relevant
  BY <1>1 DEF Relevant, Alive
<1>5. Visible' = Visible
  BY <1>1 DEF Visible, InMemory, OnDisk, RecordsOf, ToReplay, Alive
<1>6. TornInv' /\ SyncInv'
  BY <1>1, <1>2, <1>3 DEF StayInv, TornInv, SyncInv
<1>7. DiskInv'
  BY <1>1, <1>2, <1>3 DEF StayInv, DiskInv, MemIsSynced
<1>8. GroupInv'
  BY <1>1, <1>2, <1>3 DEF StayInv, GroupInv
<1>9. ReadInv'
  BY <1>1, <1>2, <1>3, <1>4 DEF StayInv, ReadInv
<1>10. SyncedStay'
  BY <1>1, <1>5 DEF StayInv, SyncedStay
<1> QED
  BY <1>6, <1>7, <1>8, <1>9, <1>10 DEF StayInv

\* The two invariants together are inductive.
LEMMA BothKeep ==
    ASSUME DBInv, StayInv, [Next]_vars
    PROVE  DBInv' /\ StayInv'
<1>1. CASE UNCHANGED vars
  BY <1>1, StutterKeeps, StutterStays
<1>2. CASE Next
  <2>1. DBInv'
    BY <1>2, StepKeeps
  <2>2. /\ QueueInv /\ BgInv /\ FilesInv /\ NumbersInv /\ FilesInv' /\ scope \in Scopes
    BY <2>1 DEF DBInv
  <2>3. QuietStep \/ MovingStep
    BY <1>2, <2>2, StepKinds
  <2>4. TornInv' /\ SyncInv' /\ DiskInv' /\ GroupInv' /\ ReadInv'
    BY <1>2, <2>2, <2>3, TornStep, SyncStep, DiskStep, GroupStep, ReadStep DEF StayInv
  <2>5. SyncedStay'
    BY <1>2, <2>2, <2>3, SyncedStayStep
  <2> QED
    BY <2>1, <2>4, <2>5 DEF StayInv
<1> QED
  BY <1>1, <1>2

\* Readers see the newest entries of their snapshots, recoveries whole batches,
\* and all of them what was synced: DBImpl's SnapshotsAreRight holds whatever is
\* written, switched, flushed, merged, torn or lost while they run.
THEOREM SnapshotsHold == Spec => []SnapshotsAreRight
<1>1. Init => DBInv /\ StayInv
  BY StartsRight, StartsToStay
<1>2. (DBInv /\ StayInv) /\ [Next]_vars => (DBInv /\ StayInv)'
  BY BothKeep
<1>3. DBInv /\ StayInv => SnapshotsAreRight
  <2> SUFFICES ASSUME DBInv, StayInv PROVE SnapshotsAreRight
    OBVIOUS
  <2>1. GetIsSnapshot
    BY DEF DBInv, ReaderInv, ReaderIsRight, GetIsSnapshot
  <2>2. SyncedStay
    BY DEF StayInv
  <2> QED
    BY <2>1, <2>2, TypesAreRight, WritesAreWhole, NumbersAreUnique DEF SnapshotsAreRight
<1> QED
  BY <1>1, <1>2, <1>3, PTL DEF Spec

\* WriteOptions::sync, options.h: "if it is just the process that crashes (i.e.,
\* the machine does not reboot), no writes will be lost even if sync==false".
\* What can be seen stays, through closing, crashing, recovering and opening,
\* unless the machine goes down or an append has failed.
ShownStay == [][torn = 0 /\ ~Crash("rebooted") => Visible \subseteq Visible']_vars

\* No step of DBImpl but a reboot takes away what readers and recoveries see.
THEOREM NoShownIsLost == Spec => ShownStay
<1>1. Init => DBInv /\ StayInv
  BY StartsRight, StartsToStay
<1>2. (DBInv /\ StayInv) /\ [Next]_vars => (DBInv /\ StayInv)'
  BY BothKeep
<1>3. (DBInv /\ StayInv) /\ [Next]_vars
        => [torn = 0 /\ ~Crash("rebooted") => Visible \subseteq Visible']_vars
  <2> SUFFICES ASSUME DBInv, StayInv, Next, torn = 0, ~Crash("rebooted"), NEW e \in Visible
               PROVE  e \in Visible'
    OBVIOUS
  <2>1. /\ QueueInv /\ BgInv /\ FilesInv /\ Sound(Pieces) /\ NumbersInv /\ scope \in Scopes
        /\ TornInv /\ SyncInv /\ DiskInv /\ ReadInv /\ FilesInv'
    BY StepKeeps DEF DBInv, StayInv
  <2>2. QuietStep \/ MovingStep
    BY <2>1, StepKinds
  <2> QED
    BY <2>1, <2>2, ShownStays
<1> QED
  BY <1>1, <1>2, <1>3, PTL DEF Spec, ShownStay

-----------------------------------------------------------------------------
(***************************************************************************)
(* What is new                                                             *)
(***************************************************************************)

\* What is in the logs that count, and not in memory: a group that is being
\* written, or one whose sync failed.
Hidden == (UNION RecordsOf(Relevant)) \ InMemory

HiddenInv ==
    Alive => /\ manifest.tables \subseteq InMemory
             /\ Precedes(InMemory, Hidden)
             /\ \A e \in Hidden : status[e.by] # "ok"
             /\ \/ Hidden = {}
                \/ InFlight /\ Hidden \subseteq Group
                \/ bgError /\ ~Working

\* A recovery makes nothing up.
SavedInv == rec.at # "none" => rec.entries \subseteq OnDisk

\* An error stays as long as the database is open.
LEMMA ErrorStays ==
    ASSUME Next, Alive, Alive', bgError
    PROVE  bgError'
<1>1. ~Recover /\ ~OpenLog /\ ~OpenSaves /\ ~OpenReturns
  BY DEF Recover, OpenLog, OpenSaves, OpenReturns, Alive
<1>2. \A kind \in {"exited", "rebooted"} : ~Down(kind)
  BY DEF Down, Alive
<1>3. ~CloseEnds /\ \A kind \in {"exited", "rebooted"} : ~Crash(kind)
  BY <1>2 DEF CloseEnds, Crash
<1>4. BackgroundStep => bgError'
  BY DEF BackgroundStep, BackgroundCall, MergeFlushes, BuildTable, FlushFails, WriteManifest,
         ManifestFails, CommitFlush, Merge, MergeFails
<1>5. WriterStep => bgError'
  BY DEF WriterStep, Lead, RoomError, Delay, WaitForBackground, SwitchMemTable, SwitchFails,
         BuildGroup, AddRecord, AddRecordFails, Sync, SyncFails, InsertInto, Finish,
         CompactMemTableWaits, bgVars
<1> QED
  BY <1>1, <1>3, <1>4, <1>5 DEF Next, OpenStep, Enqueue, GetBegin, Get, Close, bgVars

\* Nothing but the group at work gets into memory.
LEMMA MemoryMoves ==
    ASSUME BgInv, QueueInv, FilesInv, QuietStep \/ MovingStep, Alive, Alive', NEW e \in InMemory'
    PROVE  e \in InMemory \/ (InsertInto /\ e \in Group)
<1>1. CASE e \in mems'[logNumber']
  BY <1>1, MemMoves DEF InMemory
<1>2. CASE imm' # 0 /\ e \in mems'[imm']
  BY <1>2, ImmMoves DEF InMemory
<1>3. CASE e \in version'.tables
  BY <1>3, VersionMoves DEF InMemory
<1> QED
  BY <1>1, <1>2, <1>3 DEF InMemory

\* Nothing but the group's record gets into a log.
LEMMA HiddenMoves ==
    ASSUME QueueInv, BgInv, BgInv', FilesInv, FilesInv', QuietStep \/ MovingStep, Alive, Alive',
           NEW e \in Hidden'
    PROVE  e \notin InMemory' /\ (e \in Hidden \/ (AddRecord /\ e \in Group))
<1>1. e \notin InMemory' /\ e \notin InMemory
  <2>1. e \notin InMemory'
    BY DEF Hidden
  <2>2. ASSUME e \in InMemory PROVE FALSE
    BY <2>1, <2>2, MemoryStays
  <2> QED
    BY <2>1, <2>2
<1>2. PICK n \in Relevant' : \E r \in ToSet(logs'[n].recs) : e \in r
  BY DEF Hidden, RecordsOf
<1>3. PICK r \in ToSet(logs'[n].recs) : e \in r
  BY <1>2
<1>4. (n \in Relevant /\ r \in Records(n)) \/ (AddRecord /\ r = Group)
  BY <1>2, <1>3, LogsMove DEF RecordsStay
<1>5. ASSUME n \in Relevant, r \in Records(n) PROVE e \in Hidden
  <2>1. r \in RecordsOf(Relevant)
    BY <1>5 DEF RecordsOf, Records
  <2> QED
    BY <1>1, <1>3, <2>1 DEF Hidden
<1> QED
  BY <1>1, <1>3, <1>4, <1>5

\* While the database is open, what is hidden is the group at work, or behind
\* an error; and it is newer than what is in memory.
LEMMA HiddenStays ==
    ASSUME QueueInv, BgInv, BgInv', FilesInv, FilesInv', Sound(Pieces), NumbersInv, GroupInv, HiddenInv,
           Next, scope \in Scopes, QuietStep \/ MovingStep, Alive, Alive'
    PROVE  HiddenInv'
<1>0. /\ Hidden \subseteq Entry /\ InMemory \subseteq Entry /\ lastSequence \in Nat
      /\ \A e \in InMemory : \/ e.seq <= lastSequence
                             \/ lead.at = "inserted" /\ e \in mems[logNumber]
  <2>1. RecordsOf(Relevant) \subseteq Pieces
    BY DEF Pieces
  <2>2. Hidden \subseteq Entry
    BY <2>1 DEF Hidden, Sound
  <2>3. Counted
    BY DEF NumbersInv
  <2> QED
    BY <2>2, <2>3, InMemoryIsSound DEF InMemory, Counted, FilesInv, MemsInv, Tabled
<1>1. manifest'.tables \subseteq InMemory'
  <2>1. manifest.tables \subseteq InMemory'
    BY MemoryStays DEF HiddenInv
  <2>2. version.tables \subseteq InMemory' /\ (imm # 0 => mems[imm] \subseteq InMemory')
    BY MemoryStays DEF InMemory
  <2> QED
    BY <2>1, <2>2, ManifestMoves
<1>2. lead.at = "inserted" => Hidden = {}
  <2> SUFFICES ASSUME lead.at = "inserted" PROVE Hidden = {}
    OBVIOUS
  <2>1. InFlight /\ Working /\ Group \subseteq InMemory
    BY DEF InFlight, Working, Places, GroupInv, InMemory
  <2> QED
    BY <2>1 DEF HiddenInv, Hidden
<1>3. InsertInto => Hidden' = {}
  <2> SUFFICES ASSUME InsertInto, NEW e \in Hidden' PROVE FALSE
    OBVIOUS
  <2>1. e \in Hidden /\ e \notin InMemory'
    BY HiddenMoves DEF InsertInto, AddRecord
  <2>2. InFlight /\ Working
    BY DEF InsertInto, InFlight, Working, Places
  <2>3. e \in Group
    BY <2>1, <2>2 DEF HiddenInv
  <2>4. Group \subseteq mems'[logNumber'] /\ mems'[logNumber'] \subseteq InMemory'
    <3>1. mems'[logNumber'] = mems[logNumber] \cup Group
      BY DEF InsertInto, FilesInv, MemsInv, MemIsNewest
    <3> QED
      BY <3>1 DEF InMemory
  <2> QED
    BY <2>1, <2>3, <2>4
<1>4. AddRecord => \A e \in Group : /\ lastSequence < e.seq /\ e \in Entry
                                    /\ status'[e.by] # "ok"
  BY <1>0, GroupIs DEF AddRecord, Working, Places
<1>5. Precedes(InMemory', Hidden')
  <2> SUFFICES ASSUME NEW e \in InMemory', NEW f \in Hidden' PROVE e.seq < f.seq
    BY DEF Precedes
  <2>1. e \in InMemory /\ ~InsertInto
    BY <1>3, MemoryMoves
  <2>2. CASE f \in Hidden
    BY <2>1, <2>2 DEF HiddenInv, Precedes
  <2>3. CASE AddRecord /\ f \in Group
    <3>1. e.seq <= lastSequence /\ e.seq \in Nat /\ f.seq \in Nat
      BY <1>0, <1>4, <2>1, <2>3 DEF AddRecord, Entry
    <3> QED
      BY <1>0, <1>4, <2>3, <3>1
  <2> QED
    BY <2>2, <2>3, HiddenMoves
<1>6. ASSUME NEW e \in Hidden' PROVE status'[e.by] # "ok"
  <2>1. CASE e \in Hidden
    <3>1. e.by \in Write /\ status[e.by] # "ok"
      BY <1>0, <2>1 DEF Entry, HiddenInv
    <3> QED
      BY <1>2, <2>1, <3>1, OkComes
  <2> QED
    BY <1>4, <1>6, <2>1, HiddenMoves
<1>7. \/ Hidden' = {}
      \/ InFlight' /\ Hidden' \subseteq Group'
      \/ bgError' /\ ~Working'
  <2>1. CASE AddRecord
    <3>1. InFlight' /\ Group' = Group /\ ~InFlight
      BY <2>1, GroupMoves DEF AddRecord, Recover, Alive
    <3>2. Working
      BY <2>1 DEF AddRecord, Working, Places
    <3>3. Hidden = {}
      BY <3>1, <3>2 DEF HiddenInv
    <3> QED
      BY <3>1, <3>3, HiddenMoves
  <2>2. ~AddRecord => Hidden' \subseteq Hidden
    BY HiddenMoves
  <2>3. CASE InFlight /\ Hidden \subseteq Group /\ ~AddRecord
    <3>1. ~Recover
      BY DEF Recover, Alive
    <3>2. (InFlight' /\ Group' = Group) \/ Finish
      BY <2>3, <3>1, GroupMoves
    <3>3. CASE Finish
      <4>1. lead.at = "inserted" \/ lead.at = "syncFailed"
        BY <2>3, <3>3 DEF Finish, InFlight
      <4>2. lead.at = "syncFailed" => bgError' /\ ~Working'
        BY <3>3 DEF Finish, Return, Idle, Working
      <4> QED
        BY <1>2, <2>2, <2>3, <4>1, <4>2
    <3> QED
      BY <2>2, <2>3, <3>2, <3>3
  <2>4. CASE bgError /\ ~Working /\ ~AddRecord
    <3>1. Working' => Working
      BY <2>4, LeaderStays DEF GroupStays, GroupForms
    <3> QED
      BY <2>4, <3>1, ErrorStays
  <2> QED
    BY <2>1, <2>2, <2>3, <2>4 DEF HiddenInv
<1> QED
  BY <1>1, <1>5, <1>6, <1>7 DEF HiddenInv

\* A database that is opened has in memory all that was on disk.
LEMMA OpensAll ==
    ASSUME QueueInv, BgInv, BgInv', FilesInv, FilesInv', ReadInv, OpenReturns, MovingStep
    PROVE  manifest'.tables \subseteq InMemory' /\ Hidden' = {}
<1>1. /\ ~Alive /\ Alive' /\ rec.at = "saved"
      /\ version'.tables = manifest.tables /\ UNCHANGED <<manifest, mems, logNumber>>
  BY DEF OpenReturns, Alive, memVars
<1>2. manifest'.tables \subseteq InMemory'
  BY <1>1 DEF InMemory
<1>3. ASSUME NEW e \in Hidden' PROVE FALSE
  <2>1. e \notin InMemory'
    BY DEF Hidden
  <2>2. PICK n \in Relevant' : \E r \in ToSet(logs'[n].recs) : e \in r
    BY DEF Hidden, RecordsOf
  <2>3. n \in Relevant /\ e \in InLog(n)
    <3>1. ~AddRecord
      BY <1>1 DEF AddRecord, Alive
    <3> QED
      BY <2>2, <3>1, LogsMove DEF RecordsStay, InLog
  <2>4. e \in rec.entries \/ e \in mems[logNumber]
    BY <1>1, <2>3 DEF ReadInv
  <2>5. e \in manifest'.tables \/ e \in mems'[logNumber']
    BY <1>1, <2>4 DEF ReadInv
  <2> QED
    BY <1>2, <2>1, <2>5 DEF InMemory
<1> QED
  BY <1>2, <1>3

\* Every step keeps what is hidden behind what is shown.
LEMMA HiddenStep ==
    ASSUME QueueInv, BgInv, BgInv', FilesInv, FilesInv', Sound(Pieces), NumbersInv, GroupInv, ReadInv,
           HiddenInv, Next, scope \in Scopes, QuietStep \/ MovingStep
    PROVE  HiddenInv'
<1>1. CASE ~Alive'
  BY <1>1 DEF HiddenInv
<1>2. CASE OpenReturns
  BY <1>2, OpensAll DEF HiddenInv, Precedes, MovingStep
<1> QED
  BY <1>1, <1>2, HiddenStays, WasOpen

\* A recovery goes on with what it read, all of which was on disk.
LEMMA SavedStep ==
    ASSUME BgInv, FilesInv, FilesInv', NumbersInv, ReadInv, SavedInv, QuietStep \/ MovingStep
    PROVE  SavedInv'
<1> SUFFICES ASSUME rec'.at # "none", NEW e \in rec'.entries PROVE e \in OnDisk'
  BY DEF SavedInv
<1>1. Recover \/ OpenLog \/ OpenSaves
  BY ReadsOn
<1>2. ~Alive /\ ~Alive' /\ rec = [at |-> rec.at, entries |-> rec.entries, reuse |-> rec.reuse]
  BY <1>1 DEF Recover, OpenLog, OpenSaves, Alive, FilesInv, RecInv
<1>3. CASE Recover
  <2>1. PICK K \in SUBSET Relevant : rec'.entries = UNION RecordsOf(K)
    <3>1. PICK kept, lastLog, tail, tabled : Read(kept, lastLog, tail, tabled)
      BY <1>3, RecoverReads DEF NumbersInv
    <3>2. rec'.entries = UNION RecordsOf(IF kept THEN Relevant \ {lastLog} ELSE Relevant)
      BY <3>1 DEF Read
    <3>3. (IF kept THEN Relevant \ {lastLog} ELSE Relevant) \in SUBSET Relevant
      OBVIOUS
    <3> QED
      BY <3>2, <3>3
  <2>2. e \in OnDisk
    BY <1>2, <2>1 DEF OnDisk, RecordsOf, Relevant, ToReplay
  <2>3. OnDisk' = OnDisk
    BY <1>3 DEF Recover, diskVars, OnDisk, RecordsOf, ToReplay
  <2> QED
    BY <2>2, <2>3
<1>4. CASE OpenLog \/ OpenSaves
  <2>1. rec.at # "none" /\ rec'.entries = rec.entries
    BY <1>2, <1>4 DEF OpenLog, OpenSaves
  <2>2. e \in Visible
    BY <1>2, <2>1 DEF SavedInv, Visible
  <2>3. e \in Visible'
    BY <1>4, <2>2, RecoveryShows
  <2> QED
    BY <1>2, <2>3 DEF Visible
<1> QED
  BY <1>1, <1>3, <1>4

\* Closed or being opened, a database finds nothing that was not on disk.
LEMMA DiskMakesNothing ==
    ASSUME QueueInv, BgInv, FilesInv, FilesInv', SavedInv, QuietStep \/ MovingStep, Next,
           ~Alive', NEW e \in OnDisk'
    PROVE  e \in OnDisk
<1>1. CASE rec'.at # "none"
  <2>1. Recover \/ OpenLog \/ OpenSaves
    BY <1>1, ReadsOn
  <2>2. CASE Recover
    <3>1. OnDisk' = OnDisk
      BY <2>2 DEF Recover, diskVars, OnDisk, RecordsOf, ToReplay
    <3> QED
      BY <3>1
  <2>3. CASE OpenLog
    <3>1. manifest' = manifest /\ (logs' = logs \/ logs' = With(logs, nextFile, EmptyLog))
      BY <2>3 DEF OpenLog
    <3>2. \A n \in DOMAIN logs' : InLog(n)' = {} \/ (n \in DOMAIN logs /\ InLog(n)' = InLog(n))
      BY <3>1 DEF With, EmptyLog, InLog, Records, ToSet
    <3> QED
      BY <3>1, <3>2, OnDiskIs, OnDiskWillBe
  <2>4. CASE OpenSaves
    <3>1. /\ logs' = logs /\ rec.at = "opened"
          /\ \/ manifest' = manifest
             \/ manifest'.tables = manifest.tables \cup rec.entries /\ manifest'.log = logNumber
      BY <2>4 DEF OpenSaves
    <3>2. \A n : InLog(n)' = InLog(n)
      BY <3>1 DEF InLog, Records
    <3>3. rec.entries \subseteq OnDisk
      BY <3>1 DEF SavedInv
    <3>4. /\ manifest.log \in Nat /\ logNumber \in Nat /\ manifest.log <= logNumber
          /\ DOMAIN logs \subseteq Nat
      BY <3>1 DEF FilesInv, LogsInv, MemsInv, MemIsNewest, Recovered
    <3>5. \A n \in DOMAIN logs : n >= logNumber => n >= manifest.log
      BY <3>4
    <3> QED
      BY <3>1, <3>2, <3>3, <3>5, OnDiskIs, OnDiskWillBe
  <2> QED
    BY <2>1, <2>2, <2>3, <2>4
<1>2. ASSUME NEW kind \in {"exited", "rebooted"}, Down(kind), logs' \in LogsLeft(kind)
      PROVE  e \in OnDisk
  <2>1. manifest' = manifest /\ DOMAIN logs' = DOMAIN logs
    BY <1>2, LogsLeftAre DEF Down
  <2>2. \A n \in DOMAIN logs : ToSet(logs'[n].recs) \subseteq Records(n)
    BY <1>2, LogsLeftAre
  <2>3. \A n \in DOMAIN logs : InLog(n)' \subseteq InLog(n)
    BY <2>2 DEF InLog, Records
  <2> QED
    BY <2>1, <2>3, OnDiskIs, OnDiskWillBe
<1> QED
  BY <1>1, <1>2, LivesOrEnds

\* What an open database has on disk and does not show was not answered with
\* success, and is newer than what it shows.
LEMMA UnseenIsNew ==
    ASSUME QueueInv, BgInv, FilesInv, Sound(Pieces), NumbersInv, HiddenInv, Alive,
           NEW f \in OnDisk \ Visible
    PROVE  status[f.by] # "ok" /\ \A e \in Visible : e.seq < f.seq
<1>1. /\ lastSequence \in Nat
      /\ \A e \in Visible : e \in InMemory /\ e.seq \in Nat /\ e.seq <= lastSequence
  BY InMemoryIsSound DEF Visible, FilesInv, MemsInv, Entry
<1>2. CASE f \in InMemory
  <2>1. f.seq \in Nat /\ ~(f.seq <= lastSequence)
    BY <1>2, InMemoryIsSound DEF Visible, Entry
  <2>2. InFlight /\ f \in Group
    <3>1. \E S \in Pieces : f \in S
      BY <1>2, InMemoryIsSound DEF InMemory
    <3> QED
      BY <2>1, <3>1 DEF NumbersInv, Counted
  <2>3. status[f.by] = "waiting"
    BY <1>1, <2>2, GroupIs DEF InFlight, Working, Places
  <2> QED
    BY <1>1, <2>1, <2>3
<1>3. CASE f \notin InMemory
  <2>1. PICK n \in DOMAIN logs : n >= manifest.log /\ f \in InLog(n)
    BY <1>3, OnDiskIs DEF HiddenInv
  <2>2. n \in Relevant
    BY <2>1 DEF FilesInv, LogsInv, Relevant
  <2>3. f \in Hidden
    BY <1>3, <2>1, <2>2 DEF Hidden, RecordsOf, InLog, Records
  <2> QED
    BY <1>1, <2>3 DEF HiddenInv, Precedes
<1> QED
  BY <1>2, <1>3

\* All that is new is shown in order.
ShownInOrder ==
    \A f \in Visible' \ Visible :
        /\ \A e \in Visible : e.seq < f.seq
        /\ Alive' => status[f.by] = "waiting" /\ status'[f.by] = "ok"
        /\ ~Alive' => status[f.by] # "ok"

\* An open database shows more when Finish counts a group.
LEMMA FinishShows ==
    ASSUME QueueInv, BgInv, FilesInv, FilesInv', Sound(Pieces), NumbersInv, QuietStep \/ MovingStep,
           Alive, Alive', NEW f \in Visible' \ Visible
    PROVE  /\ \A e \in Visible : e.seq < f.seq
           /\ status[f.by] = "waiting" /\ status'[f.by] = "ok"
<1>1. /\ lastSequence \in Nat
      /\ \A e \in Visible : e \in InMemory /\ e.seq \in Nat /\ e.seq <= lastSequence
  BY InMemoryIsSound DEF Visible, FilesInv, MemsInv, Entry
<1>2. ~Recover
  BY DEF Recover, Alive
<1>3. f \in InMemory' /\ f.seq <= lastSequence'
  BY DEF Visible
<1>4. f \in InMemory
  <2> SUFFICES ASSUME f \notin InMemory PROVE FALSE
    OBVIOUS
  <2>1. InsertInto /\ f \in Group
    BY <1>3, MemoryMoves
  <2>2. lastSequence < f.seq /\ f.seq \in Nat
    BY <1>1, <2>1, GroupIs DEF InsertInto, Working, Places, Entry
  <2>3. lastSequence' = lastSequence
    BY <2>1 DEF InsertInto
  <2> QED
    BY <1>1, <1>3, <2>2, <2>3
<1>5. f.seq \in Nat /\ ~(f.seq <= lastSequence) /\ f \in Entry
  BY <1>4, InMemoryIsSound DEF Visible, Entry
<1>6. Finish
  BY <1>2, <1>3, <1>5, GroupMoves
<1>7. lead.at = "inserted" /\ f \in Group
  <2>1. Counted
    BY DEF NumbersInv
  <2>2. lead.at = "inserted"
    BY <1>4, <1>5, <2>1 DEF Counted, InMemory, Tabled
  <2>3. \E S \in Pieces : f \in S
    BY <1>4, InMemoryIsSound DEF InMemory
  <2> QED
    BY <1>5, <2>1, <2>2, <2>3 DEF Counted
<1>8. f.by \in ToSet(lead.group) /\ status[f.by] = "waiting"
  BY <1>1, <1>7, GroupIs DEF Working, Places
<1>9. status'[f.by] = "ok"
  <2>1. Return(lead.group, TRUE)
    BY <1>6, <1>7 DEF Finish
  <2>2. f.by \in Writer /\ f.by \notin Flusher
    BY <1>5 DEF Entry, Write
  <2> QED
    BY <1>8, <2>1, <2>2 DEF Return
<1> QED
  BY <1>1, <1>5, <1>8, <1>9

\* All that a step adds to what is shown, it adds in order.
LEMMA NewInOrder ==
    ASSUME QueueInv, BgInv, BgInv', FilesInv, FilesInv', Sound(Pieces), NumbersInv, ReadInv, HiddenInv,
           SavedInv, Next, QuietStep \/ MovingStep
    PROVE  ShownInOrder
<1> SUFFICES ASSUME NEW f \in Visible' \ Visible
             PROVE  /\ \A e \in Visible : e.seq < f.seq
                    /\ Alive' => status[f.by] = "waiting" /\ status'[f.by] = "ok"
                    /\ ~Alive' => status[f.by] # "ok"
  BY DEF ShownInOrder
<1>1. CASE Alive /\ Alive'
  BY <1>1, FinishShows
<1>2. CASE OpenReturns
  <2>1. /\ ~Alive /\ Alive' /\ rec.at = "saved" /\ imm = 0
        /\ version'.tables = manifest.tables /\ UNCHANGED <<mems, logNumber, imm>>
    BY <1>2 DEF OpenReturns, Alive, memVars, FilesInv, MemsInv
  <2>2. f \in manifest.tables \/ f \in mems[logNumber]
    BY <2>1 DEF Visible, InMemory
  <2>3. /\ logNumber \in DOMAIN logs /\ mems[logNumber] \subseteq InLog(logNumber)
        /\ logNumber >= manifest.log
    BY <2>1 DEF FilesInv, LogsInv, MemsInv, MemIsNewest, Recovered
  <2>4. f \in OnDisk
    BY <2>2, <2>3, OnDiskIs
  <2> QED
    BY <2>1, <2>4 DEF Visible
<1>3. CASE ~Alive'
  <2>1. f \in OnDisk
    BY <1>3, DiskMakesNothing DEF Visible
  <2>2. Alive
    BY <2>1 DEF Visible
  <2> QED
    BY <1>3, <2>1, <2>2, UnseenIsNew
<1> QED
  BY <1>1, <1>2, <1>3, WasOpen

\* What is hidden and what was read at the start, and when nothing changes.
LEMMA LastStarts ==
    ASSUME Init
    PROVE  HiddenInv /\ SavedInv
<1>1. /\ DOMAIN logs = {3} /\ logs[3] = EmptyLog /\ rec = NoRec /\ manifest.tables = {}
  BY DEF Init
<1>2. Hidden = {}
  BY <1>1 DEF Hidden, RecordsOf, Relevant, EmptyLog, ToSet
<1> QED
  BY <1>1, <1>2 DEF HiddenInv, SavedInv, Precedes, NoRec

\* Every step keeps both.
LEMMA LastKeeps ==
    ASSUME DBInv, StayInv, HiddenInv, SavedInv, [Next]_vars
    PROVE  HiddenInv' /\ SavedInv'
<1>1. CASE Next
  <2>1. DBInv' /\ (QuietStep \/ MovingStep)
    BY <1>1, StepKeeps, StepKinds DEF DBInv
  <2> QED
    BY <1>1, <2>1, HiddenStep, SavedStep DEF DBInv, StayInv
<1>2. CASE UNCHANGED vars
  <2>1. UNCHANGED <<status, lead, mems, logNumber, imm, lastSequence, version, logs, manifest,
                    up, rec, bgError>>
    BY <1>2 DEF vars, queueVars, memVars, bgVars, diskVars, lifeVars
  <2>2. (Alive' <=> Alive) /\ (Working' <=> Working) /\ (InFlight' <=> InFlight) /\ Group' = Group
    BY <2>1 DEF Alive, Working, InFlight, Group
  <2>3. InMemory' = InMemory /\ OnDisk' = OnDisk /\ Relevant' = Relevant
    BY <2>1 DEF InMemory, OnDisk, RecordsOf, ToReplay, Relevant, Alive
  <2>4. Hidden' = Hidden
    BY <2>1, <2>3 DEF Hidden, RecordsOf
  <2> QED
    BY <2>1, <2>2, <2>3, <2>4 DEF HiddenInv, SavedInv, Precedes
<1> QED
  BY <1>1, <1>2

\* Each write that is answered with success is shown by then.
AnswersAreShown ==
    \A w \in Write : status'[w] = "ok" /\ status[w] # "ok" => \E e \in Visible' : e.by = w

\* DB::Write, and what a restart may find.  What a step adds to what is shown
\* comes behind all that was shown: while the database is open, the entries of
\* writes that it answers with success; when it goes down, those of writes that
\* were not answered so.
WritesInOrder == [][ShownInOrder /\ AnswersAreShown]_vars

\* Writes take effect in one order, and no sooner or later than they return.
THEOREM WritesTakeEffectInOrder == Spec => WritesInOrder
<1> DEFINE Inv == DBInv /\ StayInv /\ HiddenInv /\ SavedInv
<1>1. Init => Inv
  BY StartsRight, StartsToStay, LastStarts
<1>2. Inv /\ [Next]_vars => Inv'
  BY BothKeep, LastKeeps
<1>3. Inv /\ [Next]_vars => [ShownInOrder /\ AnswersAreShown]_vars
  <2> SUFFICES ASSUME Inv, Next PROVE ShownInOrder /\ AnswersAreShown
    OBVIOUS
  <2>1. DBInv' /\ (QuietStep \/ MovingStep)
    BY StepKeeps, StepKinds DEF DBInv
  <2>2. ShownInOrder
    BY <2>1, NewInOrder DEF DBInv, StayInv
  <2>3. AnswersAreShown
    BY OkShows DEF AnswersAreShown, DBInv, StayInv
  <2> QED
    BY <2>2, <2>3
<1> QED
  BY <1>1, <1>2, <1>3, PTL DEF Spec, WritesInOrder
=============================================================================
