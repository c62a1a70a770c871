---------------------------- MODULE PosixProofs ----------------------------
(***************************************************************************)
(* The parts of PosixEnv that threads or errors make hard, for any number  *)
(* of threads, processes, files, calls and bytes: who has a database, how  *)
(* many files are mapped and open, in which order background work runs,    *)
(* and what a buffered file holds.                                         *)
(***************************************************************************)
EXTENDS PosixLock, PosixFile, PosixSchedule, WritableFile,
        SequenceTheorems, FiniteSetTheorems, TLAPS

-----------------------------------------------------------------------------
(***************************************************************************)
(* The lock file                                                           *)
(***************************************************************************)
LockPlace == {"idle", "opened", "inserted", "held", "refused", "unlocked", "removed"}

\* A thread that inserted the file into locks_ and has not removed it.
Inside(t) == lockPc[t] \in {"inserted", "held", "refused", "unlocked"}

\* Every entry of locks_ belongs to one thread, between its Insert and its Remove.
TableIsRight ==
    /\ lockPc \in [Locker -> LockPlace] /\ home \in [Locker -> Process]
    /\ \A t \in Locker : Inside(t) => home[t] \in table
    /\ \A t, u \in Locker : Inside(t) /\ Inside(u) /\ home[t] = home[u] => t = u

\* Where each process has one thread, who holds the lock has it from the system.
OwnerIsRight == \A t \in Locker : lockPc[t] = "held" => owner = {home[t]}

\* The inductive invariant.
LockInv == TableIsRight /\ (OneThreadEach => OwnerIsRight)

-----------------------------------------------------------------------------
\* Every step of LockFile, UnlockFile and a process's exit keeps locks_ right.
LEMMA TableStep ==
    ASSUME TableIsRight, [LockNext]_lockVars
    PROVE  TableIsRight'
<1> USE DEF TableIsRight, Inside, LockPlace, Moves
<1>1. ASSUME NEW t \in Locker, OpenLock(t)
      PROVE  TableIsRight'
  BY <1>1 DEF OpenLock
<1>2. ASSUME NEW t \in Locker, Insert(t)
      PROVE  TableIsRight'
  BY <1>2 DEF Insert
<1>3. ASSUME NEW t \in Locker, AlreadyHeld(t)
      PROVE  TableIsRight'
  BY <1>3 DEF AlreadyHeld
<1>4. ASSUME NEW t \in Locker, Lock(t) \/ Refused(t) \/ Unlock(t) \/ CloseUnlocked(t)
      PROVE  TableIsRight'
  BY <1>4 DEF Lock, Refused, Unlock, CloseUnlocked
<1>5. ASSUME NEW t \in Locker, RemoveRefused(t) \/ RemoveUnlocked(t)
      PROVE  TableIsRight'
  BY <1>5 DEF RemoveRefused, RemoveUnlocked
<1>6. ASSUME NEW p \in Process, ExitProcess(p)
      PROVE  TableIsRight'
  BY <1>6 DEF ExitProcess
<1>7. CASE UNCHANGED lockVars
  BY <1>7 DEF lockVars
<1> QED
  BY <1>1, <1>2, <1>3, <1>4, <1>5, <1>6, <1>7 DEF LockNext

\* The steps of other processes leave the fcntl lock of a holder alone.
LEMMA OwnerStep ==
    ASSUME OneThreadEach, TableIsRight, OwnerIsRight, [LockNext]_lockVars
    PROVE  OwnerIsRight'
<1> USE DEF OneThreadEach, TableIsRight, OwnerIsRight, LockPlace, Moves
<1>1. ASSUME NEW t \in Locker, Lock(t)
      PROVE  OwnerIsRight'
  BY <1>1 DEF Lock, Granted
<1>2. ASSUME NEW t \in Locker,
             AlreadyHeld(t) \/ Refused(t) \/ Unlock(t) \/ CloseUnlocked(t)
      PROVE  OwnerIsRight'
  BY <1>2 DEF AlreadyHeld, Refused, Unlock, CloseUnlocked, ClosesDescriptor
<1>3. ASSUME NEW t \in Locker,
             OpenLock(t) \/ Insert(t) \/ RemoveRefused(t) \/ RemoveUnlocked(t)
      PROVE  OwnerIsRight'
  BY <1>3 DEF OpenLock, Insert, RemoveRefused, RemoveUnlocked
<1>4. ASSUME NEW p \in Process, ExitProcess(p)
      PROVE  OwnerIsRight'
  BY <1>4 DEF ExitProcess
<1>5. CASE UNCHANGED lockVars
  BY <1>5 DEF lockVars
<1> QED
  BY <1>1, <1>2, <1>3, <1>4, <1>5 DEF LockNext

-----------------------------------------------------------------------------
LEMMA LockInvInit ==
    ASSUME LockInit
    PROVE  LockInv
<1>1. home \in [Locker -> Process]
  BY HomesAssumption DEF LockInit
<1> QED
  BY <1>1 DEF LockInit, LockInv, TableIsRight, OwnerIsRight, Inside, LockPlace

LEMMA LockInvStep ==
    ASSUME LockInv, [LockNext]_lockVars
    PROVE  LockInv'
<1>1. TableIsRight'
  BY TableStep DEF LockInv
<1>2. home' = home
  BY DEF LockNext, OpenLock, Insert, AlreadyHeld, Lock, Refused, RemoveRefused, Unlock,
         RemoveUnlocked, CloseUnlocked, ExitProcess, Moves, lockVars
<1>3. OneThreadEach' => OneThreadEach
  BY <1>2 DEF OneThreadEach
<1>4. OneThreadEach => OwnerIsRight'
  BY OwnerStep DEF LockInv
<1> QED
  BY <1>1, <1>3, <1>4 DEF LockInv

LEMMA OneHolder ==
    ASSUME OneThreadEach, OwnerIsRight
    PROVE  Exclusive
<1>1. \A t, u \in Holders : t = u
  BY DEF OwnerIsRight, Holders, OneThreadEach
<1>2. CASE Holders = {}
  BY <1>2, FS_EmptySet DEF Exclusive
<1>3. CASE Holders # {}
  <2>1. PICK t : t \in Holders
    BY <1>3
  <2>2. Holders = {t}
    BY <1>1, <2>1
  <2>3. Cardinality({t}) = 1
    BY FS_Singleton
  <2> QED
    BY <2>2, <2>3 DEF Exclusive
<1> QED
  BY <1>2, <1>3

\* Who owns a database: within a process locks_ keeps the threads apart, however many
\* call LockFile and UnlockFile; between processes the fcntl lock does, if each has one
\* thread that locks, also when owners exit without unlocking.
THEOREM LockOneOwner == LockSpec => []OneOwner
<1>1. LockInit => LockInv
  BY LockInvInit
<1>2. LockInv /\ [LockNext]_lockVars => LockInv'
  BY LockInvStep
<1>3. LockInv => OneOwner
  <2>1. LockInv => OnePerProcess
    BY DEF LockInv, TableIsRight, Inside, OnePerProcess, Holders
  <2> QED
    BY <2>1, OneHolder DEF LockInv, OneOwner
<1> QED
  BY <1>1, <1>2, <1>3, PTL DEF LockSpec

\* At most one thread of a process holds the file, and locks_ has it as long.
THEOREM LockPerProcess == LockSpec => []OnePerProcess
<1>1. OneOwner => OnePerProcess
  BY DEF OneOwner
<1> QED
  BY <1>1, LockOneOwner, PTL

\* If no process locks from two threads, the database has at most one owner anywhere.
THEOREM LockExclusive ==
    ASSUME \A h \in Homes : \A t, u \in Locker : h[t] = h[u] => t = u
    PROVE  LockSpec => []Exclusive
<1>1. LockInit => OneThreadEach
  BY DEF LockInit, OneThreadEach
<1>2. OneThreadEach /\ [LockNext]_lockVars => OneThreadEach'
  BY DEF OneThreadEach, LockNext, OpenLock, Insert, AlreadyHeld, Lock, Refused, RemoveRefused,
         Unlock, RemoveUnlocked, CloseUnlocked, ExitProcess, Moves, lockVars
<1>3. OneOwner /\ OneThreadEach => Exclusive
  BY DEF OneOwner
<1> QED
  BY <1>1, <1>2, <1>3, LockOneOwner, PTL DEF LockSpec

-----------------------------------------------------------------------------
(***************************************************************************)
(* The limits on open files                                                *)
(***************************************************************************)
FilePlace == {"idle", "opened", "map", "nomap", "mapped", "limited", "permanent", "nofd", "temporary"}

\* The inductive invariant.
LimiterInv ==
    /\ filePc \in [Thread -> FilePlace]
    /\ allowed \in [Limiter -> Int]
    /\ NothingLeaks
    /\ CountsWithinLimits

At(ls) == {t \in Thread : filePc[t] \in ls}

-----------------------------------------------------------------------------
\* A thread that moves from one place to another changes the number of threads at a
\* set of places by at most one.
LEMMA MoveCounts ==
    ASSUME IsFiniteSet(Thread), filePc \in [Thread -> FilePlace],
           NEW t \in Thread, NEW l, Goto(t, l), NEW ls
    PROVE  /\ In(ls) \in Nat
           /\ (filePc[t] \in ls <=> l \in ls) => In(ls)' = In(ls)
           /\ filePc[t] \notin ls /\ l \in ls => In(ls)' = In(ls) + 1
           /\ filePc[t] \in ls /\ l \notin ls => In(ls)' = In(ls) - 1
<1>1. filePc' = [filePc EXCEPT ![t] = l]
  BY DEF Goto
<1>2. IsFiniteSet(At(ls)) /\ Cardinality(At(ls)) \in Nat
  <2>1. IsFiniteSet(At(ls))
    BY FS_Subset DEF At
  <2> QED
    BY <2>1, FS_CardinalityType
<1>3. In(ls) = Cardinality(At(ls)) /\ In(ls)' = Cardinality(At(ls)')
  BY DEF In, At
<1>4. (filePc[t] \in ls <=> l \in ls) => At(ls)' = At(ls)
  BY <1>1 DEF At
<1>5. ASSUME filePc[t] \notin ls, l \in ls
      PROVE  Cardinality(At(ls)') = Cardinality(At(ls)) + 1
  <2>1. At(ls)' = At(ls) \cup {t} /\ t \notin At(ls)
    BY <1>1, <1>5 DEF At
  <2> QED
    BY <1>2, <2>1, FS_AddElement
<1>6. ASSUME filePc[t] \in ls, l \notin ls
      PROVE  Cardinality(At(ls)') = Cardinality(At(ls)) - 1
  <2>1. At(ls)' = At(ls) \ {t} /\ t \in At(ls)
    BY <1>1, <1>6 DEF At
  <2> QED
    BY <1>2, <2>1, FS_RemoveElement
<1> QED
  BY <1>2, <1>3, <1>4, <1>5, <1>6

\* Those that hold a mapping are among those that a limiter has counted.
LEMMA HoldersCounted ==
    ASSUME IsFiniteSet(Thread)
    PROVE  /\ In({"map", "mapped"}) <= In({"map", "nomap", "mapped"})
           /\ In({"permanent"}) <= In({"permanent", "nofd"})
           /\ In({"map", "mapped"}) \in Nat /\ In({"map", "nomap", "mapped"}) \in Nat
           /\ In({"permanent"}) \in Nat /\ In({"permanent", "nofd"}) \in Nat
<1>1. \A ls : IsFiniteSet(At(ls)) /\ Cardinality(At(ls)) \in Nat
  <2>1. \A ls : IsFiniteSet(At(ls))
    BY FS_Subset DEF At
  <2> QED
    BY <2>1, FS_CardinalityType
<1>2. /\ At({"map", "mapped"}) \subseteq At({"map", "nomap", "mapped"})
      /\ At({"permanent"}) \subseteq At({"permanent", "nofd"})
  BY DEF At
<1>3. \A ls : In(ls) = Cardinality(At(ls))
  BY DEF In, At
<1> QED
  BY <1>1, <1>2, <1>3, FS_Subset

-----------------------------------------------------------------------------
\* At the start no thread is in NewRandomAccessFile and both limiters are full.
LEMMA LimiterInit ==
    ASSUME Limits, FileInit
    PROVE  LimiterInv
<1>1. \A ls : "idle" \notin ls => In(ls) = 0
  <2>1. \A ls : "idle" \notin ls => {t \in Thread : filePc[t] \in ls} = {}
    BY DEF FileInit
  <2> QED
    BY <2>1, FS_EmptySet DEF In
<1>2. /\ In({"map", "mapped"}) = 0 /\ In({"map", "nomap", "mapped"}) = 0
      /\ In({"permanent"}) = 0 /\ In({"permanent", "nofd"}) = 0
  BY <1>1
<1>3. allowed["mmap"] = MaxMmaps /\ allowed["fd"] = MaxOpenFiles
  BY DEF FileInit, Limit, Limiter
<1>4. filePc \in [Thread -> FilePlace] /\ allowed \in [Limiter -> Int]
  BY DEF FileInit, FilePlace, Limit, Limiter, Limits
<1> QED
  BY <1>2, <1>3, <1>4 DEF LimiterInv, NothingLeaks, CountsWithinLimits, Limits

\* The counts after one thread's step: every count moves with the thread.
LEMMA CountsMove ==
    ASSUME IsFiniteSet(Thread), LimiterInv, NEW t \in Thread, NEW l, Goto(t, l),
           NEW ls, NEW n \in {-1, 0, 1},
           n = (IF l \in ls THEN 1 ELSE 0) - (IF filePc[t] \in ls THEN 1 ELSE 0)
    PROVE  In(ls)' = In(ls) + n /\ In(ls) \in Nat
<1>1. /\ In(ls) \in Nat
      /\ (filePc[t] \in ls <=> l \in ls) => In(ls)' = In(ls)
      /\ filePc[t] \notin ls /\ l \in ls => In(ls)' = In(ls) + 1
      /\ filePc[t] \in ls /\ l \notin ls => In(ls)' = In(ls) - 1
  BY MoveCounts DEF LimiterInv
<1> QED
  BY <1>1

\* Every action keeps the invariant: a limiter is counted down by exactly the threads
\* between their fetch_sub and their fetch_add, and a thread that found something left
\* found all the others within the limit.
LEMMA LimiterStep ==
    ASSUME Limits, IsFiniteSet(Thread), LimiterInv, [FileNext]_fileVars
    PROVE  LimiterInv'
<1> DEFINE Counted == {"map", "nomap", "mapped"}
           Mapping == {"map", "mapped"}
           Taken   == {"permanent", "nofd"}
           Keeping == {"permanent"}
<1>0. CASE UNCHANGED fileVars
  BY <1>0 DEF LimiterInv, NothingLeaks, CountsWithinLimits, In, fileVars
<1> SUFFICES ASSUME NEW t \in Thread,
                    \/ NewRandomAccessFile(t) \/ AcquireMmap(t) \/ NoMmap(t) \/ Map(t)
                    \/ MapFails(t) \/ AcquireFd(t) \/ NoFd(t) \/ Delete(t)
             PROVE  LimiterInv'
  BY <1>0 DEF FileNext
<1>t. /\ filePc \in [Thread -> FilePlace] /\ allowed \in [Limiter -> Int]
      /\ MaxMmaps \in Nat /\ MaxOpenFiles \in Nat
      /\ allowed["mmap"] = MaxMmaps - In(Counted) /\ allowed["fd"] = MaxOpenFiles - In(Taken)
      /\ In(Mapping) <= MaxMmaps /\ In(Keeping) <= MaxOpenFiles
  BY DEF LimiterInv, NothingLeaks, CountsWithinLimits, Limits
<1>h. In(Mapping) <= In(Counted) /\ In(Keeping) <= In(Taken)
  BY HoldersCounted
<1>1. ASSUME NEW l \in FilePlace, Goto(t, l),
             NEW m \in {-1, 0, 1}, NEW f \in {-1, 0, 1},
             NEW c \in {-1, 0, 1}, NEW k \in {-1, 0, 1},
             m = (IF l \in Mapping THEN 1 ELSE 0) - (IF filePc[t] \in Mapping THEN 1 ELSE 0),
             c = (IF l \in Counted THEN 1 ELSE 0) - (IF filePc[t] \in Counted THEN 1 ELSE 0),
             k = (IF l \in Keeping THEN 1 ELSE 0) - (IF filePc[t] \in Keeping THEN 1 ELSE 0),
             f = (IF l \in Taken THEN 1 ELSE 0) - (IF filePc[t] \in Taken THEN 1 ELSE 0),
             allowed' \in [Limiter -> Int],
             allowed'["mmap"] = allowed["mmap"] - c, allowed'["fd"] = allowed["fd"] - f,
             m = 1 => Available("mmap"), k = 1 => Available("fd")
      PROVE  LimiterInv'
  <2>1. filePc' \in [Thread -> FilePlace]
    BY <1>1, <1>t DEF Goto
  <2>3. In(Counted)' = In(Counted) + c /\ In(Counted) \in Nat
    BY <1>1, CountsMove
  <2>4. In(Taken)' = In(Taken) + f /\ In(Taken) \in Nat
    BY <1>1, CountsMove
  <2>5. In(Mapping)' = In(Mapping) + m /\ In(Mapping) \in Nat
    BY <1>1, CountsMove
  <2>6. In(Keeping)' = In(Keeping) + k /\ In(Keeping) \in Nat
    BY <1>1, CountsMove
  <2> HIDE DEF Counted, Mapping, Taken, Keeping
  <2>7. In(Mapping)' <= MaxMmaps
    BY <1>1, <1>t, <1>h, <2>3, <2>5 DEF Available
  <2>8. In(Keeping)' <= MaxOpenFiles
    BY <1>1, <1>t, <1>h, <2>4, <2>6 DEF Available
  <2>9. /\ allowed'["mmap"] = MaxMmaps - In(Counted)'
        /\ allowed'["fd"] = MaxOpenFiles - In(Taken)'
    BY <1>1, <1>t, <2>3, <2>4 DEF Limiter
  <2> USE DEF Counted, Mapping, Taken, Keeping
  <2> QED
    BY <2>1, <1>1, <2>7, <2>8, <2>9 DEF LimiterInv, NothingLeaks, CountsWithinLimits
<1> USE DEF FilePlace, Add, Limiter
<1>2. CASE NewRandomAccessFile(t)
  BY <1>2, <1>t, <1>1 DEF NewRandomAccessFile
<1>3. CASE AcquireMmap(t)
  <2>1. /\ allowed' \in [Limiter -> Int]
        /\ allowed'["mmap"] = allowed["mmap"] - 1 /\ allowed'["fd"] = allowed["fd"]
    BY <1>3, <1>t DEF AcquireMmap, Acquire
  <2>2. /\ filePc[t] = "opened"
        /\ (Available("mmap") /\ Goto(t, "map")) \/ Goto(t, "nomap")
    BY <1>3 DEF AcquireMmap, Acquire
  <2> QED
    BY <2>1, <2>2, <1>t, <1>1
<1>4. CASE NoMmap(t)
  <2>1. filePc[t] = "nomap" /\ Goto(t, "limited")
    BY <1>4 DEF NoMmap, GiveBack
  <2>2. /\ allowed' \in [Limiter -> Int]
        /\ allowed'["mmap"] = allowed["mmap"] + 1 /\ allowed'["fd"] = allowed["fd"]
    BY <1>4, <1>t DEF NoMmap, GiveBack
  <2> QED
    BY <2>1, <2>2, <1>t, <1>1
<1>5. CASE Map(t)
  BY <1>5, <1>t, <1>1 DEF Map
<1>6. CASE MapFails(t)
  <2>1. filePc[t] = "map" /\ Goto(t, "idle")
    BY <1>6 DEF MapFails, ReleaseMmap
  <2>2. /\ allowed' \in [Limiter -> Int]
        /\ allowed'["mmap"] = allowed["mmap"] + 1 /\ allowed'["fd"] = allowed["fd"]
    BY <1>6, <1>t DEF MapFails, ReleaseMmap
  <2> QED
    BY <2>1, <2>2, <1>t, <1>1
<1>7. CASE AcquireFd(t)
  <2>1. /\ allowed' \in [Limiter -> Int]
        /\ allowed'["fd"] = allowed["fd"] - 1 /\ allowed'["mmap"] = allowed["mmap"]
    BY <1>7, <1>t DEF AcquireFd, Acquire
  <2>2. /\ filePc[t] = "limited"
        /\ (Available("fd") /\ Goto(t, "permanent")) \/ Goto(t, "nofd")
    BY <1>7 DEF AcquireFd, Acquire
  <2> QED
    BY <2>1, <2>2, <1>t, <1>1
<1>8. CASE NoFd(t)
  <2>1. filePc[t] = "nofd" /\ Goto(t, "temporary")
    BY <1>8 DEF NoFd, GiveBack
  <2>2. /\ allowed' \in [Limiter -> Int]
        /\ allowed'["fd"] = allowed["fd"] + 1 /\ allowed'["mmap"] = allowed["mmap"]
    BY <1>8, <1>t DEF NoFd, GiveBack
  <2> QED
    BY <2>1, <2>2, <1>t, <1>1
<1>9. CASE Delete(t)
  <2>1. CASE GiveBack(t, "mmap", "mapped", "idle")
    <3>1. /\ allowed' \in [Limiter -> Int]
          /\ allowed'["mmap"] = allowed["mmap"] + 1 /\ allowed'["fd"] = allowed["fd"]
      BY <2>1, <1>t DEF GiveBack
    <3> QED
      BY <2>1, <3>1, <1>t, <1>1 DEF GiveBack
  <2>2. CASE GiveBack(t, "fd", "permanent", "idle")
    <3>1. /\ allowed' \in [Limiter -> Int]
          /\ allowed'["fd"] = allowed["fd"] + 1 /\ allowed'["mmap"] = allowed["mmap"]
      BY <2>2, <1>t DEF GiveBack
    <3> QED
      BY <2>2, <3>1, <1>t, <1>1 DEF GiveBack
  <2>3. CASE filePc[t] = "temporary" /\ Goto(t, "idle") /\ UNCHANGED allowed
    BY <2>3, <1>t, <1>1
  <2> QED
    BY <1>9, <2>1, <2>2, <2>3 DEF Delete
<1> QED
  BY <1>2, <1>3, <1>4, <1>5, <1>6, <1>7, <1>8, <1>9

-----------------------------------------------------------------------------
\* Whatever threads open and delete files at once, no more files are mapped and no more
\* descriptors kept than mmap_limiter_ and fd_limiter_ allow, and every acquired
\* resource is given back exactly once, on the paths of refusal and failure too.
THEOREM FilesWithinLimits == FileSpec => []WithinLimits
<1>1. FileInit => LimiterInv
  BY LimiterInit, LimitAssumption
<1>2. LimiterInv /\ [FileNext]_fileVars => LimiterInv'
  BY LimiterStep, LimitAssumption, ThreadAssumption
<1>3. LimiterInv => WithinLimits
  BY DEF LimiterInv, WithinLimits
<1> QED
  BY <1>1, <1>2, <1>3, PTL DEF FileSpec

-----------------------------------------------------------------------------
(***************************************************************************)
(* The queue of background work                                            *)
(***************************************************************************)
\* What has run or runs.
Begun == Len(done) + (IF running = {} THEN 0 ELSE 1)

\* The inductive invariant: all items have begun or wait, one behind the other.
WorkInv ==
    /\ calls \in Nat /\ done \in Seq(Nat) /\ queue \in Seq(Nat)
    /\ bg = "running" <=> running # {}
    /\ WorkInOrder
    /\ \A i \in 1 .. Len(queue) : queue[i] = Begun + i
    /\ calls = Begun + Len(queue)

LEMMA RunningOne ==
    ASSUME WorkInv
    PROVE  /\ Len(done) \in Nat /\ Len(queue) \in Nat /\ Begun \in Nat
           /\ running = {} => Begun = Len(done)
           /\ running # {} => running = {Len(done) + 1} /\ Begun = Len(done) + 1
<1>1. Len(done) \in Nat /\ Len(queue) \in Nat
  BY LenProperties DEF WorkInv
<1>2. running \subseteq {Len(done) + 1}
  BY DEF WorkInv, WorkInOrder
<1>3. running # {} => running = {Len(done) + 1}
  BY ONLY <1>2
<1>4. /\ running = {} => Begun = Len(done) + 0
      /\ running # {} => Begun = Len(done) + 1
  BY ONLY DEF Begun
<1> QED
  BY ONLY <1>1, <1>3, <1>4

\* Schedule puts an item behind those that wait.
LEMMA WorkSchedule ==
    ASSUME WorkInv, NEW c \in Caller, Schedule(c)
    PROVE  WorkInv'
<1>1. /\ calls' = calls + 1 /\ queue' = Append(queue, calls + 1)
      /\ done' = done /\ running' = running /\ (bg' = "running" <=> bg = "running")
  BY DEF Schedule, Signal
<1>2. /\ queue' \in Seq(Nat) /\ Len(queue') = Len(queue) + 1
      /\ queue'[Len(queue) + 1] = calls + 1
      /\ \A i \in 1 .. Len(queue) : queue'[i] = queue[i]
  BY <1>1, AppendProperties DEF WorkInv
<1>3. Begun' = Begun /\ Begun \in Nat /\ Len(queue) \in Nat
  BY <1>1, RunningOne DEF Begun
<1>4. calls' = Begun' + Len(queue') /\ calls' \in Nat
  BY <1>1, <1>2, <1>3 DEF WorkInv
<1>5. ASSUME NEW i \in 1 .. Len(queue')
      PROVE  queue'[i] = Begun' + i
  <2>1. CASE i = Len(queue) + 1
    BY <1>2, <1>3, <2>1 DEF WorkInv
  <2>2. CASE i # Len(queue) + 1
    <3>1. i \in 1 .. Len(queue)
      BY ONLY <1>2, <1>3, <1>5, <2>2
    <3>2. queue[i] = Begun + i
      BY <3>1 DEF WorkInv
    <3> QED
      BY ONLY <1>2, <1>3, <3>1, <3>2
  <2> QED
    BY <2>1, <2>2
<1> QED
  BY <1>1, <1>2, <1>4, <1>5 DEF WorkInv, WorkInOrder

\* The background thread takes the item at the front, which is the next one.
LEMMA WorkTake ==
    ASSUME WorkInv, Take
    PROVE  WorkInv'
<1>1. /\ queue # << >> /\ running' = {Head(queue)} /\ queue' = Tail(queue)
      /\ bg = "locked" /\ bg' = "running" /\ calls' = calls /\ done' = done
  BY DEF Take
<1>2. running = {} /\ Begun = Len(done) /\ Len(queue) \in Nat /\ Len(done) \in Nat
  BY <1>1, RunningOne DEF WorkInv
<1>3. /\ queue' \in Seq(Nat) /\ Len(queue') = Len(queue) - 1 /\ Head(queue) = queue[1]
      /\ \A i \in 1 .. Len(queue) - 1 : queue'[i] = queue[i + 1]
  BY <1>1, HeadTailProperties DEF WorkInv
<1>4. Len(queue) # 0
  BY <1>1, EmptySeq DEF WorkInv
<1>5. running' = {Len(done') + 1}
  <2>1. 1 \in 1 .. Len(queue)
    BY <1>2, <1>4
  <2>2. queue[1] = Len(done) + 1
    BY <1>2, <2>1 DEF WorkInv
  <2> QED
    BY <1>1, <1>3, <2>2
<1>6. Begun' = Len(done) + 1
  BY <1>1, <1>5 DEF Begun
<1>7. \A i \in 1 .. Len(queue') : queue'[i] = Begun' + i
  <2> TAKE i \in 1 .. Len(queue')
  <2>1. i + 1 \in 1 .. Len(queue) /\ i \in 1 .. Len(queue) - 1
    <3>1. i \in 1 .. Len(queue) - 1
      BY ONLY <1>3, i \in 1 .. Len(queue')
    <3>2. Len(queue) \in Nat
      BY <1>2
    <3> QED
      BY ONLY <3>1, <3>2
  <2> QED
    BY <1>2, <1>3, <1>6, <2>1 DEF WorkInv
<1>8. calls' = Begun' + Len(queue')
  BY <1>1, <1>2, <1>3, <1>6 DEF WorkInv
<1> QED
  BY <1>1, <1>3, <1>5, <1>7, <1>8 DEF WorkInv, WorkInOrder

LEMMA WorkFinish ==
    ASSUME WorkInv, Finish
    PROVE  WorkInv'
<1>1. /\ bg = "running" /\ bg' = "started" /\ running' = {}
      /\ queue' = queue /\ calls' = calls
  BY DEF Finish
<1>2. running = {Len(done) + 1} /\ Begun = Len(done) + 1 /\ Len(done) \in Nat
  BY <1>1, RunningOne DEF WorkInv
<1>3. done' = Append(done, Len(done) + 1)
  BY <1>2 DEF Finish
<1>4. /\ done' \in Seq(Nat) /\ Len(done') = Len(done) + 1
      /\ done'[Len(done) + 1] = Len(done) + 1
      /\ \A i \in 1 .. Len(done) : done'[i] = done[i]
  BY <1>2, <1>3, AppendProperties DEF WorkInv
<1>5. \A i \in 1 .. Len(done') : done'[i] = i
  <2> TAKE i \in 1 .. Len(done')
  <2>1. i = Len(done) + 1 \/ i \in 1 .. Len(done)
    BY <1>2, <1>4
  <2> QED
    BY <1>4, <2>1 DEF WorkInv, WorkInOrder
<1>6. Begun' = Begun
  BY <1>1, <1>2, <1>4 DEF Begun
<1> QED
  BY <1>1, <1>4, <1>5, <1>6 DEF WorkInv, WorkInOrder

LEMMA WorkStep ==
    ASSUME WorkInv, [WorkNext]_workVars
    PROVE  WorkInv'
<1>1. ASSUME UNCHANGED <<queue, running, calls, done>>, bg' = "running" <=> bg = "running"
      PROVE  WorkInv'
  BY <1>1 DEF WorkInv, WorkInOrder, Begun
<1>2. ASSUME NEW c \in Caller, Enter(c)
      PROVE  WorkInv'
  BY <1>1, <1>2 DEF Enter
<1>3. CASE LockQueue \/ WakeByItself \/ Wait
  BY <1>1, <1>3 DEF LockQueue, WakeByItself, Wait
<1>4. CASE UNCHANGED workVars
  BY <1>1, <1>4 DEF workVars
<1> QED
  BY <1>2, <1>3, <1>4, WorkSchedule, WorkTake, WorkFinish DEF WorkNext

\* However callers and the background thread interleave, with wakeups that nobody sent:
\* what Schedule was given runs once each, one at a time, in the order of the calls.
THEOREM WorkRunsInOrder == WorkSpec => []WorkInOrder
<1>1. WorkInit => WorkInv
  <2> SUFFICES ASSUME WorkInit
               PROVE  WorkInv
    OBVIOUS
  <2>1. Len(<< >>) = 0 /\ << >> \in Seq(Nat)
    BY EmptySeq
  <2> QED
    BY <2>1 DEF WorkInit, WorkInv, WorkInOrder, Begun
<1>2. WorkInv /\ [WorkNext]_workVars => WorkInv'
  BY WorkStep
<1>3. WorkInv => WorkInOrder
  BY DEF WorkInv
<1> QED
  BY <1>1, <1>2, <1>3, PTL DEF WorkSpec

-----------------------------------------------------------------------------
(***************************************************************************)
(* The buffer of a file                                                    *)
(***************************************************************************)
\* The bytes before those in the buffer.
Written == appended - Len(buf)

\* The inductive invariant: the buffer holds the last bytes that were appended, the file
\* some of those before them in order, and all of them if nothing failed.
BufferInv ==
    /\ appended \in Nat /\ flushed \in Nat /\ ok \in BOOLEAN
    /\ file \in Seq(Nat) /\ buf \in Seq(Nat)
    /\ Len(buf) <= BufferSize /\ Len(buf) <= appended
    /\ buf = Bytes(Written, appended)
    /\ BytesInOrder /\ \A i \in 1 .. Len(file) : file[i] <= Written
    /\ ok => /\ file = Bytes(0, Written)
             /\ flushed <= Written

LEMMA BytesFacts ==
    ASSUME NEW a \in Nat, NEW b \in Nat, a <= b
    PROVE  /\ Bytes(a, b) \in Seq(Nat) /\ Len(Bytes(a, b)) = b - a
           /\ \A i \in 1 .. b - a : Bytes(a, b)[i] = a + i
<1>1. b - a \in Nat
  OBVIOUS
<1>2. Bytes(a, b) \in [1 .. b - a -> Nat]
  BY DEF Bytes
<1>3. Bytes(a, b) \in Seq(Nat) /\ Len(Bytes(a, b)) = b - a
  BY <1>1, <1>2, SeqDef, LenProperties
<1> QED
  BY <1>3 DEF Bytes

\* Bytes follow each other.
LEMMA BytesJoin ==
    ASSUME NEW a \in Nat, NEW b \in Nat, NEW c \in Nat, a <= b, b <= c
    PROVE  Bytes(a, b) \o Bytes(b, c) = Bytes(a, c)
<1> DEFINE s == Bytes(a, b)
           t == Bytes(b, c)
           u == Bytes(a, c)
<1>1. /\ s \in Seq(Nat) /\ Len(s) = b - a /\ \A i \in 1 .. b - a : s[i] = a + i
      /\ t \in Seq(Nat) /\ Len(t) = c - b /\ \A i \in 1 .. c - b : t[i] = b + i
      /\ u \in Seq(Nat) /\ Len(u) = c - a /\ \A i \in 1 .. c - a : u[i] = a + i
  <2>1. a <= c
    OBVIOUS
  <2> QED
    BY ONLY <2>1, a <= b, b <= c, a \in Nat, b \in Nat, c \in Nat, BytesFacts, Zenon
<1> HIDE DEF s, t, u
<1>2. /\ s \o t \in Seq(Nat) /\ Len(s \o t) = Len(s) + Len(t)
      /\ \A i \in 1 .. Len(s) + Len(t) :
            (s \o t)[i] = IF i <= Len(s) THEN s[i] ELSE t[i - Len(s)]
  BY <1>1, ConcatProperties
<1>3. Len(s \o t) = Len(u)
  BY <1>1, <1>2
<1>4. ASSUME NEW i \in 1 .. Len(u)
      PROVE  (s \o t)[i] = u[i]
  <2>1. CASE i <= b - a
    BY <1>1, <1>2, <2>1
  <2>2. CASE ~(i <= b - a)
    <3>1. i - (b - a) \in 1 .. c - b
      BY <1>1, <2>2
    <3>2. (s \o t)[i] = t[i - (b - a)]
      BY <1>1, <1>2, <2>2, SMTT(20)
    <3> QED
      BY <1>1, <3>1, <3>2
  <2> QED
    BY <2>1, <2>2
<1>5. s \o t = u
  BY <1>1, <1>2, <1>3, <1>4, SeqEqual
<1> QED
  BY <1>5 DEF s, t, u

LEMMA BytesPrefix ==
    ASSUME NEW a \in Nat, NEW b \in Nat, a <= b, NEW k \in 0 .. b - a
    PROVE  SubSeq(Bytes(a, b), 1, k) = Bytes(a, a + k)
<1> DEFINE s == Bytes(a, b)
           u == Bytes(a, a + k)
           p == SubSeq(s, 1, k)
<1>1. /\ s \in Seq(Nat) /\ Len(s) = b - a /\ \A i \in 1 .. b - a : s[i] = a + i
      /\ u \in Seq(Nat) /\ Len(u) = k /\ \A i \in 1 .. k : u[i] = a + i
  <2>1. a + k \in Nat /\ a <= a + k /\ (a + k) - a = k
    OBVIOUS
  <2> QED
    BY <2>1, BytesFacts
<1> HIDE DEF s, u
<1>2. p \in Seq(Nat) /\ Len(p) = k /\ \A i \in 1 .. k : p[i] = s[i]
  <2>1. \A i \in 1 .. k : s[i] \in Nat
    BY <1>1
  <2>2. SubSeq(s, 1, k) \in Seq(Nat)
    BY <1>1, <2>1, SubSeqProperties
  <2> QED
    BY <1>1, <2>1, <2>2, SubSeqProperties, SMTT(20)
<1> HIDE DEF p
<1>3. \A i \in 1 .. k : p[i] = u[i]
  BY <1>1, <1>2, SMTT(20)
<1>4. p = u
  BY <1>1, <1>2, <1>3, SeqEqual
<1> QED
  BY <1>4 DEF p, s, u

LEMMA BytesNone ==
    ASSUME NEW a \in Nat
    PROVE  Bytes(a, a) = << >>
<1>1. Bytes(a, a) \in Seq(Nat) /\ Len(Bytes(a, a)) = 0
  BY BytesFacts
<1> QED
  BY <1>1, EmptySeq

\* A file gets bytes that come after all it has.
LEMMA MoreInFile ==
    ASSUME BufferInv, NEW a \in Nat, NEW b \in Nat, Written <= a, a <= b,
           file' = file \o Bytes(a, b)
    PROVE  /\ file' \in Seq(Nat) /\ BytesInOrder' /\ \A i \in 1 .. Len(file') : file'[i] <= b
<1> DEFINE t == Bytes(a, b)
           n == Len(file)
<1>1. t \in Seq(Nat) /\ Len(t) = b - a /\ \A i \in 1 .. b - a : t[i] = a + i
  BY BytesFacts
<1>2. file \in Seq(Nat) /\ n \in Nat
  BY LenProperties DEF BufferInv
<1> HIDE DEF t
<1>3. /\ file' \in Seq(Nat) /\ Len(file') = n + Len(t)
      /\ \A i \in 1 .. n + Len(t) : file'[i] = IF i <= n THEN file[i] ELSE t[i - n]
  <2>1. file' = file \o t
    BY DEF t
  <2> QED
    BY ONLY <1>1, <1>2, <2>1, ConcatProperties
<1>4. Written \in Nat
  <2>1. Len(buf) \in Nat
    BY LenProperties DEF BufferInv
  <2> QED
    BY <2>1 DEF BufferInv, Written
<1>5. \A i \in 1 .. n : file'[i] = file[i] /\ file[i] \in Nat /\ file[i] <= Written
  BY <1>1, <1>2, <1>3, ElementOfSeq, SMTT(20) DEF BufferInv
<1>6. \A i \in n + 1 .. Len(file') : file'[i] = a + (i - n)
  <2> TAKE i \in n + 1 .. Len(file')
  <2>1. i - n \in 1 .. b - a /\ ~(i <= n) /\ i \in 1 .. n + Len(t)
    BY <1>1, <1>2, <1>3
  <2> QED
    BY <1>1, <1>3, <2>1
<1>7. \A i \in 1 .. Len(file') : file'[i] <= b
  <2> TAKE i \in 1 .. Len(file')
  <2>1. CASE i <= n
    <3>1. file'[i] \in Nat /\ file'[i] <= Written
      BY <1>2, <1>5, <2>1
    <3> QED
      BY <1>4, <3>1
  <2>2. CASE ~(i <= n)
    <3>1. i \in n + 1 .. Len(file') /\ i - n <= b - a
      BY <1>1, <1>2, <1>3, <2>2
    <3> QED
      BY <1>2, <1>6, <3>1
  <2> QED
    BY <2>1, <2>2
<1>8. BytesInOrder'
  <2> SUFFICES ASSUME NEW i \in 1 .. Len(file'), NEW j \in 1 .. Len(file'), i < j
               PROVE  file'[i] < file'[j]
    BY DEF BytesInOrder
  <2>1. CASE j <= n
    <3>1. i \in 1 .. n /\ j \in 1 .. n
      BY <1>2, <2>1
    <3> QED
      BY <1>5, <3>1 DEF BufferInv, BytesInOrder
  <2>2. CASE ~(j <= n) /\ i <= n
    <3>1. i \in 1 .. n /\ j \in n + 1 .. Len(file')
      BY <1>2, <1>3, <1>1, <2>2
    <3>2. file'[i] \in Nat /\ file'[i] <= Written /\ file'[j] = a + (j - n)
      BY <1>5, <1>6, <3>1
    <3> QED
      BY <1>2, <1>4, <3>1, <3>2
  <2>3. CASE ~(i <= n)
    <3>1. i \in n + 1 .. Len(file') /\ j \in n + 1 .. Len(file')
      <4>1. Len(file') \in Nat
        BY ONLY <1>3, LenProperties
      <4>2. i \in 1 .. Len(file') /\ j \in 1 .. Len(file') /\ i < j
        OBVIOUS
      <4> QED
        BY ONLY <1>2, <2>3, <4>1, <4>2
    <3>2. file'[i] = a + (i - n) /\ file'[j] = a + (j - n)
      BY <1>6, <3>1
    <3> QED
      BY <1>2, <3>1, <3>2
  <2> QED
    BY <2>1, <2>2, <2>3
<1> QED
  BY <1>3, <1>7, <1>8

LEMMA BufferFacts ==
    ASSUME BufferInv
    PROVE  /\ Len(buf) \in Nat /\ Written \in Nat /\ Written <= appended
           /\ Len(buf) = appended - Written
           /\ BufferSize \in Nat /\ BufferSize # 0
<1>1. Len(buf) \in Nat
  BY LenProperties DEF BufferInv
<1> QED
  BY <1>1, BufferAssumption DEF BufferInv, Written

\* After a step that leaves the last bytes, from w on, in the buffer.
LEMMA BufferAgain ==
    ASSUME BufferInv, NEW w \in Nat, appended' \in Nat, w <= appended',
           appended' - w <= BufferSize, buf' = Bytes(w, appended'),
           file' \in Seq(Nat), BytesInOrder', \A i \in 1 .. Len(file') : file'[i] <= w,
           flushed' \in Nat, ok' \in BOOLEAN,
           ok' => file' = Bytes(0, w) /\ flushed' <= w
    PROVE  BufferInv'
<1>1. buf' \in Seq(Nat) /\ Len(buf') = appended' - w
  BY BytesFacts
<1>2. Len(buf') \in Nat /\ BufferSize \in Nat
  BY <1>1, LenProperties, BufferAssumption
<1>3. Written' = appended' - Len(buf')
  BY ONLY DEF Written
<1>4. Written' = w /\ Len(buf') <= BufferSize /\ Len(buf') <= appended'
  <2>1. \A n, z, l, q \in Nat : l = z - n /\ n <= z /\ l <= q => z - l = n /\ l <= q /\ l <= z
    OBVIOUS
  <2>2. Len(buf') = appended' - w /\ Len(buf') <= BufferSize
    BY <1>1
  <2> QED
    BY <1>2, <1>3, <2>1, <2>2
<1> QED
  BY <1>1, <1>4 DEF BufferInv

\* WriteUnbuffered of the bytes from a to b.
LEMMA WritesSome ==
    ASSUME NEW a \in Nat, NEW b \in Nat, a <= b, NEW good \in BOOLEAN, Writes(Bytes(a, b), good)
    PROVE  \E k \in 0 .. b - a : file' = file \o Bytes(a, a + k) /\ (good => a + k = b)
<1>1. CASE good
  <2>1. file' = file \o Bytes(a, b) /\ b - a \in 0 .. b - a /\ a + (b - a) = b
    BY <1>1 DEF Writes
  <2> QED
    BY <2>1
<1>2. CASE ~good
  <2>1. Len(Bytes(a, b)) = b - a
    BY BytesFacts
  <2>2. PICK k \in 0 .. (b - a) - 1 : file' = file \o SubSeq(Bytes(a, b), 1, k)
    BY <1>2, <2>1 DEF Writes
  <2>3. k \in 0 .. b - a
    BY <2>2
  <2>4. SubSeq(Bytes(a, b), 1, k) = Bytes(a, a + k)
    BY <2>3, BytesPrefix
  <2> QED
    BY <1>2, <2>2, <2>3, <2>4
<1> QED
  BY <1>1, <1>2

\* The bytes of the buffer, or more, go to the file up to b, and those from w on stay.
LEMMA BufferWrites ==
    ASSUME BufferInv, NEW b \in Nat, NEW w \in Nat, Written <= b, b <= w,
           appended' \in Nat, w <= appended', appended' - w <= BufferSize,
           buf' = Bytes(w, appended'), file' = file \o Bytes(Written, b),
           flushed' \in Nat, ok' \in BOOLEAN, ok' => ok /\ b = w /\ flushed' <= w
    PROVE  BufferInv'
<1>1. Written \in Nat
  BY BufferFacts
<1>2. file' \in Seq(Nat) /\ BytesInOrder' /\ \A i \in 1 .. Len(file') : file'[i] <= b
  <2>1. Written <= Written
    BY ONLY <1>1
  <2> QED
    BY <1>1, <2>1, MoreInFile
<1>3. \A i \in 1 .. Len(file') : file'[i] <= w
  <2> TAKE i \in 1 .. Len(file')
  <2>1. file'[i] \in Nat /\ file'[i] <= b
    BY <1>2, ElementOfSeq
  <2> QED
    BY <2>1
<1>4. ok' => file' = Bytes(0, w) /\ flushed' <= w
  <2> SUFFICES ASSUME ok'
               PROVE  file' = Bytes(0, w)
    OBVIOUS
  <2>1. file = Bytes(0, Written) /\ b = w
    BY DEF BufferInv
  <2>2. Bytes(0, Written) \o Bytes(Written, w) = Bytes(0, w)
    <3>1. 0 <= Written /\ Written <= w /\ 0 \in Nat
      BY <1>1, <2>1
    <3> QED
      BY ONLY <1>1, <3>1, w \in Nat, BytesJoin, Zenon
  <2> QED
    BY <2>1, <2>2
<1> QED
  BY <1>2, <1>3, <1>4, BufferAgain

LEMMA BufferAppendFits ==
    ASSUME BufferInv, NEW n \in Nat, AppendFits(n)
    PROVE  BufferInv'
<1>1. n <= BufferSize - Len(buf)
  BY BufferFacts DEF AppendFits, Fitting, Least
<1>2. /\ buf' = buf \o Bytes(appended, appended + n) /\ appended' = appended + n
      /\ file' = file /\ ok' = ok /\ flushed' = flushed
  BY DEF AppendFits
<1>3. buf' = Bytes(Written, appended')
  <2>1. appended \in Nat /\ appended + n \in Nat /\ appended <= appended + n
    BY DEF BufferInv
  <2>2. buf = Bytes(Written, appended)
    BY DEF BufferInv
  <2> QED
    BY <1>2, <2>1, <2>2, BytesJoin, BufferFacts
<1>4. /\ appended' \in Nat /\ Written \in Nat /\ Written <= appended'
      /\ appended' - Written <= BufferSize
  BY <1>1, <1>2, BufferFacts DEF BufferInv
<1>5. BytesInOrder' /\ \A i \in 1 .. Len(file') : file'[i] <= Written
  BY <1>2 DEF BufferInv, BytesInOrder
<1>6. file' \in Seq(Nat) /\ flushed' \in Nat /\ ok' \in BOOLEAN
  BY <1>2 DEF BufferInv
<1>7. ok' => file' = Bytes(0, Written) /\ flushed' <= Written
  BY <1>2 DEF BufferInv
<1> QED
  BY <1>3, <1>4, <1>5, <1>6, <1>7, BufferAgain

LEMMA BufferAppendFlushes ==
    ASSUME BufferInv, NEW n \in Nat, NEW good \in BOOLEAN, AppendFlushes(n, good)
    PROVE  BufferInv'
<1> DEFINE c == Fitting(n)
           m == appended + c
           full == buf \o Bytes(appended, m)
           rest == Bytes(m, appended + n)
<1>1. /\ c < n /\ appended' = appended + n /\ ok' = (ok /\ good) /\ flushed' = flushed
      /\ \/ good /\ Small(n - c) /\ Writes(full, TRUE) /\ buf' = rest
         \/ good /\ ~Small(n - c) /\ Writes(full \o rest, TRUE) /\ buf' = << >>
         \/ ~good /\ Writes(full, FALSE) /\ buf' = << >>
         \/ ~good /\ buf' = << >>
            /\ \E k \in 0 .. n - c - 1 : file' = file \o full \o SubSeq(rest, 1, k)
  BY DEF AppendFlushes
<1>2. c = BufferSize - Len(buf) /\ c \in Nat
  <2>1. c = BufferSize - Len(buf)
    BY <1>1, BufferFacts DEF Fitting, Least
  <2> QED
    BY <2>1, BufferFacts DEF BufferInv
<1>3. /\ appended \in Nat /\ m \in Nat /\ appended' \in Nat
      /\ appended <= m /\ m <= appended' /\ appended' - m = n - c
      /\ Written \in Nat /\ Written <= appended /\ Written <= m
  BY <1>1, <1>2, BufferFacts, SMTT(20) DEF BufferInv
<1>4. full = Bytes(Written, m)
  BY <1>3, BytesJoin DEF BufferInv
<1>5. rest = Bytes(m, appended')
  BY <1>1
<1>6. /\ flushed' \in Nat /\ ok' \in BOOLEAN /\ BufferSize \in Nat
      /\ ok' => ok /\ good /\ flushed' <= Written
  BY <1>1, BufferFacts DEF BufferInv
<1> HIDE DEF c, m, full, rest
<1>7. CASE good /\ Small(n - c) /\ Writes(full, TRUE) /\ buf' = rest
  <2>1. file' = file \o Bytes(Written, m)
    BY <1>4, <1>7 DEF Writes
  <2>2. appended' - m <= BufferSize
    <3>1. n - c < BufferSize /\ appended' - m = n - c
      BY <1>3, <1>7 DEF Small
    <3>2. n - c \in Int /\ BufferSize \in Nat
      BY <1>2, <1>6
    <3>3. \A i \in Int, j \in Nat : i < j => i <= j
      OBVIOUS
    <3> QED
      BY <3>1, <3>2, <3>3
  <2>3. m <= m /\ (ok' => ok /\ m = m /\ flushed' <= m)
    <3>1. flushed' \in Nat /\ Written \in Nat /\ m \in Nat /\ Written <= m
      BY <1>3, <1>6
    <3> QED
      BY <3>1, <1>6
  <2> QED
    BY <1>3, <1>5, <1>6, <1>7, <2>1, <2>2, <2>3, BufferWrites
<1>8. CASE good /\ Writes(full \o rest, TRUE) /\ buf' = << >>
  <2>1. full \o rest = Bytes(Written, appended')
    BY <1>3, <1>4, <1>5, BytesJoin
  <2>2. file' = file \o Bytes(Written, appended')
    BY <1>8, <2>1 DEF Writes
  <2>3. buf' = Bytes(appended', appended')
    BY <1>3, <1>8, BytesNone
  <2>4. /\ ok' => ok /\ flushed' <= appended'
        /\ Written <= appended' /\ appended' <= appended' /\ appended' - appended' <= BufferSize
    <3>1. flushed' \in Nat /\ Written \in Nat /\ m \in Nat /\ appended' \in Nat
          /\ Written <= m /\ m <= appended' /\ BufferSize \in Nat
      BY <1>3, <1>6
    <3>2. ok' => ok /\ flushed' <= Written
      BY <1>6
    <3>3. \A i, j, k \in Nat : i <= j /\ j <= k => i <= k
      OBVIOUS
    <3>4. \A i, j \in Nat : i <= i /\ i - i <= j
      OBVIOUS
    <3> QED
      BY <3>1, <3>2, <3>3, <3>4
  <2> QED
    BY <1>3, <1>6, <2>2, <2>3, <2>4, BufferWrites
<1>9. CASE ~good /\ Writes(full, FALSE) /\ buf' = << >>
  <2>1. PICK k \in 0 .. m - Written : file' = file \o Bytes(Written, Written + k)
    BY <1>3, <1>4, <1>9, WritesSome
  <2>2. /\ Written + k \in Nat /\ Written <= Written + k /\ Written + k <= appended'
        /\ appended' <= appended' /\ appended' - appended' <= BufferSize
    <3>1. \A i, j, z, b \in Nat : \A x \in 0 .. j - i :
            i <= j /\ j <= z => /\ i + x \in Nat /\ i <= i + x /\ i + x <= z
                               /\ z <= z /\ z - z <= b
      OBVIOUS
    <3> QED
      BY <1>3, <1>6, <2>1, <3>1
  <2>3. buf' = Bytes(appended', appended')
    BY <1>3, <1>9, BytesNone
  <2> QED
    BY <1>3, <1>6, <1>9, <2>1, <2>2, <2>3, BufferWrites
<1>10. ASSUME ~good, buf' = << >>, NEW k \in 0 .. n - c - 1,
              file' = file \o full \o SubSeq(rest, 1, k)
       PROVE  BufferInv'
  <2>1. k \in 0 .. appended' - m
    <3>1. \A i, j \in Nat : i - j - 1 \in Int /\ \A x \in 0 .. i - j - 1 : x \in 0 .. i - j
      OBVIOUS
    <3>2. k \in 0 .. n - c
      BY <1>2, <1>10, <3>1
    <3> QED
      BY <1>3, <3>2
  <2>2. SubSeq(rest, 1, k) = Bytes(m, m + k)
    BY <1>3, <1>5, <2>1, BytesPrefix
  <2>3. m + k \in Nat /\ m <= m + k /\ m + k <= appended' /\ Written <= m + k
    BY <1>3, <2>1
  <2>4. /\ full \o Bytes(m, m + k) = Bytes(Written, m + k)
        /\ full \in Seq(Nat) /\ Bytes(m, m + k) \in Seq(Nat)
    BY <1>3, <1>4, <2>3, BytesJoin, BytesFacts
  <2>5. file' = file \o Bytes(Written, m + k)
    <3>1. file \in Seq(Nat) /\ full \in Seq(Nat) /\ Bytes(m, m + k) \in Seq(Nat)
      BY <2>4 DEF BufferInv
    <3>2. (file \o full) \o Bytes(m, m + k) = file \o (full \o Bytes(m, m + k))
      <4> DEFINE S == Nat
      <4>1. file \in Seq(S) /\ full \in Seq(S) /\ Bytes(m, m + k) \in Seq(S)
        BY <3>1
      <4> HIDE DEF S
      <4> QED
        BY ONLY <4>1, ConcatAssociative, SMTT(20)
    <3> QED
      BY <1>10, <2>2, <2>4, <3>2
  <2>6. buf' = Bytes(appended', appended')
    BY <1>3, <1>10, BytesNone
  <2>7. appended' <= appended' /\ appended' - appended' <= BufferSize
    <3>1. \A i, j \in Nat : i <= i /\ i - i <= j
      OBVIOUS
    <3> QED
      BY <1>3, <1>6, <3>1
  <2> QED
    BY <1>3, <1>6, <1>10, <2>3, <2>5, <2>6, <2>7, BufferWrites
<1> QED
  BY <1>1, <1>7, <1>8, <1>9, <1>10

LEMMA BufferFlush ==
    ASSUME BufferInv, NEW good \in BOOLEAN, FlushBuffer(good)
    PROVE  BufferInv'
<1>1. /\ appended' = appended /\ buf' = << >> /\ ok' = (ok /\ good)
      /\ flushed' = (IF good THEN appended ELSE flushed) /\ Writes(buf, good)
  BY DEF FlushBuffer, AfterFlush
<1>2. /\ appended \in Nat /\ Written \in Nat /\ Written <= appended /\ BufferSize \in Nat
      /\ buf = Bytes(Written, appended)
  BY BufferFacts DEF BufferInv
<1>3. PICK k \in 0 .. appended - Written :
        file' = file \o Bytes(Written, Written + k) /\ (good => Written + k = appended)
  BY <1>1, <1>2, WritesSome
<1>4. /\ Written + k \in Nat /\ Written <= Written + k /\ Written + k <= appended
      /\ appended - appended <= BufferSize
  BY <1>2, <1>3
<1>5. /\ buf' = Bytes(appended, appended') /\ appended' \in Nat
      /\ appended <= appended' /\ appended' - appended <= BufferSize
  <2>1. buf' = Bytes(appended, appended)
    BY <1>1, <1>2, BytesNone
  <2>2. \A i \in Nat : i <= i
    OBVIOUS
  <2> QED
    BY <1>1, <1>2, <1>4, <2>1, <2>2
<1>6. flushed' \in Nat /\ ok' \in BOOLEAN /\ (ok' => ok /\ Written + k = appended /\ flushed' <= appended)
  BY <1>1, <1>2, <1>3 DEF BufferInv
<1>7. file' = file \o Bytes(Written, Written + k)
  BY <1>3
<1> DEFINE b == Written + k
<1> HIDE DEF b
<1> QED
  BY <1>2, <1>4, <1>5, <1>6, <1>7, BufferWrites DEF b

LEMMA BufferStep ==
    ASSUME BufferInv, [BufferNext]_bufferVars
    PROVE  BufferInv'
<1>1. ASSUME NEW n \in 1 .. 2 * BufferSize + 1, AppendBytes(n)
      PROVE  BufferInv'
  <2>1. n \in Nat
    BY BufferAssumption
  <2> QED
    BY <1>1, <2>1, BufferAppendFits, BufferAppendFlushes DEF AppendBytes
<1>2. ASSUME NEW good \in BOOLEAN, Flush(good) \/ CloseFile(good)
      PROVE  BufferInv'
  BY <1>2, BufferFlush DEF Flush, CloseFile
<1>3. CASE UNCHANGED bufferVars
  BY <1>3 DEF BufferInv, BytesInOrder, Written, bufferVars
<1> QED
  BY <1>1, <1>2, <1>3 DEF BufferNext

LEMMA BufferHolds ==
    ASSUME BufferInv
    PROVE  NothingLost
<1>1. ok => file \o buf = Bytes(0, appended)
  <2>1. Written \in Nat /\ Written <= appended /\ appended \in Nat /\ 0 <= Written /\ 0 \in Nat
    BY BufferFacts DEF BufferInv
  <2>2. Bytes(0, Written) \o Bytes(Written, appended) = Bytes(0, appended)
    BY ONLY <2>1, BytesJoin, Zenon
  <2> QED
    BY <2>2 DEF BufferInv
<1>2. ok => Len(file) >= flushed
  <2> SUFFICES ASSUME ok
               PROVE  Len(file) >= flushed
    OBVIOUS
  <2>1. Len(file) = Written /\ Written \in Nat
    BY BufferFacts, BytesFacts, SMTT(20) DEF BufferInv
  <2> QED
    BY <2>1 DEF BufferInv
<1> QED
  BY <1>1, <1>2 DEF BufferInv, NothingLost, AllIsThere, FlushIsComplete

\* Any size of the buffer, any appends, flushes and errors: until an operation fails, file
\* and buffer hold what was appended, byte for byte, and what was flushed is out; the
\* buffer is never overrun, and after an error too no byte is written twice or out of order.
THEOREM NoByteIsLost == BufferSpec => []NothingLost
<1>1. BufferInit => BufferInv
  <2> SUFFICES ASSUME BufferInit
               PROVE  BufferInv
    OBVIOUS
  <2>1. Len(<< >>) = 0 /\ << >> \in Seq(Nat) /\ Bytes(0, 0) = << >>
    BY EmptySeq, BytesNone
  <2>2. Written = 0
    <3>1. Written = 0 - 0
      BY <2>1 DEF BufferInit, Written
    <3> QED
      BY ONLY <3>1
  <2>3. BufferSize \in Nat
    BY BufferAssumption
  <2> QED
    BY <2>1, <2>2, <2>3 DEF BufferInit, BufferInv, BytesInOrder
<1>2. BufferInv /\ [BufferNext]_bufferVars => BufferInv'
  BY BufferStep
<1>3. BufferInv => NothingLost
  BY BufferHolds
<1> QED
  BY <1>1, <1>2, <1>3, PTL DEF BufferSpec
=============================================================================
