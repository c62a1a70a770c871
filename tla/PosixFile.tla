----------------------------- MODULE PosixFile -----------------------------
(***************************************************************************)
(* The files of util/env_posix.cc that share a limit: RandomAccessFiles,   *)
(* each of which maps its file, keeps a descriptor, or opens the file for  *)
(* every read, as the two Limiters allow.  Threads make and delete them.   *)
(***************************************************************************)
EXTENDS Integers, FiniteSets

CONSTANTS
    Thread,
    MaxMmaps,       \* mmap_limiter_'s limit
    MaxOpenFiles    \* fd_limiter_'s limit

Limits == MaxMmaps \in Nat /\ MaxOpenFiles \in Nat

ASSUME LimitAssumption == Limits
ASSUME ThreadAssumption == IsFiniteSet(Thread)

VARIABLES
    filePc,     \* where each thread is
    allowed     \* acquires_allowed_ of the two limiters

fileVars == <<filePc, allowed>>

Limiter == {"mmap", "fd"}
Limit == [l \in Limiter |-> IF l = "mmap" THEN MaxMmaps ELSE MaxOpenFiles]

FileInit == filePc = [t \in Thread |-> "idle"] /\ allowed = Limit

Goto(t, l) == filePc' = [filePc EXCEPT ![t] = l]
Add(l, n) == allowed' = [allowed EXCEPT ![l] = @ + n]

\* Limiter::Acquire: fetch_sub, and fetch_add if there was nothing left.
AvailableOrNone(l) == allowed[l] >= 0
Available(l) == allowed[l] > 0

Acquire(t, l, from, yes, no) ==
    \/ filePc[t] = from /\ Available(l) /\ Add(l, -1) /\ Goto(t, yes)
    \/ filePc[t] = from /\ ~Available(l) /\ Add(l, -1) /\ Goto(t, no)
GiveBack(t, l, from, to) == filePc[t] = from /\ Add(l, 1) /\ Goto(t, to)

\* NewRandomAccessFile
NewRandomAccessFile(t) ==
    filePc[t] = "idle" /\ Goto(t, "opened") /\ UNCHANGED allowed
AcquireMmap(t) == Acquire(t, "mmap", "opened", "map", "nomap")
NoMmap(t) == GiveBack(t, "mmap", "nomap", "limited")

\* GetFileSize and mmap; if one fails the limiter's resource is released.
ReleaseMmap(t) == Add("mmap", 1)
Map(t) == filePc[t] = "map" /\ Goto(t, "mapped") /\ UNCHANGED allowed
MapFails(t) == filePc[t] = "map" /\ Goto(t, "idle") /\ ReleaseMmap(t)

\* PosixRandomAccessFile
AcquireFd(t) == Acquire(t, "fd", "limited", "permanent", "nofd")
NoFd(t) == GiveBack(t, "fd", "nofd", "temporary")

\* The destructors
Delete(t) ==
    \/ GiveBack(t, "mmap", "mapped", "idle")
    \/ GiveBack(t, "fd", "permanent", "idle")
    \/ filePc[t] = "temporary" /\ Goto(t, "idle") /\ UNCHANGED allowed

FileNext ==
    \E t \in Thread :
        \/ NewRandomAccessFile(t) \/ AcquireMmap(t) \/ NoMmap(t) \/ Map(t) \/ MapFails(t)
        \/ AcquireFd(t) \/ NoFd(t) \/ Delete(t)

FileSpec == FileInit /\ [][FileNext]_fileVars

-----------------------------------------------------------------------------
In(ls) == Cardinality({t \in Thread : filePc[t] \in ls})

\* No more mappings and descriptors than the limits, though a limiter that is
\* refusing somebody is below its true count for a moment.
CountsWithinLimits == In({"map", "mapped"}) <= MaxMmaps /\ In({"permanent"}) <= MaxOpenFiles

\* Every acquired resource is given back once: nothing leaks, on no path.
NothingLeaks ==
    /\ allowed["mmap"] = MaxMmaps - In({"map", "nomap", "mapped"})
    /\ allowed["fd"] = MaxOpenFiles - In({"permanent", "nofd"})

\* Both of the above.
WithinLimits == CountsWithinLimits /\ NothingLeaks
=============================================================================
