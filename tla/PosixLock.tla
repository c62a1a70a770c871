----------------------------- MODULE PosixLock -----------------------------
(***************************************************************************)
(* PosixEnv::LockFile and UnlockFile (util/env_posix.cc), which keep two   *)
(* owners from opening one database: a table of locked files within each   *)
(* process, and fcntl(F_SETLK) between processes.  Such a lock belongs to  *)
(* the process, and closing any of its descriptors of the file releases it.*)
(***************************************************************************)
EXTENDS Integers, FiniteSets

CONSTANTS
    Process,
    Locker,     \* all threads
    Homes       \* the cases: the process of each thread

ASSUME HomesAssumption == Homes \subseteq [Locker -> Process]

VARIABLES
    home,       \* the case, which stays the same
    lockPc,     \* where each thread is in LockFile or UnlockFile
    table,      \* the processes whose locks_ has the file
    owner       \* the process with the fcntl lock: {} or {p}

lockVars == <<home, lockPc, table, owner>>

LockInit ==
    home \in Homes /\ lockPc = [t \in Locker |-> "idle"] /\ table = {} /\ owner = {}

Moves(t, l) == lockPc' = [lockPc EXCEPT ![t] = l] /\ UNCHANGED home

\* The system's close(): whatever lock the process had on the file is gone.
ClosesDescriptor(t) == owner' = owner \ {home[t]}

\* open(), locks_.Insert
OpenLock(t) == lockPc[t] = "idle" /\ Moves(t, "opened") /\ UNCHANGED <<table, owner>>
InsertAlways(t) ==
    /\ lockPc[t] = "opened"
    /\ Moves(t, "inserted") /\ table' = table \cup {home[t]} /\ UNCHANGED owner
Insert(t) ==
    /\ lockPc[t] = "opened" /\ home[t] \notin table
    /\ Moves(t, "inserted") /\ table' = table \cup {home[t]} /\ UNCHANGED owner
AlreadyHeld(t) ==
    /\ lockPc[t] = "opened" /\ home[t] \in table
    /\ Moves(t, "idle") /\ ClosesDescriptor(t) /\ UNCHANGED table

\* LockOrUnlock(fd, true)
Granted(t) == owner \subseteq {home[t]}
Lock(t) ==
    /\ lockPc[t] = "inserted" /\ Granted(t)
    /\ Moves(t, "held") /\ owner' = {home[t]} /\ UNCHANGED table
Refused(t) ==
    /\ lockPc[t] = "inserted" /\ ~Granted(t)
    /\ Moves(t, "refused") /\ ClosesDescriptor(t) /\ UNCHANGED table
RemoveRefused(t) ==
    /\ lockPc[t] = "refused" /\ Moves(t, "idle") /\ table' = table \ {home[t]}
    /\ UNCHANGED owner

\* UnlockFile: LockOrUnlock(fd, false), locks_.Remove, close
Unlock(t) ==
    /\ lockPc[t] = "held" /\ Moves(t, "unlocked") /\ owner' = owner \ {home[t]}
    /\ UNCHANGED table
RemoveUnlocked(t) ==
    /\ lockPc[t] = "unlocked" /\ Moves(t, "removed") /\ table' = table \ {home[t]}
    /\ UNCHANGED owner
CloseUnlocked(t) ==
    /\ lockPc[t] = "removed" /\ Moves(t, "idle") /\ ClosesDescriptor(t) /\ UNCHANGED table

\* A process exits; the system closes its descriptors.
ExitProcess(p) ==
    /\ \E t \in Locker : home[t] = p /\ lockPc[t] # "idle"
    /\ lockPc' = [t \in Locker |-> IF home[t] = p THEN "idle" ELSE lockPc[t]]
    /\ table' = table \ {p} /\ owner' = owner \ {p} /\ UNCHANGED home

LockNext ==
    \/ \E t \in Locker : \/ OpenLock(t) \/ Insert(t) \/ AlreadyHeld(t)
                         \/ Lock(t) \/ Refused(t) \/ RemoveRefused(t)
                         \/ Unlock(t) \/ RemoveUnlocked(t) \/ CloseUnlocked(t)
    \/ \E p \in Process : ExitProcess(p)

LockSpec == LockInit /\ [][LockNext]_lockVars

-----------------------------------------------------------------------------
Holders == {t \in Locker : lockPc[t] = "held"}

\* Within a process no two threads hold the lock, and the table has the file
\* as long as one does.
OnePerProcess ==
    \A t, u \in Locker : t \in Holders /\ u \in Holders /\ home[t] = home[u] =>
        t = u /\ home[t] \in table

\* No two owners of one database anywhere.
Exclusive == Cardinality(Holders) <= 1

\* LockFile keeps owners in different processes from having one database, where
\* each has one thread that locks; within a process locks_ does, and has the file
\* as long as somebody holds it.
OneThreadEach == \A t, u \in Locker : home[t] = home[u] => t = u
OneOwner == OnePerProcess /\ (OneThreadEach => Exclusive)
=============================================================================
