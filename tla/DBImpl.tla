------------------------------- MODULE DBImpl -------------------------------
(***************************************************************************)
(* The write path of LevelDB (db/db_impl.cc): the queue of writers and     *)
(* their group commit, the write-ahead log, the switch of memtables, the   *)
(* background thread that turns a memtable into a table, the crash of the  *)
(* process or of the machine, and the recovery that replays the logs.      *)
(*                                                                         *)
(* A step is what a thread does between taking mutex_ and giving it up, or *)
(* one call to the file system made without it.  A condition variable is   *)
(* modelled by the threads asleep on it, so that a missing signal shows.   *)
(* A batch is a sequence of keys; what a key is set to is the write that   *)
(* set it.  A record of the log is the set of entries of one group; the    *)
(* empty one is what a failing append leaves.  The tables are one set of   *)
(* entries here (their levels are in module Compaction), with the number   *)
(* of files in level 0, on which writers wait.                             *)
(***************************************************************************)
EXTENDS Integers, FiniteSets, TLC, SequencesExt, FiniteSetsExt

CONSTANTS
    Writer,         \* calls of Write, each made by a thread of its own
    Batch,          \* Batch[w]: the keys it sets, << >> for a nullptr batch
    Synced,         \* those with options.sync
    L0Trigger, L0Slowdown, L0Stop,  \* config::kL0_...
    Scopes          \* the scopes: options and bounds

Key == UNION {ToSet(Batch[w]) : w \in Writer}

ASSUME DBAssumption ==
    /\ Synced \subseteq Writer
    /\ Batch \in [Writer -> Seq(Key)]
    /\ L0Trigger \in Nat \ {0} /\ L0Slowdown \in Nat
    /\ L0Stop \in Nat /\ L0Trigger <= L0Stop

\* A scope has the calls that are made and the keys that are read,
\* write_buffer_size in entries, and the bounds on crashes and closings, on
\* failing file operations and on appends to a log that fail.
ASSUME ScopesAssumption ==
    \A s \in Scopes :
        /\ s.writers \subseteq Writer
        /\ {s.buffer, s.crashes, s.errors, s.torn} \subseteq Nat

VARIABLES
    scope,      \* the scope of this behaviour
    writers,    \* writers_
    status,     \* status[w]: "new", "waiting", "flushing", "ok", "failed", "lost"
    asleep,     \* the threads waiting on a condition variable
    lead,       \* the writer at work at the front of the queue, its locals
    mems,       \* mems[n]: the entries of the memtable that log n protects
    logNumber,  \* logfile_number_, which also names mem_
    imm,        \* the number of imm_, 0 for nullptr
    lastSequence, nextFile,     \* of versions_
    version,    \* the current version: [tables, level0, log]
    bg,         \* the background thread: [on, at, merging, edit]
    bgError,    \* bg_error_ is set
    logs,       \* the log files: logs[n] = [recs, synced]
    manifest,   \* what CURRENT leads to: [tables, level0, log, last, next]
    up,         \* "running", "closing", "exited" or "rebooted"
    rec,        \* a recovery under way: [at, entries, reuse]
    reader,     \* a Get: << >> or <<[key, snap, mem, imm, tables, got]>>
    crashes, errors, torn       \* counters for the bounds

queueVars == <<writers, status, asleep, lead>>
memVars == <<mems, logNumber, imm, lastSequence, nextFile>>
bgVars == <<version, bg, bgError>>
diskVars == <<logs, manifest>>
lifeVars == <<scope, up, rec, crashes, torn>>
vars == <<queueVars, memVars, bgVars, diskVars, lifeVars, reader, errors>>

-----------------------------------------------------------------------------
Flusher == {w \in Writer : Batch[w] = << >>}
Write == Writer \ Flusher

Idle == [at |-> "idle", delay |-> FALSE, force |-> FALSE, group |-> << >>]
BgIdle == [on |-> FALSE, at |-> "idle", merging |-> 0, edit |-> << >>]
NoRec == [at |-> "none", entries |-> {}, reuse |-> FALSE]
EmptyLog == [recs |-> << >>, synced |-> 0]

With(f, x, y) == [z \in DOMAIN f \cup {x} |-> IF z = x THEN y ELSE f[z]]
Without(f, S) == [z \in DOMAIN f \ S |-> f[z]]

\* WriteBatchInternal::Append and SetSequence: the entries of a group.  A member,
\* <<i, j>>, is the j-th of the i-th batch, numbered by how many come before it.
Items(ws) == UNION {{i} \X DOMAIN Batch[ws[i]] : i \in DOMAIN ws}
Before(ws, p) == {q \in Items(ws) : q[1] < p[1] \/ (q[1] = p[1] /\ q[2] < p[2])}
Entries(ws, first) ==
    {[key |-> Batch[ws[p[1]]][p[2]], by |-> ws[p[1]],
      seq |-> first + Cardinality(Before(ws, p))] : p \in Items(ws)}

\* The record that AddRecord appends last, of the group at work.
Group == Entries(lead.group, lastSequence + 1)

Newest(S, k, snap) ==
    LET hits == {e \in S : e.key = k /\ e.seq <= snap}
    IN  IF hits = {} THEN << >>
        ELSE <<(CHOOSE e \in hits : \A f \in hits : f.seq <= e.seq).by>>

Init ==
    /\ writers = << >> /\ status = [w \in Writer |-> "new"]
    /\ asleep = {} /\ lead = Idle
    /\ mems = [n \in {3} |-> {}] /\ logNumber = 3 /\ imm = 0
    /\ lastSequence = 0 /\ nextFile = 4
    /\ version = [tables |-> {}, level0 |-> 0, log |-> 3]
    /\ manifest = [tables |-> {}, level0 |-> 0, log |-> 3, last |-> 0, next |-> 4]
    /\ bg = BgIdle /\ bgError = FALSE
    /\ logs = [n \in {3} |-> EmptyLog]
    /\ up = "running" /\ rec = NoRec
    /\ reader = << >>
    /\ crashes = 0 /\ errors = 0 /\ torn = 0
    /\ scope \in Scopes

-----------------------------------------------------------------------------
(***************************************************************************)
(* Signals and errors                                                      *)
(***************************************************************************)

\* background_work_finished_signal_.SignalAll(): the threads it wakes.
BackgroundWaiters ==
    {w \in asleep : status[w] = "flushing" \/ (lead # Idle /\ w = writers[1])}

\* Whether background_compaction_scheduled_ is set after the call.
MaybeScheduleCompaction(scheduled, im, v, err) ==
    \/ scheduled
    \/ up = "running" /\ ~err /\ (im # 0 \/ v.level0 >= L0Trigger)

-----------------------------------------------------------------------------
(***************************************************************************)
(* DBImpl::Write                                                           *)
(***************************************************************************)

\* A thread calls Write: it queues up and, unless it is the first, waits.
Enqueue(w) ==
    /\ up = "running" /\ status[w] = "new"
    /\ writers' = Append(writers, w)
    /\ status' = [status EXCEPT ![w] = "waiting"]
    /\ asleep' = IF writers = << >> THEN asleep ELSE asleep \cup {w}
    /\ UNCHANGED <<lead, memVars, bgVars, diskVars, lifeVars, reader, errors>>

\* The first in the queue is awake and goes on.
Lead ==
    /\ up = "running" /\ writers # << >> /\ lead = Idle
    /\ writers[1] \notin asleep
    /\ LET force == writers[1] \in Flusher
       IN  lead' = [Idle EXCEPT !.at = "room", !.delay = ~force, !.force = force]
    /\ UNCHANGED <<writers, status, asleep, memVars, bgVars, diskVars, lifeVars,
                   reader, errors>>

\* Those of the group are signalled, and the new head of the queue.
WakeDone(ws) == asleep \ ToSet(ws)
Woken(ws) ==
    asleep \ (ToSet(ws) \cup {writers[i] : i \in DOMAIN writers \cap {Len(ws) + 1}})

\* The end of Write: the group leaves the queue with its status.
\* A nullptr batch goes on in TEST_CompactMemTable.
Return(ws, ok) ==
    /\ writers' = SubSeq(writers, Len(ws) + 1, Len(writers))
    /\ lead' = Idle
    /\ status' = [w \in Writer |->
                    IF w \notin ToSet(ws) THEN status[w]
                    ELSE IF ~ok THEN "failed"
                    ELSE IF w \in Flusher THEN "flushing" ELSE "ok"]

\* A turn of the loop of MakeRoomForWrite begins, at the front of the queue.
MakingRoom ==
    /\ up = "running" /\ lead.at = "room" /\ writers[1] \notin asleep

RoomError ==
    /\ MakingRoom /\ bgError
    /\ Return(<<writers[1]>>, FALSE)
    /\ asleep' = Woken(<<writers[1]>>)
    /\ UNCHANGED <<memVars, bgVars, diskVars, lifeVars, reader, errors>>

\* SleepForMicroseconds(1000), without the mutex.
Delays == lead.delay /\ version.level0 >= L0Slowdown
Delay ==
    /\ MakingRoom /\ ~bgError /\ Delays
    /\ lead' = [lead EXCEPT !.delay = FALSE]
    /\ UNCHANGED <<writers, status, asleep, memVars, bgVars, diskVars, lifeVars,
                   reader, errors>>

HasRoom == ~lead.force /\ Cardinality(mems[logNumber]) <= scope.buffer
MustWait == imm # 0 \/ version.level0 >= L0Stop

WaitForBackground ==
    /\ MakingRoom /\ ~bgError /\ ~Delays /\ ~HasRoom
    /\ MustWait
    /\ asleep' = asleep \cup {writers[1]}
    /\ UNCHANGED <<writers, status, lead, memVars, bgVars, diskVars, lifeVars,
                   reader, errors>>

SwitchMemTable ==
    /\ MakingRoom /\ ~bgError /\ ~Delays /\ ~HasRoom /\ ~MustWait
    /\ logs' = With(logs, nextFile, EmptyLog)
    /\ mems' = With(mems, nextFile, {})
    /\ logNumber' = nextFile
    /\ nextFile' = nextFile + 1
    /\ imm' = logNumber
    /\ lead' = [lead EXCEPT !.force = FALSE]
    /\ bg' = [bg EXCEPT !.on = MaybeScheduleCompaction(@, imm', version, bgError)]
    /\ UNCHANGED <<writers, status, asleep, lastSequence, version, bgError,
                   manifest, lifeVars, reader, errors>>

\* NewWritableFile fails; ReuseFileNumber takes the number back.
SwitchFails ==
    /\ MakingRoom /\ ~bgError /\ ~Delays /\ ~HasRoom /\ ~MustWait
    /\ errors < scope.errors /\ errors' = errors + 1
    /\ Return(<<writers[1]>>, FALSE)
    /\ asleep' = Woken(<<writers[1]>>)
    /\ UNCHANGED <<memVars, bgVars, diskVars, lifeVars, reader>>

\* A write that asks for sync does not join a group that will not be synced.
MayJoin(w) == w \in Synced => writers[1] \in Synced

\* The groups BuildBatchGroup may form.  It stops at a write that may not join,
\* or at a batch that makes the group too big; a nullptr batch has no size.
BuildBatchGroup ==
    {SubSeq(writers, 1, n) : n \in {m \in 1 .. Len(writers) :
        /\ \A i \in 2 .. m : MayJoin(writers[i])
        /\ \/ m = Len(writers)
           \/ writers[m + 1] \notin Flusher
           \/ ~MayJoin(writers[m + 1])}}

\* There is room: a nullptr batch is done, any other leads a group.
BuildGroup ==
    /\ MakingRoom /\ ~bgError /\ ~Delays /\ HasRoom
    /\ IF writers[1] \in Flusher
       THEN /\ Return(<<writers[1]>>, TRUE)
            /\ asleep' = Woken(<<writers[1]>>)
       ELSE /\ \E ws \in BuildBatchGroup :
                lead' = [lead EXCEPT !.at = "append", !.group = ws]
            /\ UNCHANGED <<writers, status, asleep>>
    /\ UNCHANGED <<memVars, bgVars, diskVars, lifeVars, reader, errors>>

\* log_->AddRecord, without the mutex.
AddRecord ==
    /\ up = "running" /\ lead.at = "append"
    /\ logs' = [logs EXCEPT ![logNumber].recs = Append(@, Group)]
    /\ lead' = [lead EXCEPT !.at = IF writers[1] \in Synced THEN "sync" ELSE "insert"]
    /\ UNCHANGED <<writers, status, asleep, memVars, bgVars, manifest, lifeVars,
                   reader, errors>>

AddRecordFails ==
    /\ up = "running" /\ lead.at = "append"
    /\ torn < scope.torn /\ torn' = torn + 1
    /\ logs' = [logs EXCEPT ![logNumber].recs = Append(@, {})]
    /\ lead' = [lead EXCEPT !.at = "failed"]
    /\ UNCHANGED <<writers, status, asleep, memVars, bgVars, manifest, up, rec, crashes,
                   scope, reader, errors>>

\* logfile_->Sync().
SyncLog == logs' = [logs EXCEPT ![logNumber].synced = Len(logs[logNumber].recs)]
Sync ==
    /\ up = "running" /\ lead.at = "sync"
    /\ SyncLog
    /\ lead' = [lead EXCEPT !.at = "insert"]
    /\ UNCHANGED <<writers, status, asleep, memVars, bgVars, manifest, lifeVars,
                   reader, errors>>

SyncFails ==
    /\ up = "running" /\ lead.at = "sync"
    /\ errors < scope.errors /\ errors' = errors + 1
    /\ lead' = [lead EXCEPT !.at = "syncFailed"]
    /\ UNCHANGED <<writers, status, asleep, memVars, bgVars, diskVars, lifeVars,
                   reader>>

\* WriteBatchInternal::InsertInto, still without the mutex.
InsertInto ==
    /\ up = "running" /\ lead.at = "insert"
    /\ mems' = [mems EXCEPT ![logNumber] = @ \cup Group]
    /\ lead' = [lead EXCEPT !.at = "inserted"]
    /\ UNCHANGED <<writers, status, asleep, logNumber, imm, lastSequence, nextFile,
                   bgVars, diskVars, lifeVars, reader, errors>>

\* WriteBatchInternal::Count, which counts entries and not batches.
Count == Cardinality(Group)

\* With the mutex again: the sequence numbers are used up, whatever happened.
Finish ==
    /\ up = "running" /\ lead.at \in {"inserted", "failed", "syncFailed"}
    /\ lastSequence' = lastSequence + Count
    /\ Return(lead.group, lead.at = "inserted")
    /\ bgError' = (bgError \/ lead.at = "syncFailed")
    /\ asleep' = Woken(lead.group) \
                    (IF bgError' /\ ~bgError THEN BackgroundWaiters ELSE {})
    /\ UNCHANGED <<mems, logNumber, imm, nextFile, version, bg, diskVars, lifeVars,
                   reader, errors>>

\* The loop of TEST_CompactMemTable that waits for the flush.
CompactMemTableWaits(w) ==
    /\ up = "running" /\ status[w] = "flushing" /\ w \notin asleep
    /\ IF imm # 0 /\ ~bgError
       THEN asleep' = asleep \cup {w} /\ UNCHANGED status
       ELSE /\ status' = [status EXCEPT ![w] = IF imm = 0 THEN "ok" ELSE "failed"]
            /\ UNCHANGED asleep
    /\ UNCHANGED <<writers, lead, memVars, bgVars, diskVars, lifeVars, reader, errors>>

-----------------------------------------------------------------------------
(***************************************************************************)
(* DBImpl::Get                                                             *)
(***************************************************************************)

NotReading == \A i \in DOMAIN reader : reader[i].done

GetBegin(k) ==
    /\ up = "running" /\ NotReading
    /\ reader' = <<[key |-> k, snap |-> lastSequence, mem |-> logNumber, imm |-> imm,
                    tables |-> version.tables, got |-> << >>, done |-> FALSE]>>
    /\ UNCHANGED <<queueVars, memVars, bgVars, diskVars, lifeVars, errors>>

\* imm_ is not looked at.
GotWithoutImm(r) ==
    LET m == Newest(mems[r.mem], r.key, r.snap)
    IN  IF m # << >> THEN m ELSE Newest(r.tables, r.key, r.snap)

\* The memtable first, then the immutable one, then the tables.
Got(r) ==
    LET m == Newest(mems[r.mem], r.key, r.snap)
        i == IF r.imm = 0 THEN << >> ELSE Newest(mems[r.imm], r.key, r.snap)
    IN  IF m # << >> THEN m ELSE IF i # << >> THEN i
        ELSE Newest(r.tables, r.key, r.snap)

Get ==
    /\ up = "running" /\ reader # << >> /\ ~reader[1].done
    /\ reader' = <<[reader[1] EXCEPT !.got = Got(reader[1]), !.done = TRUE]>>
    /\ UNCHANGED <<queueVars, memVars, bgVars, diskVars, lifeVars, errors>>

-----------------------------------------------------------------------------
(***************************************************************************)
(* The background thread                                                   *)
(***************************************************************************)
Alive == up \in {"running", "closing"}

\* The end of BackgroundCall: reschedule if needed, and SignalAll.
EndCall(im, v, err) ==
    bg' = [BgIdle EXCEPT !.on = MaybeScheduleCompaction(FALSE, im, v, err)]

BackgroundCall ==
    /\ Alive /\ bg.on /\ bg.at = "idle"
    /\ CASE up = "closing" \/ bgError \/ (imm = 0 /\ version.level0 < L0Trigger) ->
              /\ EndCall(imm, version, bgError)
              /\ asleep' = asleep \ BackgroundWaiters
              /\ UNCHANGED nextFile
         [] OTHER ->
              /\ bg' = IF imm # 0 THEN [bg EXCEPT !.at = "build"]
                       ELSE [bg EXCEPT !.at = "merge", !.merging = version.level0]
              /\ nextFile' = nextFile + 1
              /\ UNCHANGED asleep
    /\ UNCHANGED <<writers, status, lead, mems, logNumber, imm, lastSequence, version,
                   bgError, diskVars, lifeVars, reader, errors>>

\* DoCompactionWork looks for a full memtable between two keys.
MergeFlushes ==
    /\ up = "running" /\ bg.at = "merge" /\ imm # 0
    /\ bg' = [bg EXCEPT !.at = "build"]
    /\ nextFile' = nextFile + 1
    /\ UNCHANGED <<queueVars, mems, logNumber, imm, lastSequence, version, bgError,
                   diskVars, lifeVars, reader, errors>>

\* Back from CompactMemTable: to the merge it interrupted, or out.
FlushReturns(im, v, err) ==
    IF bg.merging > 0 THEN bg' = [bg EXCEPT !.at = "merge", !.edit = << >>]
    ELSE EndCall(im, v, err)

\* BuildTable wrote and synced the file; the edit for LogAndApply is made.  The
\* new file goes to level 0 or, if PickLevelForMemTableOutput says so, below.
EditedLog == logNumber

BuildTable ==
    /\ up = "running" /\ bg.at = "build"
    /\ \E l \in {0, 1} :
        /\ mems[imm] = {} => l = 0
        /\ bg' = [bg EXCEPT !.at = "manifest",
                    !.edit = <<[tables |-> version.tables \cup mems[imm],
                                level0 |-> version.level0 + l, log |-> EditedLog,
                                last |-> lastSequence, next |-> nextFile]>>]
    /\ UNCHANGED <<queueVars, memVars, version, bgError, diskVars, lifeVars, reader,
                   errors>>

\* It failed, or the database is being closed.
FlushFails ==
    /\ Alive /\ bg.at = "build"
    /\ up = "closing" \/ errors < scope.errors
    /\ errors' = IF up = "closing" THEN errors ELSE errors + 1
    /\ bgError' = TRUE /\ asleep' = asleep \ BackgroundWaiters
    /\ FlushReturns(imm, version, TRUE)
    /\ UNCHANGED <<writers, status, lead, memVars, version, diskVars, lifeVars, reader>>

\* LogAndApply appends the edit to the MANIFEST and syncs it.
WriteManifest ==
    /\ Alive /\ bg.at = "manifest"
    /\ manifest' = bg.edit[1]
    /\ bg' = [bg EXCEPT !.at = "written"]
    /\ UNCHANGED <<queueVars, memVars, version, bgError, logs, lifeVars, reader, errors>>

\* It failed; nobody knows whether the edit is on disk.
ManifestFails ==
    /\ Alive /\ bg.at = "manifest"
    /\ errors < scope.errors /\ errors' = errors + 1
    /\ manifest' \in {manifest, bg.edit[1]}
    /\ bgError' = TRUE /\ asleep' = asleep \ BackgroundWaiters
    /\ FlushReturns(imm, version, TRUE)
    /\ UNCHANGED <<writers, status, lead, memVars, version, logs, lifeVars, reader>>

\* DeleteObsoleteFiles: the logs before the version's own; none after an error.
Obsolete(v, err) == IF err THEN {} ELSE {n \in DOMAIN logs : n < v.log}

\* The new version is installed, imm_ dropped, what is obsolete deleted.
CommitFlush ==
    /\ Alive /\ bg.at = "written"
    /\ LET e == bg.edit[1]
           v == [tables |-> e.tables, level0 |-> e.level0, log |-> e.log]
       IN  /\ version' = v
           /\ logs' = Without(logs, Obsolete(v, bgError))
           /\ FlushReturns(0, v, bgError)
    /\ imm' = 0
    /\ asleep' = asleep \ BackgroundWaiters
    /\ UNCHANGED <<writers, status, lead, mems, logNumber, lastSequence, nextFile,
                   bgError, manifest, lifeVars, reader, errors>>

\* The end of DoCompactionWork, which does not look at bg_error_: the files it
\* began with leave level 0.  Its edit names the log of the version in memory.
Merge ==
    /\ up = "running" /\ bg.at = "merge"
    /\ version' = [version EXCEPT !.level0 = @ - bg.merging]
    /\ manifest' = [manifest EXCEPT !.level0 = @ - bg.merging, !.log = version.log,
                        !.last = lastSequence, !.next = nextFile]
    /\ EndCall(imm, version', bgError)
    /\ asleep' = asleep \ BackgroundWaiters
    /\ UNCHANGED <<writers, status, lead, memVars, bgError, logs, lifeVars, reader, errors>>

\* It failed, or the database is being closed.
MergeFails ==
    /\ bg.at = "merge"
    /\ \/ up = "closing" /\ UNCHANGED errors
       \/ up = "running" /\ errors < scope.errors /\ errors' = errors + 1
    /\ bgError' = TRUE /\ asleep' = asleep \ BackgroundWaiters
    /\ EndCall(imm, version, TRUE)
    /\ UNCHANGED <<writers, status, lead, memVars, version, diskVars, lifeVars, reader>>

-----------------------------------------------------------------------------
(***************************************************************************)
(* The end of a process and the next one                                   *)
(***************************************************************************)

\* All that is in memory is gone.
Down(kind) ==
    /\ up' = kind /\ rec' = NoRec
    /\ writers' = << >> /\ asleep' = {} /\ lead' = Idle
    /\ status' = [w \in Writer |-> IF status[w] \in {"waiting", "flushing"}
                                   THEN "lost" ELSE status[w]]
    /\ mems' = << >> /\ logNumber' = 0 /\ imm' = 0
    /\ lastSequence' = 0 /\ nextFile' = 0
    /\ version' = [tables |-> {}, level0 |-> 0, log |-> 0]
    /\ bg' = BgIdle /\ bgError' = FALSE /\ reader' = << >>
    /\ UNCHANGED <<manifest, errors, torn, scope>>

\* The numbers of a set in their order.
Ascending(K) ==
    {p \in [1 .. Cardinality(K) -> K] : \A i, j \in DOMAIN p : i < j => p[i] < p[j]}

\* What may be left of a log: all of it, or a prefix with what was synced; of
\* what was written behind a failed append, a reader may find any part.
Left(f, kind) ==
    LET bad == Min({i \in DOMAIN f.recs : f.recs[i] = {}} \cup {Len(f.recs) + 1})
        least == IF kind = "exited" THEN Len(f.recs) ELSE f.synced
        found == {K \in SUBSET {i \in DOMAIN f.recs : f.recs[i] # {}} :
                    \E n \in least .. Len(f.recs) : /\ \A i \in K : i <= n
                                                    /\ \A i \in 1 .. n : i < bad => i \in K}
    IN  {[recs |-> [j \in DOMAIN p |-> f.recs[p[j]]], synced |-> Len(p)] :
            p \in UNION {Ascending(K) : K \in found}}

LogsLeft(kind) ==
    {g \in [DOMAIN logs -> UNION {Left(logs[n], kind) : n \in DOMAIN logs}] :
        \A n \in DOMAIN logs : g[n] \in Left(logs[n], kind)}

Crash(kind) ==
    /\ crashes < scope.crashes /\ crashes' = crashes + 1
    /\ Down(kind)
    /\ logs' \in LogsLeft(kind)

\* ~DBImpl: the caller has no call under way; the background thread is waited for.
Close ==
    /\ up = "running" /\ crashes < scope.crashes
    /\ writers = << >> /\ \A w \in Writer : status[w] # "flushing"
    /\ NotReading
    /\ up' = "closing" /\ reader' = << >>
    /\ UNCHANGED <<queueVars, memVars, bgVars, diskVars, rec, crashes, torn, scope, errors>>

CloseEnds ==
    /\ up = "closing" /\ ~bg.on
    /\ crashes' = crashes + 1
    /\ Down("exited")
    /\ logs' \in LogsLeft("exited")

-----------------------------------------------------------------------------
(***************************************************************************)
(* DB::Open                                                                *)
(***************************************************************************)
ToReplay(n) == n >= manifest.log
MaxOr0(S) == Max(S \cup {0})

\* The last sequence number of a record: Sequence + Count - 1.
FirstSeq(r) == Min({e.seq : e \in r})
LastSeq(r) == FirstSeq(r) + Cardinality(r) - 1

RecordsOf(ns) == UNION {ToSet(logs[n].recs) : n \in ns}

\* MarkFileNumberUsed, for every log that was replayed.
MarkNothing(next, ns) == next
MarkFileNumberUsed(next, ns) == MaxOr0({next} \cup {n + 1 : n \in ns})

\* Recover and RecoverLogFile: the logs from the manifest's on are replayed.
\* With options.reuse_logs the last one stays in use and its entries in mem_,
\* unless they filled a memtable.
Recover ==
    /\ up \in {"exited", "rebooted"} /\ rec.at = "none"
    /\ \E reuse \in BOOLEAN :
        LET ns == {n \in DOMAIN logs : ToReplay(n)}
            lastLog == MaxOr0(ns)
            tail == UNION RecordsOf({lastLog} \cap ns)
            kept == reuse /\ ns # {} /\ Cardinality(tail) <= scope.buffer
            tabled == UNION RecordsOf(IF kept THEN ns \ {lastLog} ELSE ns)
        IN  /\ lastSequence' = MaxOr0({manifest.last} \cup
                                      {LastSeq(r) : r \in RecordsOf(ns)})
            /\ nextFile' = MarkFileNumberUsed(manifest.next + 1, ns)
            /\ rec' = [at |-> "replayed", entries |-> tabled, reuse |-> kept]
            /\ logNumber' = IF kept THEN lastLog ELSE 0
            /\ mems' = IF kept THEN [n \in {lastLog} |-> tail] ELSE << >>
    /\ UNCHANGED <<queueVars, imm, bgVars, diskVars, up, crashes, torn, scope, reader, errors>>

\* Unless a log is reused, there is a new one, with an empty memtable.
OpenLog ==
    /\ rec.at = "replayed" /\ up \in {"exited", "rebooted"}
    /\ IF rec.reuse THEN UNCHANGED <<logs, mems, logNumber, nextFile>>
       ELSE /\ logs' = With(logs, nextFile, EmptyLog)
            /\ mems' = [n \in {nextFile} |-> {}]
            /\ logNumber' = nextFile /\ nextFile' = nextFile + 1
    /\ rec' = [rec EXCEPT !.at = "opened"]
    /\ UNCHANGED <<queueVars, imm, lastSequence, bgVars, manifest, up, crashes, torn, scope, reader,
                   errors>>

\* LogAndApply; with reuse_logs there may be nothing to save.
OpenSaves ==
    /\ rec.at = "opened" /\ up \in {"exited", "rebooted"}
    /\ rec' = [rec EXCEPT !.at = "saved"]
    /\ \/ manifest' = [tables |-> manifest.tables \cup rec.entries,
                       level0 |-> manifest.level0 + (IF rec.entries = {} THEN 0 ELSE 1),
                       log |-> logNumber, last |-> lastSequence, next |-> nextFile]
       \/ rec.reuse /\ rec.entries = {} /\ UNCHANGED manifest
    /\ UNCHANGED <<queueVars, memVars, bgVars, logs, up, crashes, torn, scope, reader, errors>>

\* DeleteObsoleteFiles and MaybeScheduleCompaction; the database is open.
OpenReturns ==
    /\ rec.at = "saved" /\ up \in {"exited", "rebooted"}
    /\ LET v == [tables |-> manifest.tables, level0 |-> manifest.level0,
                 log |-> manifest.log]
       IN  /\ version' = v
           /\ logs' = Without(logs, Obsolete(v, FALSE))
           /\ bg' = [BgIdle EXCEPT !.on = v.level0 >= L0Trigger]
    /\ up' = "running" /\ rec' = NoRec
    /\ UNCHANGED <<queueVars, memVars, bgError, manifest, crashes, torn, scope, reader, errors>>

-----------------------------------------------------------------------------
WriterStep ==
    \/ Lead \/ RoomError \/ Delay \/ WaitForBackground \/ SwitchMemTable \/ SwitchFails
    \/ BuildGroup \/ AddRecord \/ AddRecordFails \/ Sync \/ SyncFails \/ InsertInto
    \/ Finish \/ \E w \in Flusher : CompactMemTableWaits(w)
BackgroundStep ==
    \/ BackgroundCall \/ MergeFlushes \/ BuildTable \/ FlushFails \/ WriteManifest
    \/ ManifestFails \/ CommitFlush \/ Merge \/ MergeFails
OpenStep == Recover \/ OpenLog \/ OpenSaves \/ OpenReturns

Next ==
    \/ \E w \in scope.writers : Enqueue(w)
    \/ WriterStep \/ BackgroundStep \/ OpenStep
    \/ \E k \in scope.reads : GetBegin(k)
    \/ Get
    \/ \E kind \in {"exited", "rebooted"} : Crash(kind)
    \/ Close \/ CloseEnds

\* Threads that are awake run, and a thread that Env was asked for runs.
Spec == Init /\ [][Next]_vars /\ WF_vars(WriterStep) /\ WF_vars(BackgroundStep)

-----------------------------------------------------------------------------
(***************************************************************************)
(* Properties                                                              *)
(***************************************************************************)
Entry == [key : Key, by : Write, seq : Nat \ {0}]

TypeOK ==
    /\ ToSet(writers) \subseteq Writer /\ IsInjective(writers)
    /\ status \in [Writer -> {"new", "waiting", "flushing", "ok", "failed", "lost"}]
    /\ asleep \subseteq {w \in Writer : status[w] \in {"waiting", "flushing"}}
    /\ lead.at # "idle" => writers # << >>
    /\ imm \in DOMAIN mems \cup {0} /\ logNumber \in DOMAIN mems \cup {0}
    /\ \A n \in DOMAIN mems : mems[n] \subseteq Entry
    /\ \A n \in DOMAIN logs : UNION ToSet(logs[n].recs) \subseteq Entry
    /\ version.tables \subseteq Entry /\ manifest.tables \subseteq Entry
    /\ version.level0 \in Nat /\ bg.merging <= version.level0
    /\ up = "running" => logNumber \in DOMAIN logs

\* What the open database has in mem_, imm_ and the tables; what a recovery
\* would find.
InMemory == mems[logNumber] \cup (IF imm = 0 THEN {} ELSE mems[imm]) \cup version.tables
OnDisk == manifest.tables \cup UNION RecordsOf({n \in DOMAIN logs : ToReplay(n)})
Visible == IF Alive THEN {e \in InMemory : e.seq <= lastSequence} ELSE OnDisk

\* Write, db.h: a batch is applied atomically.  No reader with a snapshot, and
\* no recovery, sees a part of one.
AllOrNothing ==
    \A w \in Write :
        LET n == Cardinality({e \in Visible : e.by = w})
        IN  n = 0 \/ n = Len(Batch[w])

\* A sequence number is given to one entry only, over all crashes and failures:
\* the order of two entries of a key is the order of their numbers.
SequencesUnique ==
    \A e, f \in OnDisk \cup (IF Alive THEN InMemory ELSE {}) : e.seq = f.seq => e = f

\* Get returns the newest entry of its snapshot, whatever is written, switched
\* or flushed while it reads without the mutex.
GetIsSnapshot ==
    \A i \in DOMAIN reader :
        LET r == reader[i]
        IN  r.done => r.got = Newest(InMemory, r.key, r.snap)

\* WriteOptions::sync, options.h: a write that asked for sync and was answered
\* with success is there, though the machine went down since.  (Behind a failed
\* append nothing is sure to be read again.)
SyncedStay ==
    torn = 0 => \A w \in Write \cap Synced : status[w] = "ok" => \E e \in Visible : e.by = w

\* What can be seen at a sequence number is whole, ordered and stays: the four
\* above, and the types.
SnapshotsAreRight ==
    TypeOK /\ AllOrNothing /\ SequencesUnique /\ GetIsSnapshot /\ SyncedStay

\* The write path implements what is promised to its callers: the writes of a
\* group are shown together and in the order of the queue, and after a crash
\* the writes are there that KVStore says are.
Store ==
    LET at(w) == Min({e.seq : e \in {f \in Visible : f.by = w}})
    IN  SetToSortSeq({e.by : e \in Visible}, LAMBDA v, w : at(v) < at(w))

KV == INSTANCE KVStore WITH
        store <- Store,
        status <- [w \in Write |-> status[w]],
        up <- IF Alive THEN "running" ELSE up,
        Synced <- Synced \cap Write

KVSpec == KV!Spec

\* No writer waits for ever: each is made a leader or answered by one, and the
\* background thread ends every wait in MakeRoomForWrite and for a flush.
WritesReturn ==
    \A w \in Writer : status[w] \in {"waiting", "flushing"}
                        ~> status[w] \in {"ok", "failed", "lost"}
=============================================================================
