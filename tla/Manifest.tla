------------------------------ MODULE Manifest ------------------------------
(***************************************************************************)
(* How a database comes to be, is opened, and records its tables: NewDB    *)
(* and Open (db/db_impl.cc), VersionSet::Recover and LogAndApply           *)
(* (db/version_set.cc), SetCurrentFile (db/filename.cc) and what the POSIX *)
(* environment does for them (util/env_posix.cc, util/env.cc), with        *)
(* crashes, power failures and I/O errors between any two steps.           *)
(*                                                                         *)
(* The file system keeps changes of the directory in order: after a power  *)
(* failure it is as it was at some moment since it was last synced.  Of a  *)
(* file that was not synced any part at the end may be missing.            *)
(***************************************************************************)
EXTENDS Integers, Sequences, SequencesExt, FiniteSets

CONSTANTS
    Scopes,         \* the cases: [created, reuse], the second being what ReuseManifest may
                    \* answer, {FALSE} without options_->reuse_logs; without the first,
                    \* NewDB comes first
    WriteBack,      \* TRUE: the system may write data back before it is synced
    MaxNumber,      \* bound: file numbers
    MaxCrashes,     \* bound: crashes
    MaxErrors       \* bound: I/O errors

ASSUME SettingAssumption ==
    /\ Scopes \subseteq [created : BOOLEAN, reuse : SUBSET BOOLEAN] /\ WriteBack \in BOOLEAN
    /\ MaxNumber \in Nat \ {0, 1} /\ MaxCrashes \in Nat /\ MaxErrors \in Nat

VARIABLES
    scope,      \* the case, which stays the same
    inode,      \* the files, [data, synced], by inode number
    dirs,       \* the directories since the last sync; the last one is now
    pc,         \* where Open, LogAndApply or DeleteObsoleteFiles is
    version,    \* current_: a set of tables [number, stamp]
    nextFile,   \* next_file_number_
    manifest,   \* manifest_file_number_
    descriptor, \* the inode of descriptor_file_, 0 for nullptr
    edit,       \* the edit being applied
    fresh,      \* LogAndApply or NewDB is making a new manifest
    tried,      \* history: the version last installed by a running database,
                \* and those that were written since
    stamp,      \* history: tables written
    reliance,   \* history: "unsynced" from when an Open goes on with records of its manifest
                \* that are not synced until they are, "lost" if the power fails before
                \* that, up to the next Open that finds its tables
    crashes, errors

vars == <<scope, inode, dirs, pc, version, nextFile, manifest, descriptor, edit, fresh,
          tried, stamp, reliance, crashes, errors>>
mem == <<version, nextFile, manifest, descriptor, edit, fresh>>
past == <<scope, tried, stamp, reliance, crashes, errors>>

dir == Last(dirs)
CURRENT == <<"CURRENT", 0>>
Descriptor(n) == <<"MANIFEST", n>>
Table(n) == <<"ldb", n>>
Temp(n) == <<"dbtmp", n>>

NoEdit == [add |-> {}, del |-> {}, next |-> 0]
Bind(d, name, i) == [x \in DOMAIN d \cup {name} |-> IF x = name THEN i ELSE d[x]]
Unbind(d, name) == [x \in DOMAIN d \ {name} |-> d[x]]

\* A database that was created and closed long ago.
OldInodes == <<[data |-> <<[add |-> {}, del |-> {}, next |-> 2]>>, synced |-> 1],
               [data |-> <<1>>, synced |-> 1]>>
OldDir == [x \in {Descriptor(1), CURRENT} |-> IF x = CURRENT THEN 2 ELSE 1]

Init ==
    /\ scope \in Scopes
    /\ inode = IF scope.created THEN OldInodes ELSE << >>
    /\ dirs = IF scope.created THEN <<OldDir>> ELSE <<[x \in {} |-> 0]>>
    /\ pc = "closed" /\ version = {} /\ nextFile = 2 /\ manifest = 0 /\ descriptor = 0
    /\ edit = NoEdit /\ fresh = FALSE
    /\ tried = {{}} /\ stamp = 0 /\ reliance = "none" /\ crashes = 0 /\ errors = 0

-----------------------------------------------------------------------------
\* NewWritableFile: an existing file is truncated.
Create(name, data) ==
    LET i == IF name \in DOMAIN dir THEN dir[name] ELSE Len(inode) + 1
        f == [data |-> data, synced |-> 0]
    IN  /\ inode' = IF i > Len(inode) THEN Append(inode, f) ELSE [inode EXCEPT ![i] = f]
        /\ dirs' = IF name \in DOMAIN dir THEN dirs ELSE Append(dirs, Bind(dir, name, i))
InodeOf(name) == IF name \in DOMAIN dir THEN dir[name] ELSE Len(inode) + 1
Sync(i) == inode' = [inode EXCEPT ![i].synced = Len(inode[i].data)]
AddRecord(i, r) == inode' = [inode EXCEPT ![i].data = Append(@, r)]
Unsynced == {i \in 1 .. Len(inode) : inode[i].synced < Len(inode[i].data)}

\* DB::Open, and Recover's first question.
Open ==
    /\ pc = "closed"
    /\ pc' = IF CURRENT \in DOMAIN dir THEN "recover" ELSE "new"
    /\ version' = {} /\ nextFile' = 2 /\ manifest' = 0 /\ descriptor' = 0
    /\ edit' = NoEdit /\ fresh' = FALSE
    /\ reliance' = IF CURRENT \in DOMAIN dir THEN reliance ELSE "none"
    /\ UNCHANGED <<inode, dirs, scope, tried, stamp, crashes, errors>>

\* NewDB writes the first manifest, which it closes, and makes CURRENT.
NewDB ==
    \/ /\ pc = "new" /\ pc' = "newrecord" /\ Create(Descriptor(1), << >>)
       /\ manifest' = 1 /\ fresh' = TRUE /\ UNCHANGED <<version, nextFile, descriptor, edit, past>>
    \/ /\ pc = "newrecord" /\ pc' = "settemp"
       /\ AddRecord(dir[Descriptor(1)], [add |-> {}, del |-> {}, next |-> 2])
       /\ UNCHANGED <<dirs, mem, past>>

\* SetCurrentFile: WriteStringToFileSync of the temporary file, RenameFile.
SetCurrentFile ==
    \/ /\ pc = "settemp" /\ pc' = "synctemp" /\ Create(Temp(manifest), <<manifest>>)
       /\ UNCHANGED <<mem, past>>
    \/ /\ pc = "synctemp" /\ pc' = "rename" /\ Sync(dir[Temp(manifest)])
       /\ UNCHANGED <<dirs, mem, past>>
    \/ /\ pc = "rename"
       /\ pc' = IF descriptor = 0 THEN "recover" ELSE "install"
       /\ dirs' = Append(dirs, Bind(Unbind(dir, Temp(manifest)), CURRENT, dir[Temp(manifest)]))
       /\ UNCHANGED <<inode, mem, past>>

\* What a manifest says; a snapshot has no next file number.
ReplayAdded(es) == UNION {es[i].add : i \in DOMAIN es}
Replay(es) ==
    {t \in ReplayAdded(es) :
        \E i \in DOMAIN es : t \in es[i].add /\ \A j \in i + 1 .. Len(es) : t \notin es[j].del}
Numbers(es) == {e.next : e \in ToSet(es)} \ {0}
Named == IF inode[dir[CURRENT]].data = << >> THEN 0 ELSE inode[dir[CURRENT]].data[1]
Readable == Descriptor(Named) \in DOMAIN dir
            /\ Numbers(inode[dir[Descriptor(Named)]].data) # {}

\* The last next file number counts.
NextFile(es) ==
    CHOOSE n \in Numbers(es) : \E i \in 1 .. Len(es) :
        es[i].next = n /\ \A j \in i + 1 .. Len(es) : es[j].next = 0

\* DBImpl::Recover looks for the table files of the version it has read.
Whole == Readable /\ \A t \in Replay(inode[dir[Descriptor(Named)]].data) :
                        Table(t.number) \in DOMAIN dir
\* The history of an Open that has found them.
Found == IF reliance = "lost" THEN "none" ELSE reliance

\* VersionSet::Recover, with ReuseManifest; Open then takes a number for its log file.
\* Where the manifest is used again there is nothing to record, and Open goes on to
\* DeleteObsoleteFiles.
Recover ==
    /\ pc = "recover" /\ Whole
    /\ LET d == dir[Descriptor(Named)]
           next == NextFile(inode[d].data)
       IN  /\ version' = Replay(inode[d].data)
           /\ nextFile' = next + 2 /\ next + 2 <= MaxNumber
           /\ \/ /\ TRUE \in scope.reuse
                 /\ manifest' = Named /\ descriptor' = d /\ pc' = "delete" /\ fresh' = FALSE
                 /\ edit' = NoEdit
                 /\ reliance' = IF d \in Unsynced THEN "unsynced" ELSE Found
              \/ /\ FALSE \in scope.reuse
                 /\ manifest' = next /\ descriptor' = 0 /\ pc' = "snapshot" /\ fresh' = TRUE
                 /\ edit' = [NoEdit EXCEPT !.next = next + 2]
                 /\ reliance' = Found
    /\ UNCHANGED <<inode, dirs, scope, tried, stamp, crashes, errors>>

Corrupted ==
    /\ pc = "recover" /\ ~Whole /\ pc' = "corrupt"
    /\ UNCHANGED <<inode, dirs, mem, past>>

-----------------------------------------------------------------------------
\* A table is written and synced (BuildTable), then recorded by LogAndApply.
WriteTable(del) ==
    /\ pc = "open" /\ nextFile < MaxNumber /\ stamp < MaxNumber
    /\ Create(Table(nextFile), <<stamp + 1>>)
    /\ edit' = [add |-> {[number |-> nextFile, stamp |-> stamp + 1]}, del |-> del,
                next |-> nextFile + 1]
    /\ stamp' = stamp + 1 /\ nextFile' = nextFile + 1 /\ pc' = "synctable"
    /\ UNCHANGED <<version, manifest, descriptor, fresh, scope, tried, reliance, crashes, errors>>

SyncTable ==
    /\ pc = "synctable" /\ pc' = "addrecord"
    /\ Sync(dir[Table(nextFile - 1)]) /\ UNCHANGED <<dirs, mem, past>>

\* LogAndApply, without a descriptor: a new manifest and a snapshot in it.
WriteSnapshot ==
    /\ pc = "snapshot" /\ pc' = "addrecord"
    /\ Create(Descriptor(manifest), <<[add |-> version, del |-> {}, next |-> 0]>>)
    /\ descriptor' = InodeOf(Descriptor(manifest))
    /\ UNCHANGED <<version, nextFile, manifest, edit, fresh, past>>

LogAndApply ==
    /\ pc = "addrecord" /\ pc' = "syncdir"
    /\ AddRecord(descriptor, edit)
    /\ tried' = tried \cup {(version \ edit.del) \cup edit.add}
    /\ UNCHANGED <<dirs, mem, scope, stamp, reliance, crashes, errors>>

\* PosixWritableFile::Sync of a manifest syncs its directory first.
SyncNoDir == dirs
SyncedDir == <<dir>>
SyncDirIfManifest ==
    /\ pc = "syncdir" /\ pc' = "sync" /\ dirs' = SyncedDir
    /\ UNCHANGED <<inode, mem, past>>

SyncManifest == Sync(descriptor)
SyncFd ==
    /\ pc = "sync" /\ SyncManifest
    /\ pc' = IF fresh THEN "settemp" ELSE "install"
    /\ reliance' = IF fresh THEN reliance ELSE "none"
    /\ UNCHANGED <<dirs, mem, scope, tried, stamp, crashes, errors>>

\* AppendVersion; what follows deletes the obsolete files.
Install ==
    /\ pc = "install" /\ pc' = "delete"
    /\ version' = (version \ edit.del) \cup edit.add
    /\ tried' = IF fresh THEN tried ELSE {version'}
    /\ fresh' = FALSE /\ edit' = NoEdit
    /\ UNCHANGED <<inode, dirs, nextFile, manifest, descriptor, scope, stamp, reliance, crashes,
                   errors>>

\* DeleteObsoleteFiles
Obsolete ==
    {x \in DOMAIN dir : \/ x[1] = "MANIFEST" /\ x[2] < manifest
                        \/ x[1] = "ldb" /\ ~\E t \in version : t.number = x[2]
                        \/ x[1] = "dbtmp"}
DeleteObsolete ==
    /\ pc = "delete"
    /\ \/ /\ Obsolete = {} /\ pc' = "open" /\ UNCHANGED dirs
       \/ \E x \in Obsolete : dirs' = Append(dirs, Unbind(dir, x)) /\ UNCHANGED pc
    /\ UNCHANGED <<inode, mem, past>>

-----------------------------------------------------------------------------
\* A call fails.  The file that it was about is deleted; with a new manifest
\* Open fails, in a running database the error stays and nothing is installed or deleted any more.
Failing == {"new", "newrecord", "settemp", "synctemp", "rename", "snapshot", "addrecord",
            "syncdir", "sync", "synctable"}
AfterError == "failed"
InSetCurrent == pc \in {"settemp", "synctemp", "rename"}
Abandoned ==
    {x \in DOMAIN dir :
        \/ x = Temp(manifest) /\ InSetCurrent
        \/ x = Table(nextFile - 1) /\ pc = "synctable"
        \/ x = Descriptor(manifest) /\ fresh /\ ~(descriptor = 0 /\ InSetCurrent)}
Fail ==
    /\ pc \in Failing /\ errors < MaxErrors /\ errors' = errors + 1
    /\ dirs' = IF Abandoned = {} THEN dirs
               ELSE Append(dirs, [x \in DOMAIN dir \ Abandoned |-> dir[x]])
    /\ \/ fresh /\ pc' = "closed" /\ UNCHANGED inode
       \/ ~fresh /\ pc' = AfterError /\ UNCHANGED inode
       \* a failed append or sync may have written the record
       \/ /\ ~fresh /\ pc = "addrecord" /\ pc' = AfterError /\ AddRecord(descriptor, edit)
    /\ tried' = IF pc = "addrecord" THEN tried \cup {(version \ edit.del) \cup edit.add} ELSE tried
    /\ UNCHANGED <<mem, scope, stamp, reliance, crashes>>

Close ==
    /\ pc \in {"open", "failed"} /\ pc' = "closed"
    /\ UNCHANGED <<inode, dirs, mem, past>>

\* The process dies; or the power fails, and of what was not synced the
\* directory's end is lost and, for each file, all or (WriteBack) nothing.
Lost(f) == [f EXCEPT !.data = SubSeq(f.data, 1, f.synced)]

Die ==
    /\ pc \notin {"closed", "corrupt"} /\ crashes < MaxCrashes /\ crashes' = crashes + 1
    /\ pc' = "closed"
    /\ UNCHANGED <<mem, scope, tried, stamp, errors>>
Exit == Die /\ UNCHANGED <<inode, dirs, reliance>>
PowerFails ==
    /\ Die /\ \E i \in 1 .. Len(dirs) : dirs' = <<dirs[i]>>
    /\ reliance' = IF reliance = "unsynced" THEN "lost" ELSE reliance
    /\ \E kept \in (IF WriteBack THEN SUBSET Unsynced ELSE {{}}) :
            inode' = [i \in 1 .. Len(inode) |-> IF i \in kept THEN inode[i] ELSE Lost(inode[i])]

Next ==
    \/ Open \/ NewDB \/ SetCurrentFile \/ Recover \/ Corrupted
    \/ \E del \in SUBSET version : WriteTable(del)
    \/ SyncTable \/ WriteSnapshot \/ LogAndApply \/ SyncDirIfManifest \/ SyncFd
    \/ Install \/ DeleteObsolete \/ Fail \/ Close \/ Exit \/ PowerFails

Spec == Init /\ [][Next]_vars

-----------------------------------------------------------------------------
\* The descriptor is the manifest of that number, and no table has a number
\* that is still to be given.
TypeOK ==
    /\ \A i \in 1 .. Len(inode) : inode[i].synced \in 0 .. Len(inode[i].data)
    /\ \A i \in 1 .. Len(dirs) : \A x \in DOMAIN dirs[i] : dirs[i][x] \in 1 .. Len(inode)
    /\ nextFile \in 2 .. MaxNumber
    /\ \A t \in version : t.number < nextFile
    /\ descriptor # 0 /\ pc \notin {"closed", "corrupt"} =>
            Descriptor(manifest) \in DOMAIN dir /\ dir[Descriptor(manifest)] = descriptor

\* A database that was there can be opened again, whatever happened before; unless a
\* power failure took records of the manifest from under an Open that had gone on
\* with them, and deleted by them, before they were synced.
NeverCorrupt == scope.created /\ reliance # "lost" => pc # "corrupt"

\* What is recovered is what a running database installed last, or what was
\* written since: an installed version is never undone.  (One that Open itself
\* installed may be, for nothing syncs the directory after it renames CURRENT.)
NothingForgotten ==
    [][pc = "recover" /\ pc' # "corrupt" /\ pc' # "closed" => version' \in tried]_vars

\* A table that the version names is there, whole, and the one it was: no
\* number is given to two tables, none is deleted while a manifest needs it.
TablesExist ==
    pc \notin {"closed", "new", "newrecord", "recover", "corrupt"} =>
        \A t \in version : /\ Table(t.number) \in DOMAIN dir
                           /\ inode[dir[Table(t.number)]].data = <<t.stamp>>

\* A database that was there opens again, but for the case of NeverCorrupt, and every
\* table that its version names is there, whole, and the one it was.
DatabaseOpens == NeverCorrupt /\ TablesExist /\ TypeOK
=============================================================================
