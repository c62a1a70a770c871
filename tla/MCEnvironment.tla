--------------------------- MODULE MCEnvironment ----------------------------
(***************************************************************************)
(* LevelDB and its files: how a database is created, opened and recorded   *)
(* in its manifest; the parts of the POSIX environment that threads share: *)
(* the lock file, the limits on open files, the queue of background work,  *)
(* and a file's write buffer; and the formats of MCFormats.  The parts     *)
(* share no state; a behaviour is one of one part, and the others stay as  *)
(* they begin.                                                             *)
(***************************************************************************)
EXTENDS MCFormats, Manifest, PosixFile, PosixLock, PosixSchedule, WritableFile

posixVars == <<lockVars, fileVars, workVars, bufferVars>>
envVars == <<part, formatVars, vars, posixVars>>

-----------------------------------------------------------------------------
\* A database that is there, with and without reuse_logs, and one still to be made.
MCScopes == {[created |-> TRUE, reuse |-> {FALSE}], [created |-> TRUE, reuse |-> {TRUE}],
             [created |-> FALSE, reuse |-> {TRUE}]}

\* Three threads: of three processes, or two of them of one process.
Three == {"a", "b", "c"}
Apart == [t \in Three |-> t]
MCHomes == {Apart, [t \in Three |-> IF t = "c" THEN "c" ELSE "a"]}

-----------------------------------------------------------------------------
EnvInit ==
    /\ part \in {"manifest", "lock", "files", "work", "buffer"} \cup FormatPart
    /\ part # "manifest" => scope = [created |-> TRUE, reuse |-> {FALSE}]
    /\ part # "lock" => home = Apart
    /\ FormatsInit /\ Init /\ LockInit /\ FileInit /\ WorkInit /\ BufferInit

EnvNext ==
    \/ part \in FormatPart /\ FormatsNext /\ UNCHANGED <<vars, posixVars>>
    \/ part = "manifest" /\ Next /\ UNCHANGED <<part, formatVars, posixVars>>
    \/ /\ UNCHANGED <<part, formatVars, vars>>
       /\ \/ part = "lock" /\ LockNext /\ UNCHANGED <<fileVars, workVars, bufferVars>>
          \/ part = "files" /\ FileNext /\ UNCHANGED <<lockVars, workVars, bufferVars>>
          \/ part = "work" /\ WorkNext /\ UNCHANGED <<lockVars, fileVars, bufferVars>>
          \/ part = "buffer" /\ BufferNext /\ UNCHANGED <<lockVars, fileVars, workVars>>

\* Threads run, and background_work_mutex_ is fair to the background thread; reading and
\* decoding go on.
Working(A) ==
    /\ part = "work" /\ A
    /\ UNCHANGED <<part, formatVars, vars, lockVars, fileVars, bufferVars>>
EnvSpec ==
    /\ EnvInit /\ [][EnvNext]_envVars
    /\ \A c \in Caller : WF_envVars(Working(Schedule(c)))
    /\ SF_envVars(Working(LockQueue)) /\ WF_envVars(Working(Wait))
    /\ WF_envVars(Working(Take)) /\ WF_envVars(Working(Finish))
    /\ WF_envVars(Reads /\ UNCHANGED <<vars, posixVars>>)
    /\ WF_envVars(Decodes /\ UNCHANGED <<vars, posixVars>>)
=============================================================================
