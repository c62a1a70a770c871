------------------------------ MODULE KVStore -------------------------------
(***************************************************************************)
(* What leveldb::DB promises to those who write to it (the comments of     *)
(* options.h on WriteOptions::sync and of db.h on Write): writes take      *)
(* effect one after another, in whole groups; a write that was answered    *)
(* with success stays when the process dies, and, if it asked for sync,    *)
(* when the machine does.  A write that failed, or that was not answered   *)
(* yet, may turn up after a restart, behind all others.                    *)
(***************************************************************************)
EXTENDS Sequences, SequencesExt

CONSTANTS
    Write,      \* the writes, each a WriteBatch with its WriteOptions
    Synced      \* those with options.sync

VARIABLES
    store,      \* the writes the database shows, in their order
    status,     \* status[w]: "new", "waiting", "ok", "failed" or "lost"
    up          \* "running", "exited" or, the machine gone down, "rebooted"

vars == <<store, status, up>>

Init ==
    /\ store = << >>
    /\ status = [w \in Write |-> "new"]
    /\ up = "running"

Ask(w) ==
    /\ up = "running" /\ status[w] = "new"
    /\ status' = [status EXCEPT ![w] = "waiting"]
    /\ UNCHANGED <<store, up>>

\* Several writes are shown and answered in one step.
Commit ==
    /\ up = "running" /\ UNCHANGED up
    /\ \E n \in 1 .. Len(store') :
        LET ws == SubSeq(store', n, Len(store'))
        IN  /\ SubSeq(store', 1, n - 1) = store
            /\ \A i \in 1 .. Len(ws) : status[ws[i]] = "waiting"
            /\ status' = [w \in Write |-> IF w \in ToSet(ws) THEN "ok" ELSE status[w]]

Fail ==
    /\ up = "running" /\ UNCHANGED <<store, up>>
    /\ \E F \in SUBSET {w \in Write : status[w] = "waiting"} :
        status' = [w \in Write |-> IF w \in F THEN "failed" ELSE status[w]]

\* What a restart may find: `kept' of the old writes, and `late' ones.
Die(kind) ==
    /\ up' = kind
    /\ status' = [w \in Write |->
                    IF status[w] = "waiting" THEN "lost" ELSE status[w]]
    /\ \E n \in 0 .. Len(store') :
        LET kept == SubSeq(store', 1, n)
            late == SubSeq(store', n + 1, Len(store'))
        IN  /\ kept = SelectSeq(store, LAMBDA w : w \in ToSet(kept))
            /\ kind = "exited" => kept = store
            /\ \A i \in 1 .. Len(late) : status[late[i]] \in {"waiting", "failed", "lost"}
            /\ \A w \in Synced : status[w] = "ok" => w \in ToSet(kept)

Open ==
    /\ up # "running" /\ up' = "running"
    /\ UNCHANGED <<store, status>>

Next ==
    \/ \E w \in Write : Ask(w)
    \/ Commit \/ Fail
    \/ \E kind \in {"exited", "rebooted"} : Die(kind)
    \/ Open

Spec == Init /\ [][Next]_vars
=============================================================================
