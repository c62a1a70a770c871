------------------------------ MODULE MCDBImpl ------------------------------
(***************************************************************************)
(* An instance of DBImpl: which batch each call of Write carries, and what *)
(* may go wrong together.                                                  *)
(***************************************************************************)
EXTENDS DBImpl

\* A batch of two keys, two of one; the second of them overwrites the first;
\* a call of TEST_CompactMemTable.
MCBatch ==
    ("w1" :> <<"a", "b">>) @@ ("w2" :> <<"a">>) @@ ("w3" :> <<"b">>)
        @@ ("f" :> << >>)

Scope(W, K, bounds) ==
    [writers |-> W, reads |-> K, buffer |-> bounds[1], crashes |-> bounds[2],
     errors |-> bounds[3], torn |-> bounds[4]]

\* Two crashes of a database that flushes before every write but the first; a
\* crash of one that flushes less often; a failing file operation with a crash
\* and with three writers; failures around a flush that is asked for; a failure
\* under a read.
MCScopes ==
    {Scope({"w1", "w2"}, {}, <<0, 2, 0, 0>>),
     Scope({"w1", "w2", "w3"}, {}, <<1, 1, 0, 0>>),
     Scope({"w1", "w2"}, {}, <<0, 1, 1, 0>>),
     Scope({"w1", "w2", "w3"}, {}, <<0, 0, 1, 0>>),
     Scope({"w1", "w2", "f"}, {}, <<0, 0, 1, 1>>),
     Scope({"w1", "w2", "f"}, {"a"}, <<0, 0, 1, 0>>)}
=============================================================================
