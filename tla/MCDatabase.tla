----------------------------- MODULE MCDatabase -----------------------------
(***************************************************************************)
(* DatabaseClient for two devices on the posts and for one on the posts    *)
(* and the comments of a post.                                             *)
(***************************************************************************)
EXTENDS DatabaseClient

CONSTANTS d1, d2, posts, comments

Scope(D, P, n, drops, deaths) ==
    [devices |-> D, paths |-> P, calls |-> n, disconnects |-> drops,
     kills |-> deaths]

\* Connections that are lost, and processes that die, where no path is cleared;
\* a path that is cleared, without lost connections.
MCScopes ==
    {Scope({d1, d2}, {posts}, 3, 1, 0),
     Scope({d1}, {posts}, 4, 1, 1),
     Scope({d1}, {comments}, 4, 0, 1),
     Scope({d1}, {posts, comments}, 3, 0, 1)}

\* A path that is cleared, with a connection that is lost.
MCClearedScopes == {Scope({d1}, {comments}, 4, 1, 0)}
=============================================================================
