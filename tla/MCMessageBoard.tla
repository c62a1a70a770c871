--------------------------- MODULE MCMessageBoard ---------------------------
(***************************************************************************)
(* MessageBoard for two people: p1 is a post by ann, who uses the phone,   *)
(* p2 is one by bob next door and p3 one of his from before posts had      *)
(* dates.                                                                  *)
(***************************************************************************)
EXTENDS MessageBoard

CONSTANTS p1, p2, p3, c1

MCPath == {PostsPath} \cup {CommentsPath(k) : k \in Post}

MCAccount == {[name |-> "ann", lat |-> <<5>>, long |-> <<5>>]}

Entry(name, date) ==
    [dictionary |-> TRUE, author |-> name, lat |-> <<5>>, long |-> <<5>>,
     date |-> date]

MCContent ==
    (p1 :> Entry("ann", <<1>>)) @@ (p2 :> Entry("bob", <<3>>))
        @@ (p3 :> Entry("bob", << >>))

Scope(P, C, bounds) ==
    [posts |-> P, comments |-> C, taps |-> bounds[1], logins |-> bounds[2],
     remotes |-> bounds[3], disconnects |-> bounds[4], kills |-> bounds[5]]

\* Posts of both; a post with a comment and a connection that is lost; a
\* deletion that is torn apart; a post without a date, which makes the app trap
\* and start again.
MCScopes ==
    {Scope({p1, p2}, {}, <<4, 1, 1, 0, 0>>),
     Scope({p1}, {c1}, <<3, 1, 1, 1, 0>>),
     Scope({p1}, {c1}, <<2, 1, 1, 1, 1>>),
     Scope({p1, p3}, {}, <<3, 2, 0, 0, 1>>)}

\* Fewer steps, all of which have to come to rest: five taps are enough for the
\* board to appear a second time before a deletion, which then starts two
\* fetches, with a post left for them to find; and two logins, with a remote write.
MCLiveScopes ==
    {Scope({p1, p2}, {}, <<5, 1, 0, 0, 0>>),
     Scope({p1}, {}, <<3, 2, 1, 0, 0>>)}

\* One user alone.
MCLoneScopes == {Scope({p1}, {}, <<3, 1, 0, 0, 0>>)}
=============================================================================
