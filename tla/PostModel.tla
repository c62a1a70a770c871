----------------------------- MODULE PostModel ------------------------------
(***************************************************************************)
(* What PostController computes from the posts it fetched: which posts are *)
(* in the user's area, in which order, and which are the user's own.       *)
(*                                                                         *)
(* A post is known by its id; Content[k] is what Firebase stores under it. *)
(* The strings latitude, longitude and date matter only through Double(s): *)
(* << >> stands for a string that is no number and <<v>> for the number v. *)
(* A degree is divided into Degree units, so that the edge of the area can *)
(* be told from its inside.                                                *)
(***************************************************************************)
EXTENDS Integers, Sequences, FiniteSets, SequencesExt

CONSTANTS Post, Content, Degree

ASSUME DegreeAssumption == Degree \in Nat \ {0}

Optional(S) == {<< >>} \cup [1 .. 1 -> S]

\* The values of Content: dictionary tells whether Post(dictionary:) accepts
\* the entry.
ContentType ==
    [dictionary : BOOLEAN, author : STRING, lat : Optional(Int),
     long : Optional(Int), date : Optional(Int)]

ASSUME ContentAssumption == \A k \in Post : Content[k] \in ContentType

-----------------------------------------------------------------------------
\* fetchPosts drops the entries that Post(dictionary:) rejects.
Readable(S) == {k \in S : Content[k].dictionary}

HasPlace(k) == Content[k].lat # << >> /\ Content[k].long # << >>

\* The edge left out.
NearInside(a, b) == a < b + Degree /\ a > b - Degree

\* A coordinate within one degree of another one, the edge included.
Near(a, b) == a <= b + Degree /\ a >= b - Degree

\* The posts that parsePosts keeps.  A place of the user that is no number,
\* or a single post without one, empties the result.
PostsInArea(S, lat, long) ==
    IF lat = << >> \/ long = << >> \/ \E k \in S : ~HasPlace(k)
      THEN {}
      ELSE {k \in S : /\ Near(Content[k].lat[1], lat[1])
                      /\ Near(Content[k].long[1], long[1])}

\* sorted(by:) compares every element of a longer array, and the comparison
\* unwraps Double(date) by force.
OrderTraps(S) == Cardinality(S) > 1 /\ \E k \in S : Content[k].date = << >>

\* The results orderPostsByDate may have: newest first.  The posts come from a
\* dictionary, in any order, and sorted(by:) leaves those of one date as they came.
orderPostsByDate(S) ==
    {s \in SetToSeqs(S) :
        \A i, j \in DOMAIN s : i < j => Content[s[i]].date[1] >= Content[s[j]].date[1]}

\* A filter that forgets the author.
PostsByAnybody(S, userName) == S

\* The posts that filterPostsByUserandDate keeps.
PostsByUser(S, userName) == {k \in S : Content[k].author = userName}
=============================================================================
