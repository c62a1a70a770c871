--------------------------- MODULE SkipListProofs ---------------------------
(***************************************************************************)
(* Why readers of the skip list need no lock, for any number of keys and   *)
(* any height: at every moment every level is a sorted list of nodes that  *)
(* are on the levels below too, and the writer's prev stays where it is.   *)
(***************************************************************************)
EXTENDS SkipList, TLAPS

Node == Key \cup {Head}
Mode == {"none", "GreaterOrEqual", "LessThan", "Last"}
Name == {"none", "seek", "first", "next", "last", "prev"}

\* The nodes that a walk along level i may be at.
On(i) == Linked(i) \cup {Head}

Types ==
    /\ next \in [Node -> [Level -> 1 .. Junk]]
    /\ maxHeight \in 1 .. MaxHeight
    /\ heights \subseteq 1 .. MaxHeight
    /\ inserted \subseteq Key
    /\ writer \in [pc : {"idle", "search", "init", "link"}, key : Node,
                   height : 0 .. MaxHeight, level : Level, prev : [Level -> Node]]
    /\ search \in [Thread -> [x : Node, level : Level, key : Node, mode : Mode]]
    /\ node \in Key \cup {Nil}
    /\ reader \in [name : Name, key : Node, known : SUBSET Key]
    /\ result \in [name : Name, key : Node, known : SUBSET Key, node : 1 .. Nil]

\* Along a level the links lead upwards and pass over no node of the level.
Sorted ==
    \A i \in Level : \A n \in On(i) :
        /\ next[n][i] \in n + 1 .. Nil
        /\ \A m \in Linked(i) : m > n => next[n][i] <= m

\* A node that is not on a level has no link there but the one being made.
OffLevel ==
    \A i \in Level : \A n \in Node :
        \/ n \in On(i) \/ next[n][i] = Junk
        \/ writer.pc = "link" /\ n = writer.key /\ i = writer.level

\* A node is on all levels below its highest, which max_height_ bounds.
Nested ==
    /\ \A i, j \in Level : j <= i => Linked(i) \subseteq Linked(j)
    /\ \A i \in Level : i >= maxHeight => Linked(i) = {}

\* The place of the writer's key on level i.
PrevIsRight(i) ==
    LET n == writer.prev[i]
    IN  n \in On(i) /\ n < writer.key /\ next[n][i] > writer.key

\* What the writer has found, and how far it has come with linking.
WriterIsRight ==
    /\ writer.pc \in {"idle", "search"} => Linked(0) = inserted
    /\ writer.pc # "idle" => writer.key \in Key \ inserted
    /\ writer.pc # "search" => search["writer"].mode = "none"
    /\ writer.pc = "search" =>
          /\ search["writer"].mode = "GreaterOrEqual"
          /\ search["writer"].key = writer.key
          /\ search["writer"].level < maxHeight
          /\ \A i \in search["writer"].level + 1 .. maxHeight - 1 : PrevIsRight(i)
    /\ writer.pc \in {"init", "link"} =>
          /\ writer.level < writer.height /\ writer.height <= maxHeight
          /\ Linked(0) \ {writer.key} = inserted
          /\ \A i \in Level : writer.key \in Linked(i) <=> i < writer.level
          /\ \A i \in writer.level .. writer.height - 1 : PrevIsRight(i)
    /\ writer.pc = "link" =>
          next[writer.key][writer.level] = next[writer.prev[writer.level]][writer.level]

\* A search is at a node of its level, before the key it looks for.
SearchIsRight ==
    \A t \in Thread :
        LET s == search[t]
        IN  /\ s.x \in On(s.level)
            /\ s.mode \in {"GreaterOrEqual", "LessThan"} => s.x < s.key

\* The reader's operation is the one its search was started for.
ReaderIsRight ==
    LET s == search["reader"]
    IN  /\ reader.known \subseteq inserted
        /\ node # Nil => node \in Linked(0)
        /\ s.mode = "GreaterOrEqual" => reader.name = "seek" /\ reader.key = s.key
        /\ s.mode = "LessThan" => reader.name = "prev" /\ reader.key = s.key
        /\ s.mode = "Last" => reader.name = "last"

\* The inductive invariant.
ListInv ==
    /\ Types /\ Sorted /\ OffLevel /\ Nested
    /\ WriterIsRight /\ SearchIsRight /\ ReaderIsRight
    /\ NothingPassedOver

-----------------------------------------------------------------------------
\* While no link is stored, the levels are what they were.
LEMMA SameLinks ==
    ASSUME UNCHANGED next
    PROVE  /\ \A i : Linked(i)' = Linked(i)
           /\ \A i : On(i)' = On(i)
BY DEF Linked, On

\* Where a walk may be, a link leads on along the level or nowhere.
LEMMA LinkLeadsOn ==
    ASSUME Sizes, Types, Sorted, NEW i \in Level, NEW n \in On(i)
    PROVE  /\ n \in Node
           /\ next[n][i] \in Linked(i) \cup {Nil}
           /\ next[n][i] # Junk
           /\ \A m \in Linked(i) : m > n => next[n][i] <= m
           /\ next[n][i] > n
<1>1. n \in Node
  BY DEF On, Linked, Node
<1>2. next[n][i] \in n + 1 .. Nil
  BY DEF Sorted
<1>3. next[n][i] # Nil => next[n][i] \in Key
  BY <1>1, <1>2, Sizes DEF Key, Nil, Node, Head, Sizes
<1>4. next[n][i] # Nil => next[n][i] \in Linked(i)
  BY <1>1, <1>3 DEF Linked, Node
<1>5. next[n][i] # Junk /\ next[n][i] > n
  BY <1>1, <1>2 DEF Junk, Nil, Node, Key, Head, Sizes
<1> QED
  BY <1>1, <1>4, <1>5 DEF Sorted

\* The lowest level is there, and nodes of any level are on it.
LEMMA LowestLevel ==
    ASSUME Sizes, Types, Nested
    PROVE  /\ 0 \in Level
           /\ \A i \in Level : Linked(i) \subseteq Linked(0)
           /\ \A i \in Level : Head \in On(i)
BY DEF Level, Nested, On, Sizes

-----------------------------------------------------------------------------
\* The empty list.
LEMMA ListInit ==
    ASSUME Sizes, Init
    PROVE  ListInv
<1> USE DEF Sizes
<1>1. \A i \in Level : Linked(i) = {}
  BY DEF Init, Linked, Key, Nil, Junk, Head
<1>2. 0 \in Level
  BY DEF Level
<1>3. Types
  <2>1. next \in [Node -> [Level -> 1 .. Junk]]
    BY DEF Init, Node, Junk, Nil
  <2>2. writer \in [pc : {"idle", "search", "init", "link"}, key : Node,
                    height : 0 .. MaxHeight, level : Level, prev : [Level -> Node]]
    BY <1>2 DEF Init, Node, Head
  <2>3. search \in [Thread -> [x : Node, level : Level, key : Node, mode : Mode]]
    BY <1>2 DEF Init, NoSearch, Node, Mode, Head
  <2>4. /\ reader \in [name : Name, key : Node, known : SUBSET Key]
        /\ result \in [name : Name, key : Node, known : SUBSET Key, node : 1 .. Nil]
    BY DEF Init, Name, Node, Head, Nil
  <2> QED
    BY <2>1, <2>2, <2>3, <2>4 DEF Types, Init
<1>4. Sorted
  BY <1>1 DEF Sorted, Init, On, Nil, Head, Node, Key
<1>5. OffLevel
  BY <1>1 DEF OffLevel, Init, On, Node
<1>6. Nested
  BY <1>1 DEF Nested
<1>7. WriterIsRight
  BY <1>1, <1>2 DEF WriterIsRight, Init, NoSearch, Thread
<1>8. SearchIsRight
  BY DEF SearchIsRight, Init, NoSearch, On
<1>9. ReaderIsRight
  BY DEF ReaderIsRight, Init, NoSearch, Thread
<1>10. NothingPassedOver
  BY DEF NothingPassedOver, Init
<1> QED
  BY <1>3, <1>4, <1>5, <1>6, <1>7, <1>8, <1>9, <1>10 DEF ListInv

-----------------------------------------------------------------------------
\* What the writer knows when it stores a link of its node.
LEMMA WriterLinks ==
    ASSUME Sizes, ListInv, writer.pc \in {"init", "link"},
           NEW k, k = writer.key, NEW l, l = writer.level, NEW p, p = writer.prev[l]
    PROVE  /\ k \in Key /\ k \notin inserted /\ k \notin On(l)
           /\ l \in Level /\ l < writer.height /\ l < maxHeight
           /\ p \in On(l) /\ p \in Node /\ p < k /\ p # k
           /\ next[p][l] \in Linked(l) \cup {Nil} /\ next[p][l] > k
           /\ \A m \in Linked(l) : m > p => next[p][l] <= m
<1>1. /\ k \in Key /\ k \notin inserted /\ l \in Level
      /\ l < writer.height /\ writer.height <= maxHeight
      /\ writer.height \in 0 .. MaxHeight /\ maxHeight \in 1 .. MaxHeight
  BY DEF ListInv, WriterIsRight, Types
<1>2. l \in writer.level .. writer.height - 1
  BY <1>1 DEF Level, Sizes
<1>3. p \in On(l) /\ p < k /\ next[p][l] > k
  BY <1>2 DEF ListInv, WriterIsRight, PrevIsRight
<1>4. k \notin Linked(l) /\ k # Head
  BY <1>1 DEF ListInv, WriterIsRight, Level, Key, Head, Sizes
<1>5. /\ p \in Node /\ next[p][l] \in Linked(l) \cup {Nil}
      /\ \A m \in Linked(l) : m > p => next[p][l] <= m
  BY <1>1, <1>3, LinkLeadsOn DEF ListInv
<1>6. p # k /\ l < maxHeight
  BY <1>1, <1>3, <1>5 DEF Node, Key, Head, Level, Sizes
<1> QED
  BY <1>1, <1>3, <1>4, <1>5, <1>6 DEF On

\* x->NoBarrier_SetNext: nobody can see the new node on this level yet.
LEMMA InitLinkStep ==
    ASSUME Sizes, ListInv, InitLink
    PROVE  ListInv'
<1>1. PICK k, l, p, v :
          k = writer.key /\ l = writer.level /\ p = writer.prev[l] /\ v = next[p][l]
  OBVIOUS
<1>2. /\ k \in Key /\ k \notin inserted /\ k \notin On(l)
      /\ l \in Level /\ p \in On(l) /\ p \in Node /\ p # k
      /\ v \in Linked(l) \cup {Nil}
  BY <1>1, WriterLinks DEF InitLink
<1>3. /\ next' = [next EXCEPT ![k][l] = v]
      /\ writer.pc = "init" /\ writer' = [writer EXCEPT !.pc = "link"]
      /\ UNCHANGED <<maxHeight, heights, inserted, search, node, reader, result>>
  BY <1>1 DEF InitLink
<1>4. /\ next \in [Node -> [Level -> 1 .. Junk]] /\ k \in Node /\ v \in 1 .. Junk
      /\ writer \in [pc : {"idle", "search", "init", "link"}, key : Node,
                     height : 0 .. MaxHeight, level : Level, prev : [Level -> Node]]
  BY <1>1, <1>2 DEF ListInv, Types, Node
<1>5. \A n \in Node, i \in Level : next'[n][i] = IF n = k /\ i = l THEN v ELSE next[n][i]
  BY <1>2, <1>3, <1>4
<1>6. /\ writer'.pc = "link" /\ writer'.key = k /\ writer'.level = l
      /\ writer'.height = writer.height /\ writer'.prev = writer.prev
  BY <1>1, <1>3, <1>4
<1>7. \A i \in Level : Linked(i)' = Linked(i) /\ On(i)' = On(i)
  <2>1. next[k][l] = Junk
    BY <1>2, <1>3, <1>4 DEF ListInv, OffLevel
  <2>2. Junk \notin Key /\ Nil \notin Key
    BY DEF Junk, Nil, Key, Sizes
  <2> SUFFICES ASSUME NEW i \in Level PROVE Linked(i)' = Linked(i)
    BY DEF On
  <2>3. CASE i # l
    BY <2>3, <1>5 DEF Linked, Node
  <2>4. CASE i = l
    <3>1. ASSUME NEW n \in Linked(l) PROVE n \in Linked(l)'
      <4>1. PICK m \in Node : next[m][l] = n /\ n \in Key
        BY <3>1 DEF Linked, Node
      <4> QED
        BY <4>1, <2>1, <2>2, <1>2, <1>5 DEF Linked, Node
    <3>2. ASSUME NEW n \in Linked(l)' PROVE n \in Linked(l)
      <4>1. PICK m \in Node : next'[m][l] = n /\ n \in Key
        BY <3>2 DEF Linked, Node
      <4> QED
        BY <4>1, <2>2, <1>2, <1>5 DEF Linked, Node
    <3> QED
      BY <2>4, <3>1, <3>2
  <2> QED
    BY <2>3, <2>4
<1>8. \A i \in Level : \A n \in On(i) : n \in Node /\ next'[n][i] = next[n][i]
  BY <1>2, <1>5 DEF On, Linked, Node
<1>9. Types'
  <2>1. next' \in [Node -> [Level -> 1 .. Junk]]
    BY <1>2, <1>3, <1>4
  <2>2. writer' \in [pc : {"idle", "search", "init", "link"}, key : Node,
                     height : 0 .. MaxHeight, level : Level, prev : [Level -> Node]]
    BY <1>3, <1>4
  <2> QED
    BY <2>1, <2>2, <1>3 DEF ListInv, Types
<1>10. Sorted'
  BY <1>7, <1>8 DEF ListInv, Sorted
<1>11. OffLevel'
  BY <1>3, <1>5, <1>6, <1>7 DEF ListInv, OffLevel
<1>12. Nested'
  BY <1>3, <1>7 DEF ListInv, Nested
<1>13. WriterIsRight'
  <2>1. ASSUME NEW i \in l .. writer.height - 1 PROVE PrevIsRight(i)'
    <3>1. i \in Level
      BY <1>2, <1>4 DEF Level, Sizes
    <3>2. PrevIsRight(i)
      BY <1>1, <1>3 DEF ListInv, WriterIsRight
    <3> QED
      BY <3>1, <3>2, <1>1, <1>6, <1>7, <1>8 DEF PrevIsRight
  <2>2. /\ search["writer"].mode = "none"
        /\ l < writer.height /\ writer.height <= maxHeight
        /\ Linked(0) \ {k} = inserted
        /\ \A i \in Level : k \in Linked(i) <=> i < l
    BY <1>1, <1>3 DEF ListInv, WriterIsRight
  <2>3. Linked(0)' = Linked(0)
    BY <1>7 DEF Level, Sizes
  <2>4. next'[k][l] = v /\ next'[p][l] = v
    BY <1>1, <1>2, <1>4, <1>5
  <2> QED
    BY <1>1, <1>2, <1>3, <1>6, <1>7, <2>1, <2>2, <2>3, <2>4 DEF WriterIsRight
<1>14. SearchIsRight'
  BY <1>3, <1>7 DEF ListInv, Types, SearchIsRight
<1>15. ReaderIsRight'
  <2>1. Linked(0)' = Linked(0)
    BY <1>7 DEF Level, Sizes
  <2> QED
    BY <2>1, <1>3 DEF ListInv, ReaderIsRight
<1>16. NothingPassedOver'
  BY <1>3 DEF ListInv, NothingPassedOver
<1> QED
  BY <1>9, <1>10, <1>11, <1>12, <1>13, <1>14, <1>15, <1>16 DEF ListInv

\* prev[i]->SetNext: from one moment to the next the new node is on the level.
LEMMA SetNextStep ==
    ASSUME Sizes, ListInv, SetNext
    PROVE  ListInv'
<1>1. PICK k, l, p, v :
          k = writer.key /\ l = writer.level /\ p = writer.prev[l] /\ v = next[p][l]
  OBVIOUS
<1>2. /\ k \in Key /\ k \notin inserted /\ k \notin On(l)
      /\ l \in Level /\ l < writer.height /\ l < maxHeight
      /\ p \in On(l) /\ p \in Node /\ p < k /\ p # k
      /\ v \in Linked(l) \cup {Nil} /\ v > k
      /\ \A m \in Linked(l) : m > p => v <= m
  BY <1>1, WriterLinks DEF SetNext
<1>3. /\ next' = [next EXCEPT ![p][l] = k]
      /\ writer.pc = "link"
      /\ UNCHANGED <<maxHeight, heights, search, node, reader, result>>
      /\ \/ /\ l + 1 < writer.height /\ UNCHANGED inserted
            /\ writer' = [writer EXCEPT !.pc = "init", !.level = l + 1]
         \/ /\ ~(l + 1 < writer.height) /\ inserted' = inserted \cup {k}
            /\ writer' = [writer EXCEPT !.pc = "idle", !.level = 0, !.height = 0, !.key = 0,
                                        !.prev = [i \in Level |-> Head]]
  BY <1>1 DEF SetNext
<1>4. /\ next \in [Node -> [Level -> 1 .. Junk]] /\ k \in Node /\ k \in 1 .. Junk
      /\ maxHeight \in 1 .. MaxHeight
      /\ writer \in [pc : {"idle", "search", "init", "link"}, key : Node,
                     height : 0 .. MaxHeight, level : Level, prev : [Level -> Node]]
  BY <1>2 DEF ListInv, Types, Node, Key, Junk, Sizes
<1>5. \A n \in Node, i \in Level : next'[n][i] = IF n = p /\ i = l THEN k ELSE next[n][i]
  BY <1>2, <1>3, <1>4
<1>6. /\ l + 1 < writer.height =>
            /\ writer'.pc = "init" /\ writer'.key = k /\ writer'.level = l + 1
            /\ writer'.height = writer.height /\ writer'.prev = writer.prev
      /\ ~(l + 1 < writer.height) => writer'.pc = "idle"
  BY <1>1, <1>3, <1>4
<1>7. next[k][l] = v
  BY <1>1, <1>3 DEF ListInv, WriterIsRight
<1>8. /\ \A i \in Level : i # l => Linked(i)' = Linked(i) /\ On(i)' = On(i)
      /\ Linked(l)' = Linked(l) \cup {k} /\ On(l)' = On(l) \cup {k}
  <2>1. ASSUME NEW i \in Level, i # l PROVE Linked(i)' = Linked(i)
    BY <2>1, <1>5 DEF Linked, Node
  <2>2. k \in Linked(l)'
    BY <1>2, <1>5 DEF Linked, Node
  <2>3. ASSUME NEW n \in Linked(l) PROVE n \in Linked(l)'
    <3>1. PICK m \in Node : next[m][l] = n /\ n \in Key
      BY <2>3 DEF Linked, Node
    <3>2. CASE m = p
      <4>1. next'[k][l] = n
        BY <3>1, <3>2, <1>1, <1>2, <1>4, <1>5, <1>7
      <4> QED
        BY <4>1, <3>1, <1>2 DEF Linked
    <3>3. CASE m # p
      BY <3>1, <3>3, <1>2, <1>5 DEF Linked, Node
    <3> QED
      BY <3>2, <3>3
  <2>4. ASSUME NEW n \in Linked(l)' PROVE n \in Linked(l) \cup {k}
    BY <2>4, <1>2, <1>5 DEF Linked, Node
  <2> QED
    BY <2>1, <2>2, <2>3, <2>4 DEF On
<1>9. \A i \in Level : On(i) \subseteq Node /\ Linked(i) \subseteq Key
  BY DEF On, Linked, Node
<1>10. Types'
  <2>1. next' \in [Node -> [Level -> 1 .. Junk]]
    BY <1>2, <1>3, <1>4
  <2>2. writer' \in [pc : {"idle", "search", "init", "link"}, key : Node,
                     height : 0 .. MaxHeight, level : Level, prev : [Level -> Node]]
    <3>1. CASE l + 1 < writer.height
      <4>1. l + 1 \in Level
        BY <3>1, <1>2, <1>4 DEF Level, Sizes
      <4> QED
        BY <4>1, <3>1, <1>3, <1>4
    <3>2. CASE ~(l + 1 < writer.height)
      <4>1. 0 \in Level /\ 0 \in Node /\ 0 \in 0 .. MaxHeight
        BY DEF Level, Node, Head, Sizes
      <4>2. writer' = [pc |-> "idle", key |-> 0, height |-> 0, level |-> 0,
                       prev |-> [i \in Level |-> Head]]
        BY <3>2, <1>3, <1>4
      <4>3. [i \in Level |-> Head] \in [Level -> Node]
        BY DEF Node
      <4> QED
        BY <4>1, <4>2, <4>3
    <3> QED
      BY <3>1, <3>2
  <2>3. inserted' \subseteq Key
    BY <1>2, <1>3 DEF ListInv, Types
  <2> QED
    BY <2>1, <2>2, <2>3, <1>3 DEF ListInv, Types
<1>11. Sorted'
  <2> SUFFICES ASSUME NEW i \in Level, NEW n \in On(i)'
               PROVE  /\ next'[n][i] \in n + 1 .. Nil
                      /\ \A m \in Linked(i)' : m > n => next'[n][i] <= m
    BY DEF Sorted
  <2>1. CASE i # l
    BY <2>1, <1>5, <1>8, <1>9 DEF ListInv, Sorted
  <2>2. CASE i = l
    <3> USE DEF Key, Node, Head, Nil, Sizes
    <3>1. CASE n = p
      BY <2>2, <3>1, <1>2, <1>5, <1>8, <1>9
    <3>2. CASE n = k
      <4>1. next'[n][i] = v
        BY <2>2, <3>2, <1>2, <1>4, <1>5, <1>7
      <4> QED
        BY <4>1, <2>2, <3>2, <1>2, <1>8, <1>9
    <3>3. CASE n # p /\ n # k
      <4>1. n \in On(l) /\ n \in Node /\ next'[n][i] = next[n][l]
        BY <2>2, <3>3, <1>2, <1>5, <1>8, <1>9
      <4>2. /\ next[n][l] \in n + 1 .. Nil
            /\ \A m \in Linked(l) : m > n => next[n][l] <= m
        BY <4>1, <1>2 DEF ListInv, Sorted
      <4>3. ASSUME k > n PROVE next[n][l] <= k
        <5>1. CASE n < p
          <6>1. p \in Linked(l)
            BY <5>1, <4>1, <1>2 DEF On
          <6> QED
            BY <6>1, <5>1, <4>1, <4>2, <1>2
        <5>2. CASE n > p
          <6>1. n \in Linked(l)
            BY <5>2, <4>1, <1>2 DEF On
          <6> QED
            BY <6>1, <5>2, <4>1, <4>3, <1>2, <1>9
        <5> QED
          BY <5>1, <5>2, <3>3, <4>1, <1>2
      <4> QED
        BY <2>2, <4>1, <4>2, <4>3, <1>8
    <3> QED
      BY <3>1, <3>2, <3>3
  <2> QED
    BY <2>1, <2>2
<1>12. OffLevel'
  <2> SUFFICES ASSUME NEW i \in Level, NEW n \in Node, n \notin On(i)'
               PROVE  next'[n][i] = Junk
    BY DEF OffLevel
  <2>1. n \notin On(i) /\ ~(n = k /\ i = l)
    BY <1>2, <1>8
  <2>2. next'[n][i] = next[n][i]
    BY <2>1, <1>2, <1>5
  <2> QED
    BY <2>1, <2>2, <1>1 DEF ListInv, OffLevel
<1>13. Nested'
  <2>1. \A i \in Level : i < l => k \in Linked(i)
    BY <1>1, <1>3 DEF ListInv, WriterIsRight
  <2>2. /\ \A i, j \in Level : j <= i => Linked(i) \subseteq Linked(j)
        /\ \A i \in Level : i >= maxHeight => Linked(i) = {}
    BY DEF ListInv, Nested
  <2>3. ASSUME NEW i \in Level, NEW j \in Level, j <= i
        PROVE  Linked(i)' \subseteq Linked(j)'
    BY <2>1, <2>2, <2>3, <1>2, <1>8 DEF Level, Sizes
  <2>4. ASSUME NEW i \in Level, i >= maxHeight PROVE Linked(i)' = {}
    <3>1. i # l
      BY <2>4, <1>2, <1>4 DEF Level, Sizes
    <3> QED
      BY <3>1, <2>2, <2>4, <1>8
  <2> QED
    BY <2>3, <2>4, <1>3 DEF Nested
<1>14. WriterIsRight'
  <2>1. /\ search["writer"].mode = "none" /\ writer.height <= maxHeight
        /\ Linked(0) \ {k} = inserted
        /\ \A i \in Level : k \in Linked(i) <=> i < l
        /\ \A i \in l .. writer.height - 1 : PrevIsRight(i)
    BY <1>1, <1>3 DEF ListInv, WriterIsRight
  <2>2. Linked(0)' \ {k} = inserted /\ 0 \in Level
    BY <2>1, <1>8 DEF Level, Sizes
  <2>3. CASE l + 1 < writer.height
    <3>1. ASSUME NEW i \in l + 1 .. writer.height - 1 PROVE PrevIsRight(i)'
      <4>1. i \in Level /\ i # l /\ i \in l .. writer.height - 1
        BY <1>2, <1>4 DEF Level, Sizes
      <4> QED
        BY <4>1, <2>1, <2>3, <1>1, <1>5, <1>6, <1>8, <1>9 DEF PrevIsRight
    <3>2. \A i \in Level : k \in Linked(i)' <=> i < l + 1
      BY <2>1, <1>2, <1>8 DEF Level, Sizes
    <3>3. inserted' = inserted
      BY <2>3, <1>3
    <3> QED
      BY <2>1, <2>2, <2>3, <3>1, <3>2, <3>3, <1>2, <1>3, <1>6 DEF WriterIsRight
  <2>4. CASE ~(l + 1 < writer.height)
    <3>1. inserted' = inserted \cup {k} /\ writer'.pc = "idle"
      BY <2>4, <1>3, <1>6
    <3>2. k \in Linked(0)'
      BY <2>1, <2>2, <1>2, <1>8 DEF Level, Sizes
    <3> QED
      BY <2>1, <2>2, <3>1, <3>2, <1>3 DEF WriterIsRight
  <2> QED
    BY <2>3, <2>4
<1>15. SearchIsRight'
  <2>1. \A i \in Level : On(i) \subseteq On(i)'
    BY <1>8
  <2>2. \A t \in Thread : search[t].level \in Level
    BY DEF ListInv, Types
  <2> QED
    BY <2>1, <2>2, <1>3 DEF ListInv, SearchIsRight
<1>16. ReaderIsRight'
  <2>1. Linked(0) \subseteq Linked(0)'
    BY <1>8 DEF Level, Sizes
  <2> QED
    BY <2>1, <1>3 DEF ListInv, ReaderIsRight
<1>17. NothingPassedOver'
  BY <1>3 DEF ListInv, NothingPassedOver
<1> QED
  BY <1>10, <1>11, <1>12, <1>13, <1>14, <1>15, <1>16, <1>17 DEF ListInv

-----------------------------------------------------------------------------
\* A step that stores no link leaves the levels as they are.
LEMMA LevelsKept ==
    ASSUME Sizes, ListInv, UNCHANGED next,
           maxHeight' \in 1 .. MaxHeight, maxHeight <= maxHeight',
           writer.pc = "link" => UNCHANGED writer
    PROVE  Sorted' /\ OffLevel' /\ Nested'
<1>1. (\A i : Linked(i)' = Linked(i)) /\ (\A i : On(i)' = On(i))
  BY SameLinks
<1>2. Sorted'
  BY <1>1 DEF ListInv, Sorted
<1>3. OffLevel'
  BY <1>1 DEF ListInv, OffLevel
<1>4. Nested'
  <2>1. \A i \in Level : i >= maxHeight' => i >= maxHeight
    BY DEF ListInv, Types, Level, Sizes
  <2> QED
    BY <2>1, <1>1 DEF ListInv, Nested
<1> QED
  BY <1>2, <1>3, <1>4

\* Where a search stops on a level is the place of its key: no node of the level is
\* between the two.
LEMMA SearchStops ==
    ASSUME Sizes, ListInv, NEW t \in Thread, NEW s, s = search[t]
    PROVE  /\ s.x \in Node /\ s.level \in Level /\ s.x \in On(s.level)
           /\ s.key \in Node /\ s.mode \in Mode
           /\ next[s.x][s.level] \in Linked(s.level) \cup {Nil}
           /\ \A m \in Linked(s.level) : m > s.x => next[s.x][s.level] <= m
           /\ s.mode \in {"GreaterOrEqual", "LessThan"} => s.x < s.key
           /\ GoesOn(s, next[s.x][s.level]) => next[s.x][s.level] \in Linked(s.level)
           /\ ~GoesOn(s, next[s.x][s.level]) =>
                 \/ next[s.x][s.level] = Nil
                 \/ /\ s.mode \in {"GreaterOrEqual", "LessThan"}
                    /\ next[s.x][s.level] >= s.key
<1>1. s \in [x : Node, level : Level, key : Node, mode : Mode]
  BY DEF ListInv, Types
<1>2. s.x \in On(s.level) /\ (s.mode \in {"GreaterOrEqual", "LessThan"} => s.x < s.key)
  BY DEF ListInv, SearchIsRight
<1>3. /\ next[s.x][s.level] \in Linked(s.level) \cup {Nil}
      /\ \A m \in Linked(s.level) : m > s.x => next[s.x][s.level] <= m
  BY <1>1, <1>2, LinkLeadsOn DEF ListInv
<1>4. next[s.x][s.level] \in Int /\ s.key \in Int
  BY <1>1, <1>3 DEF Linked, Key, Nil, Node, Head, Sizes
<1> QED
  BY <1>1, <1>2, <1>3, <1>4 DEF GoesOn

\* Insert begins with a search for the key's place.
LEMMA InsertStep ==
    ASSUME Sizes, ListInv, NEW k \in Key, Insert(k)
    PROVE  ListInv'
<1> USE DEF Sizes
<1>1. /\ UNCHANGED <<next, maxHeight, heights, inserted, node, reader, result>>
      /\ writer.pc = "idle" /\ k \notin inserted
      /\ writer' = [writer EXCEPT !.pc = "search", !.key = k]
      /\ search' = [search EXCEPT !["writer"] =
                       [x |-> Head, level |-> maxHeight - 1, key |-> k,
                        mode |-> "GreaterOrEqual"]]
  BY DEF Insert, StartSearch, GetMaxHeight, StartLevel
<1>2. /\ maxHeight \in 1 .. MaxHeight /\ maxHeight - 1 \in Level
      /\ k \in Node /\ Head \in Node /\ Head < k
  BY DEF ListInv, Types, Level, Node, Head, Key
<1>3. (\A i : Linked(i)' = Linked(i)) /\ (\A i : On(i)' = On(i))
  BY <1>1, SameLinks
<1>4. Sorted' /\ OffLevel' /\ Nested'
  BY <1>1, <1>2, LevelsKept
<1>5. /\ search' \in [Thread -> [x : Node, level : Level, key : Node, mode : Mode]]
      /\ search'["writer"] = [x |-> Head, level |-> maxHeight - 1, key |-> k,
                              mode |-> "GreaterOrEqual"]
      /\ search'["reader"] = search["reader"]
  BY <1>1, <1>2 DEF ListInv, Types, Thread, Mode
<1>6. /\ writer' \in [pc : {"idle", "search", "init", "link"}, key : Node,
                      height : 0 .. MaxHeight, level : Level, prev : [Level -> Node]]
      /\ writer'.pc = "search" /\ writer'.key = k
  BY <1>1, <1>2 DEF ListInv, Types
<1>7. Types'
  BY <1>1, <1>5, <1>6 DEF ListInv, Types
<1>8. WriterIsRight'
  BY <1>1, <1>2, <1>3, <1>5, <1>6 DEF ListInv, WriterIsRight
<1>9. SearchIsRight'
  BY <1>2, <1>3, <1>5 DEF ListInv, SearchIsRight, Thread, On
<1>10. ReaderIsRight' /\ NothingPassedOver'
  BY <1>1, <1>3, <1>5 DEF ListInv, ReaderIsRight, NothingPassedOver
<1> QED
  BY <1>4, <1>7, <1>8, <1>9, <1>10 DEF ListInv

\* A search goes on along its level, or one level down.
LEMMA SearchOnStep ==
    ASSUME Sizes, ListInv, NEW t \in Thread, SearchOn(t)
    PROVE  ListInv'
<1> USE DEF Sizes
<1>1. PICK s, n : s = search[t] /\ n = next[s.x][s.level]
  OBVIOUS
<1>2. /\ UNCHANGED <<next, maxHeight, heights, inserted, node, reader, result>>
      /\ s.mode # "none"
      /\ \/ GoesOn(s, n) /\ search' = [search EXCEPT ![t].x = n] /\ UNCHANGED writer
         \/ /\ ~GoesOn(s, n) /\ s.level > 0
            /\ search' = [search EXCEPT ![t].level = s.level - 1]
            /\ writer' = IF t = "reader" THEN writer
                         ELSE [writer EXCEPT !.prev[s.level] = s.x]
  BY <1>1 DEF SearchOn
<1>3. /\ s.x \in Node /\ s.level \in Level /\ s.x \in On(s.level)
      /\ s.key \in Node /\ s.mode \in Mode
      /\ n \in Linked(s.level) \cup {Nil}
      /\ \A m \in Linked(s.level) : m > s.x => n <= m
      /\ s.mode \in {"GreaterOrEqual", "LessThan"} => s.x < s.key
      /\ GoesOn(s, n) => n \in Linked(s.level)
      /\ ~GoesOn(s, n) => n = Nil \/ (s.mode \in {"GreaterOrEqual", "LessThan"} /\ n >= s.key)
  BY <1>1, SearchStops
<1>4. (\A i : Linked(i)' = Linked(i)) /\ (\A i : On(i)' = On(i))
  BY <1>2, SameLinks
<1>5. writer.pc = "link" => t = "reader"
  BY <1>1, <1>2 DEF ListInv, WriterIsRight, Thread
<1>6. Sorted' /\ OffLevel' /\ Nested'
  BY <1>2, <1>5, LevelsKept DEF ListInv, Types
<1>7. NothingPassedOver'
  BY <1>2 DEF ListInv, NothingPassedOver
<1>8. /\ search \in [Thread -> [x : Node, level : Level, key : Node, mode : Mode]]
      /\ writer \in [pc : {"idle", "search", "init", "link"}, key : Node,
                     height : 0 .. MaxHeight, level : Level, prev : [Level -> Node]]
      /\ maxHeight \in 1 .. MaxHeight
  BY DEF ListInv, Types
<1>9. CASE GoesOn(s, n)
  <2>1. /\ search' = [search EXCEPT ![t] = [s EXCEPT !.x = n]]
        /\ UNCHANGED writer
    BY <1>9, <1>1, <1>2, <1>8
  <2>2. n \in Linked(s.level) /\ n \in Node /\ n \in On(s.level)
    BY <1>9, <1>3 DEF Linked, Node, On
  <2>3. /\ \A u \in Thread : u # t => search'[u] = search[u]
        /\ search'[t].x = n /\ search'[t].level = s.level
        /\ search'[t].key = s.key /\ search'[t].mode = s.mode
        /\ search' \in [Thread -> [x : Node, level : Level, key : Node, mode : Mode]]
    BY <2>1, <2>2, <1>1, <1>8
  <2>4. Types'
    BY <2>1, <2>3, <1>2 DEF ListInv, Types
  <2>5. WriterIsRight'
    <3>1. /\ search'["writer"].mode = search["writer"].mode
          /\ search'["writer"].level = search["writer"].level
          /\ search'["writer"].key = search["writer"].key
      BY <2>3, <1>1 DEF Thread
    <3>2. \A i : PrevIsRight(i)' <=> PrevIsRight(i)
      BY <2>1, <1>2, <1>4 DEF PrevIsRight
    <3> QED
      BY <3>1, <3>2, <2>1, <1>2, <1>4 DEF ListInv, WriterIsRight
  <2>6. SearchIsRight'
    <3>1. s.mode \in {"GreaterOrEqual", "LessThan"} => n < s.key
      BY <1>9 DEF GoesOn
    <3> QED
      BY <3>1, <2>2, <2>3, <1>4 DEF ListInv, SearchIsRight
  <2>7. ReaderIsRight'
    <3>1. /\ search'["reader"].mode = search["reader"].mode
          /\ search'["reader"].key = search["reader"].key
      BY <2>3, <1>1 DEF Thread
    <3> QED
      BY <3>1, <1>2, <1>4 DEF ListInv, ReaderIsRight
  <2> QED
    BY <2>4, <2>5, <2>6, <2>7, <1>6, <1>7 DEF ListInv
<1>10. CASE ~GoesOn(s, n)
  <2>1. /\ s.level > 0
        /\ search' = [search EXCEPT ![t] = [s EXCEPT !.level = s.level - 1]]
        /\ writer' = IF t = "reader" THEN writer
                     ELSE [writer EXCEPT !.prev = [writer.prev EXCEPT ![s.level] = s.x]]
    BY <1>10, <1>1, <1>2, <1>8
  <2>2. s.level - 1 \in Level /\ s.x \in On(s.level - 1)
    <3>1. s.level - 1 \in Level
      BY <2>1, <1>3 DEF Level
    <3>2. Linked(s.level) \subseteq Linked(s.level - 1)
      BY <3>1, <1>3 DEF ListInv, Nested, Level
    <3> QED
      BY <3>1, <3>2, <1>3 DEF On
  <2>3. /\ \A u \in Thread : u # t => search'[u] = search[u]
        /\ search'[t].x = s.x /\ search'[t].level = s.level - 1
        /\ search'[t].key = s.key /\ search'[t].mode = s.mode
        /\ search' \in [Thread -> [x : Node, level : Level, key : Node, mode : Mode]]
    BY <2>1, <2>2, <1>1, <1>3, <1>8
  <2>4. /\ writer' \in [pc : {"idle", "search", "init", "link"}, key : Node,
                        height : 0 .. MaxHeight, level : Level, prev : [Level -> Node]]
        /\ writer'.pc = writer.pc /\ writer'.key = writer.key
        /\ writer'.level = writer.level /\ writer'.height = writer.height
        /\ t = "reader" => writer' = writer
        /\ t = "writer" => /\ writer'.prev[s.level] = s.x
                           /\ \A i \in Level : i # s.level => writer'.prev[i] = writer.prev[i]
    BY <2>1, <1>3, <1>8
  <2>5. Types'
    BY <2>3, <2>4, <1>2 DEF ListInv, Types
  <2>6. WriterIsRight'
    <3>1. CASE t = "reader"
      <4>1. search'["writer"] = search["writer"]
        BY <3>1, <2>3 DEF Thread
      <4>2. writer' = writer
        BY <3>1, <2>4
      <4>3. \A i : PrevIsRight(i)' <=> PrevIsRight(i)
        BY <4>2, <1>2, <1>4 DEF PrevIsRight
      <4> QED
        BY <4>1, <4>2, <4>3, <1>2, <1>4 DEF ListInv, WriterIsRight
    <3>2. CASE t = "writer"
      <4>1. /\ writer.pc = "search" /\ Linked(0) = inserted
            /\ writer.key \in Key \ inserted
            /\ s.mode = "GreaterOrEqual" /\ s.key = writer.key /\ s.level < maxHeight
            /\ \A i \in s.level + 1 .. maxHeight - 1 : PrevIsRight(i)
        BY <3>2, <1>1, <1>2 DEF ListInv, WriterIsRight, Thread
      <4>2. n > writer.key
        <5>1. n = Nil \/ n >= writer.key
          BY <4>1, <1>3, <1>10
        <5>2. writer.key \notin Linked(s.level)
          BY <4>1, <1>3, LowestLevel DEF ListInv
        <5> QED
          BY <5>1, <5>2, <4>1, <1>3 DEF Nil, Key, Linked
      <4>3. PrevIsRight(s.level)'
        BY <3>2, <4>1, <4>2, <2>4, <1>1, <1>2, <1>3, <1>4 DEF PrevIsRight
      <4>4. ASSUME NEW i \in s.level + 1 .. maxHeight - 1 PROVE PrevIsRight(i)'
        <5>1. i \in Level /\ i # s.level
          BY <1>3, <1>8 DEF Level
        <5> QED
          BY <5>1, <3>2, <4>1, <2>4, <1>2, <1>4 DEF PrevIsRight
      <4>5. \A i \in s.level - 1 + 1 .. maxHeight - 1 : PrevIsRight(i)'
        BY <4>3, <4>4, <1>3, <1>8 DEF Level
      <4>6. s.level - 1 < maxHeight
        BY <4>1, <1>3, <1>8 DEF Level
      <4> QED
        BY <3>2, <4>1, <4>5, <4>6, <2>3, <2>4, <1>2, <1>4 DEF WriterIsRight
    <3> QED
      BY <3>1, <3>2 DEF Thread
  <2>7. SearchIsRight'
    BY <2>2, <2>3, <1>3, <1>4 DEF ListInv, SearchIsRight
  <2>8. ReaderIsRight'
    <3>1. /\ search'["reader"].mode = search["reader"].mode
          /\ search'["reader"].key = search["reader"].key
      BY <2>3, <1>1 DEF Thread
    <3> QED
      BY <3>1, <1>2, <1>4 DEF ListInv, ReaderIsRight
  <2> QED
    BY <2>5, <2>6, <2>7, <2>8, <1>6, <1>7 DEF ListInv
<1> QED
  BY <1>9, <1>10

\* The search has ended and the node gets its height: its place is known on all the
\* levels it will be on, those above max_height_ being empty.
LEMMA RandomHeightStep ==
    ASSUME Sizes, ListInv, NEW h \in 1 .. MaxHeight, RandomHeight(h)
    PROVE  ListInv'
<1> USE DEF Sizes
<1>1. PICK s, top : s = search["writer"] /\ top = maxHeight'
  OBVIOUS
<1>2. /\ UNCHANGED <<next, inserted, node, reader, result>>
      /\ writer.pc = "search"
      /\ s.mode # "none" /\ s.level = 0 /\ ~GoesOn(s, next[s.x][0])
      /\ writer' = [writer EXCEPT !.pc = "init", !.height = h, !.level = 0, !.prev = Prevs]
      /\ top = IF h > maxHeight THEN h ELSE maxHeight
      /\ heights' = heights \cup {top}
      /\ search' = [search EXCEPT !["writer"] = NoSearch]
  BY <1>1 DEF RandomHeight, Found, FirstLevel
<1>3. /\ maxHeight \in 1 .. MaxHeight /\ heights \subseteq 1 .. MaxHeight
      /\ search \in [Thread -> [x : Node, level : Level, key : Node, mode : Mode]]
      /\ writer \in [pc : {"idle", "search", "init", "link"}, key : Node,
                     height : 0 .. MaxHeight, level : Level, prev : [Level -> Node]]
      /\ top \in 1 .. MaxHeight /\ maxHeight <= top /\ h <= top
  BY <1>2 DEF ListInv, Types
<1>4. /\ s.x \in Node /\ s.x \in On(0) /\ next[s.x][0] \in Linked(0) \cup {Nil}
      /\ s.mode \in {"GreaterOrEqual", "LessThan"} => s.x < s.key
      /\ next[s.x][0] = Nil \/ next[s.x][0] >= s.key
  BY <1>1, <1>2, SearchStops DEF Thread
<1>5. /\ Linked(0) = inserted /\ writer.key \in Key \ inserted
      /\ s.mode = "GreaterOrEqual" /\ s.key = writer.key
      /\ \A i \in 1 .. maxHeight - 1 : PrevIsRight(i)
  BY <1>1, <1>2 DEF ListInv, WriterIsRight
<1>6. 0 \in Level /\ \A i \in Level : Linked(i) \subseteq Linked(0)
  BY LowestLevel DEF ListInv
<1>7. (\A i : Linked(i)' = Linked(i)) /\ (\A i : On(i)' = On(i))
  BY <1>2, SameLinks
<1>8. Sorted' /\ OffLevel' /\ Nested'
  BY <1>1, <1>2, <1>3, LevelsKept
<1>9. /\ Prevs \in [Level -> Node]
      /\ Prevs[0] = s.x
      /\ \A i \in Level : i # 0 => Prevs[i] = IF i >= maxHeight THEN Head ELSE writer.prev[i]
  BY <1>1, <1>3, <1>4, <1>6 DEF Prevs, Node
<1>10. /\ writer' \in [pc : {"idle", "search", "init", "link"}, key : Node,
                       height : 0 .. MaxHeight, level : Level, prev : [Level -> Node]]
       /\ writer'.pc = "init" /\ writer'.key = writer.key /\ writer'.height = h
       /\ writer'.level = 0 /\ writer'.prev = Prevs
  <2>1. writer' = [pc |-> "init", key |-> writer.key, height |-> h, level |-> 0, prev |-> Prevs]
    BY <1>2, <1>3
  <2>2. h \in 0 .. MaxHeight /\ writer.key \in Node
    BY <1>3
  <2> QED
    BY <2>1, <2>2, <1>6, <1>9
<1>11. /\ search' \in [Thread -> [x : Node, level : Level, key : Node, mode : Mode]]
       /\ search'["writer"] = NoSearch /\ search'["reader"] = search["reader"]
  BY <1>2, <1>3, <1>6 DEF Thread, NoSearch, Node, Mode, Head
<1>12. Types'
  BY <1>1, <1>2, <1>3, <1>10, <1>11 DEF ListInv, Types
<1>13. WriterIsRight'
  <2>1. ASSUME NEW i \in 0 .. h - 1 PROVE PrevIsRight(i)'
    <3>1. i \in Level
      BY DEF Level
    <3>2. CASE i = 0
      <4>1. next[s.x][0] > writer.key
        BY <1>4, <1>5 DEF Nil, Key, Linked
      <4> QED
        BY <3>2, <4>1, <1>2, <1>4, <1>5, <1>7, <1>9, <1>10 DEF PrevIsRight
    <3>3. CASE i # 0 /\ i < maxHeight
      <4>1. i \in 1 .. maxHeight - 1
        BY <3>3, <1>3
      <4>2. writer'.prev[i] = writer.prev[i]
        BY <3>1, <3>3, <1>3, <1>9, <1>10
      <4> QED
        BY <4>1, <4>2, <1>2, <1>5, <1>7, <1>10 DEF PrevIsRight
    <3>4. CASE i # 0 /\ i >= maxHeight
      <4>1. writer'.prev[i] = Head /\ Linked(i) = {}
        BY <3>1, <3>4, <1>9, <1>10 DEF ListInv, Nested
      <4>2. Head \in On(i) /\ next[Head][i] \in Linked(i) \cup {Nil}
        BY <3>1, LinkLeadsOn DEF ListInv, On
      <4>3. Head < writer.key /\ Nil > writer.key
        BY <1>5 DEF Head, Nil, Key
      <4> QED
        BY <4>1, <4>2, <4>3, <1>2, <1>7, <1>10 DEF PrevIsRight
    <3> QED
      BY <3>2, <3>3, <3>4, <1>3
  <2>2. \A i \in Level : writer.key \in Linked(i) <=> i < 0
    BY <1>5, <1>6 DEF Level
  <2>3. Linked(0) \ {writer.key} = inserted
    BY <1>5
  <2> QED
    BY <2>1, <2>2, <2>3, <1>1, <1>2, <1>3, <1>5, <1>7, <1>10, <1>11 DEF WriterIsRight, NoSearch
<1>14. SearchIsRight'
  BY <1>7, <1>11 DEF ListInv, SearchIsRight, Thread, NoSearch, On
<1>15. ReaderIsRight' /\ NothingPassedOver'
  BY <1>2, <1>7, <1>11 DEF ListInv, ReaderIsRight, NothingPassedOver
<1> QED
  BY <1>8, <1>12, <1>13, <1>14, <1>15 DEF ListInv

-----------------------------------------------------------------------------
\* The reader's steps leave the list and the writer alone.
LEMMA ReaderStep ==
    ASSUME Sizes, ListInv,
           UNCHANGED <<next, maxHeight, heights, inserted, writer>>,
           search'["writer"] = search["writer"]
    PROVE  /\ Sorted' /\ OffLevel' /\ Nested' /\ WriterIsRight'
           /\ \A i : Linked(i)' = Linked(i)
           /\ \A i : On(i)' = On(i)
<1>1. (\A i : Linked(i)' = Linked(i)) /\ (\A i : On(i)' = On(i))
  BY SameLinks
<1>2. Sorted' /\ OffLevel' /\ Nested'
  BY LevelsKept DEF ListInv, Types
<1>3. \A i : PrevIsRight(i)' <=> PrevIsRight(i)
  BY <1>1 DEF PrevIsRight
<1>4. WriterIsRight'
  BY <1>1, <1>3 DEF ListInv, WriterIsRight
<1> QED
  BY <1>1, <1>2, <1>4

\* Seek, SeekToLast and Prev start a search from head_ at a height that max_height_ has
\* or had.
LEMMA ReaderStarts ==
    ASSUME Sizes, ListInv, NEW name \in Name, NEW k \in Node, NEW mode \in Mode,
           Begin(name, k), StartSearch("reader", mode, k),
           UNCHANGED <<next, maxHeight, heights, inserted, writer, node, result>>,
           \/ name = "seek" /\ mode = "GreaterOrEqual" /\ k \in Key
           \/ name = "prev" /\ mode = "LessThan" /\ k \in Key
           \/ name = "last" /\ mode = "Last"
    PROVE  ListInv'
<1> USE DEF Sizes
<1>1. PICK h \in heights :
          search' = [search EXCEPT !["reader"] =
                       [x |-> Head, level |-> h - 1, key |-> k, mode |-> mode]]
  BY DEF StartSearch, GetMaxHeight, StartLevel
<1>2. h - 1 \in Level /\ Head \in Node
  BY DEF ListInv, Types, Level, Node
<1>3. /\ search' \in [Thread -> [x : Node, level : Level, key : Node, mode : Mode]]
      /\ search'["writer"] = search["writer"]
      /\ search'["reader"] = [x |-> Head, level |-> h - 1, key |-> k, mode |-> mode]
  BY <1>1, <1>2 DEF ListInv, Types, Thread
<1>4. reader' = [name |-> name, key |-> k, known |-> inserted]
  BY DEF Begin
<1>5. Types'
  BY <1>3, <1>4 DEF ListInv, Types
<1>6. /\ Sorted' /\ OffLevel' /\ Nested' /\ WriterIsRight'
      /\ \A i : Linked(i)' = Linked(i)
      /\ \A i : On(i)' = On(i)
  BY <1>3, ReaderStep
<1>7. SearchIsRight'
  BY <1>2, <1>3, <1>6 DEF ListInv, SearchIsRight, Thread, On, Key, Head
<1>8. ReaderIsRight'
  <2>1. /\ reader'.known = inserted' /\ reader'.name = name /\ reader'.key = k
        /\ search'["reader"].mode = mode /\ search'["reader"].key = k
    BY <1>3, <1>4
  <2>2. node' # Nil => node' \in Linked(0)'
    BY <1>6 DEF ListInv, ReaderIsRight
  <2> QED
    BY <2>1, <2>2 DEF ReaderIsRight, Nil
<1>9. NothingPassedOver'
  BY DEF ListInv, NothingPassedOver
<1> QED
  BY <1>5, <1>6, <1>7, <1>8, <1>9 DEF ListInv

\* SeekToFirst and Next follow one link of the lowest level.
LEMMA ReaderFollows ==
    ASSUME Sizes, ListInv, NEW name, NEW n \in On(0),
           \/ name = "first" /\ n = Head
           \/ name = "next" /\ n # Head,
           Begin(name, n), End(next[n][0]),
           UNCHANGED <<next, maxHeight, heights, inserted, writer, search>>, Ready
    PROVE  ListInv'
<1> USE DEF Sizes
<1>1. 0 \in Level
  BY DEF Level
<1>2. /\ n \in Node /\ next[n][0] \in Linked(0) \cup {Nil}
      /\ \A m \in Linked(0) : m > n => next[n][0] <= m
  BY <1>1, LinkLeadsOn DEF ListInv
<1>3. /\ reader' = [name |-> name, key |-> n, known |-> inserted]
      /\ node' = next[n][0]
      /\ result' = [name |-> name, key |-> n, known |-> inserted, node |-> next[n][0]]
  BY DEF Begin, End
<1>4. next[n][0] \in Key \cup {Nil} /\ next[n][0] \in 1 .. Nil
  BY <1>2 DEF Linked, Key, Nil
<1>5. Types'
  BY <1>2, <1>3, <1>4 DEF ListInv, Types, Name
<1>6. /\ Sorted' /\ OffLevel' /\ Nested' /\ WriterIsRight'
      /\ \A i : Linked(i)' = Linked(i)
      /\ \A i : On(i)' = On(i)
  BY ReaderStep
<1>7. SearchIsRight'
  BY <1>6 DEF ListInv, SearchIsRight
<1>8. ReaderIsRight'
  BY <1>2, <1>3, <1>6 DEF ListInv, ReaderIsRight, Ready
<1>9. NothingPassedOver'
  <2>1. inserted \subseteq Linked(0) /\ inserted \subseteq Key
    BY DEF ListInv, WriterIsRight, Types
  <2>2. (n + 1 .. next[n][0] - 1) \cap inserted = {}
    BY <2>1, <1>2, <1>4 DEF Key, Nil, Node, Head
  <2> QED
    BY <2>2, <1>3 DEF NothingPassedOver, Head
<1> QED
  BY <1>5, <1>6, <1>7, <1>8, <1>9 DEF ListInv

\* A search of the reader returns: nothing that had been inserted when it began lies
\* between where it went and where it was asked to go.
LEMMA ReturnStep ==
    ASSUME Sizes, ListInv, Return
    PROVE  ListInv'
<1> USE DEF Sizes
<1>1. PICK s, n : s = search["reader"] /\ n = next[s.x][0]
  OBVIOUS
<1>2. /\ UNCHANGED <<next, maxHeight, heights, inserted, writer, reader>>
      /\ s.mode # "none" /\ s.level = 0 /\ ~GoesOn(s, n)
      /\ search' = [search EXCEPT !["reader"] = NoSearch]
  BY <1>1 DEF Return, Found
<1>3. /\ s.x \in Node /\ s.x \in On(0) /\ s.key \in Node /\ s.mode \in Mode
      /\ n \in Linked(0) \cup {Nil}
      /\ \A m \in Linked(0) : m > s.x => n <= m
      /\ s.mode \in {"GreaterOrEqual", "LessThan"} => s.x < s.key
      /\ n = Nil \/ (s.mode \in {"GreaterOrEqual", "LessThan"} /\ n >= s.key)
  BY <1>1, <1>2, SearchStops DEF Thread
<1>4. PICK r : r = IF s.mode = "GreaterOrEqual" THEN n ELSE IF s.x = Head THEN Nil ELSE s.x
  OBVIOUS
<1>5. /\ node' = r
      /\ result' = [name |-> reader.name, key |-> reader.key, known |-> reader.known, node |-> r]
  BY <1>1, <1>4 DEF Return, End, Returned
<1>6. r \in Linked(0) \cup {Nil} /\ r \in Key \cup {Nil} /\ r \in 1 .. Nil
  BY <1>3, <1>4 DEF On, Linked, Key, Nil
<1>7. 0 \in Level
  BY DEF Level
<1>8. /\ search' \in [Thread -> [x : Node, level : Level, key : Node, mode : Mode]]
      /\ search'["reader"] = NoSearch /\ search'["writer"] = search["writer"]
  BY <1>2, <1>7 DEF ListInv, Types, Thread, NoSearch, Node, Mode, Head
<1>9. Types'
  BY <1>2, <1>5, <1>6, <1>8 DEF ListInv, Types
<1>10. /\ Sorted' /\ OffLevel' /\ Nested' /\ WriterIsRight'
       /\ \A i : Linked(i)' = Linked(i)
       /\ \A i : On(i)' = On(i)
  BY <1>2, <1>8, ReaderStep
<1>11. SearchIsRight'
  BY <1>8, <1>10 DEF ListInv, SearchIsRight, Thread, NoSearch, On
<1>12. ReaderIsRight'
  BY <1>2, <1>5, <1>6, <1>8, <1>10 DEF ListInv, ReaderIsRight, NoSearch
<1>13. NothingPassedOver'
  <2>1. reader.known \subseteq Linked(0) /\ reader.known \subseteq Key
    BY DEF ListInv, ReaderIsRight, WriterIsRight, Types
  <2> USE DEF Key, Nil, Node, Head
  <2>2. CASE s.mode = "GreaterOrEqual"
    <3>1. reader.name = "seek" /\ reader.key = s.key /\ r = n /\ n \in Int
      BY <2>2, <1>1, <1>3, <1>4, <1>6 DEF ListInv, ReaderIsRight
    <3>2. (s.key .. n - 1) \cap reader.known = {}
      BY <2>1, <2>2, <3>1, <1>3
    <3> QED
      BY <3>1, <3>2, <1>5 DEF NothingPassedOver
  <2>3. CASE s.mode = "LessThan"
    <3>1. reader.name = "prev" /\ reader.key = s.key
      BY <2>3, <1>1 DEF ListInv, ReaderIsRight
    <3>2. (s.x + 1 .. s.key - 1) \cap reader.known = {}
      <4>1. SUFFICES ASSUME NEW m \in reader.known, m \in s.x + 1 .. s.key - 1
                     PROVE  FALSE
        OBVIOUS
      <4>2. m \in Linked(0) /\ m \in Key /\ s.x \in Int /\ s.key \in Int /\ n \in Int
        BY <2>1, <1>2, <1>3, <1>6 DEF ListInv, Types, Thread
      <4>3. m > s.x /\ m < s.key
        BY <4>1, <4>2
      <4>4. n <= m
        BY <4>2, <4>3, <1>3
      <4> QED
        BY <4>2, <4>3, <4>4, <2>3, <1>3
    <3>3. IF r = Nil THEN s.x = 0 ELSE r = s.x
      BY <2>3, <1>3, <1>4
    <3> QED
      BY <3>1, <3>2, <3>3, <1>5 DEF NothingPassedOver
  <2>4. CASE s.mode = "Last"
    <3>1. reader.name = "last" /\ n = Nil
      BY <2>4, <1>1, <1>3 DEF ListInv, ReaderIsRight
    <3>2. (s.x + 1 .. MaxKey) \cap reader.known = {}
      BY <2>1, <3>1, <1>3
    <3>3. IF r = Nil THEN s.x = 0 ELSE r = s.x
      BY <2>4, <1>3, <1>4
    <3> QED
      BY <3>1, <3>2, <3>3, <1>5 DEF NothingPassedOver
  <2> QED
    BY <2>2, <2>3, <2>4, <1>2, <1>3 DEF Mode
<1> QED
  BY <1>9, <1>10, <1>11, <1>12, <1>13 DEF ListInv

-----------------------------------------------------------------------------
\* Every step of the writer and of the reader keeps the invariant.
LEMMA ListStep ==
    ASSUME Sizes, ListInv, [Steps]_vars
    PROVE  ListInv'
<1>1. CASE UNCHANGED vars
  <2>1. UNCHANGED <<next, maxHeight, heights, inserted, writer, search, node, reader, result>>
    BY <1>1 DEF vars
  <2>2. /\ Sorted' /\ OffLevel' /\ Nested' /\ WriterIsRight'
        /\ \A i : Linked(i)' = Linked(i)
        /\ \A i : On(i)' = On(i)
    BY <2>1, ReaderStep
  <2> QED
    BY <2>1, <2>2 DEF ListInv, Types, SearchIsRight, ReaderIsRight, NothingPassedOver
<1>2. CASE \E k \in Key : Insert(k)
  BY <1>2, InsertStep
<1>3. CASE \E h \in 1 .. MaxHeight : RandomHeight(h)
  BY <1>3, RandomHeightStep
<1>4. CASE InitLink
  BY <1>4, InitLinkStep
<1>5. CASE SetNext
  BY <1>5, SetNextStep
<1>6. CASE \E t \in Thread : SearchOn(t)
  BY <1>6, SearchOnStep
<1>7. CASE \E k \in Key : Seek(k)
  BY <1>7, ReaderStarts DEF Seek, Name, Mode, Node
<1>8. CASE SeekToLast
  BY <1>8, ReaderStarts DEF SeekToLast, Name, Mode, Node, Head
<1>9. CASE Prev
  <2>1. node \in Key
    BY <1>9 DEF Prev, ListInv, Types
  <2> QED
    BY <1>9, <2>1, ReaderStarts DEF Prev, Name, Mode, Node
<1>10. CASE SeekToFirst
  BY <1>10, ReaderFollows DEF SeekToFirst, On, Head
<1>11. CASE Next
  <2>1. node \in Linked(0) /\ node # Head
    BY <1>11 DEF Next, ListInv, ReaderIsRight, Linked, Key, Head, Sizes
  <2> QED
    BY <1>11, <2>1, ReaderFollows DEF Next, On
<1>12. CASE Return
  BY <1>12, ReturnStep
<1> QED
  BY <1>1, <1>2, <1>3, <1>4, <1>5, <1>6, <1>7, <1>8, <1>9, <1>10, <1>11, <1>12 DEF Steps

\* What the invariant says about what a reader meets.
LEMMA ListInvImplies ==
    ASSUME Sizes, ListInv
    PROVE  TypeOK /\ LevelsNested /\ NothingPassedOver
<1>1. TypeOK
  <2>1. \A t \in Thread : /\ search[t].x \in Key \cup {Head}
                          /\ search[t].level \in Level
                          /\ next[search[t].x][search[t].level] # Junk
    BY LinkLeadsOn DEF ListInv, Types, SearchIsRight, Node
  <2> QED
    BY <2>1 DEF TypeOK, ListInv, Types, Junk, Nil, Sizes
<1>2. LevelsNested
  <2>1. ASSUME NEW i \in Level, NEW n \in Linked(i) \cup {Head}
        PROVE  next[n][i] = Nil \/ next[n][i] \in n + 1 .. MaxKey
    BY <2>1 DEF ListInv, Sorted, On, Linked, Key, Head, Nil, Sizes
  <2>2. ASSUME NEW i \in Level, i > 0
        PROVE  Linked(i) \subseteq Linked(i - 1)
    BY <2>2 DEF ListInv, Nested, Level, Sizes
  <2> QED
    BY <2>1, <2>2 DEF LevelsNested
<1> QED
  BY <1>1, <1>2 DEF ListInv

\* Whatever the writer is doing, a reader meets no memory that was not written and
\* passes over no key whose Insert had returned when its operation began, without a
\* lock, for any number of keys and any kMaxHeight; every level is sorted and part
\* of the one below at every moment.
THEOREM ReadersNeedNoLock == Spec => []ListIsSafe
<1>1. Init => ListInv
  BY ListInit, SizeAssumption
<1>2. ListInv /\ [Steps]_vars => ListInv'
  BY ListStep, SizeAssumption
<1>3. ListInv => ListIsSafe
  BY ListInvImplies, SizeAssumption DEF ListIsSafe
<1> QED
  BY <1>1, <1>2, <1>3, PTL DEF Spec
=============================================================================
