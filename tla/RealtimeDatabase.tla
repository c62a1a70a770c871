-------------------------- MODULE RealtimeDatabase --------------------------
(***************************************************************************)
(* The Firebase Realtime Database client as ZipR uses it: setValue,        *)
(* removeValue and observeSingleEvent on a few listened paths ("Posts" and *)
(* "Comments/<post>"), each holding a set of children.                     *)
(*                                                                         *)
(* The app's thread only appends calls to the client's serial queue        *)
(* (calls).  The client keeps the write tree of unacknowledged writes      *)
(* (pending), the observers and server caches of its views, and talks to   *)
(* the server over one FIFO connection (up, down).  A value event is       *)
(* dispatched to the app's main queue (mainq).  Disk persistence is off    *)
(* (the app never enables it), so a killed process forgets all of it.      *)
(*                                                                         *)
(* The server is external: it handles the requests of a connection in      *)
(* order, pushes a change to the connections that listen, and acknowledges *)
(* a put after the push.                                                   *)
(***************************************************************************)
EXTENDS Integers, Sequences, FiniteSets, SequencesExt

CONSTANTS
    Device,     \* running copies of the app
    Path,       \* the paths that are listened to
    Key,        \* child keys (UUIDs)
    MayDeny     \* may the security rules reject a put?

ASSUME MayDenyAssumption == MayDeny \in BOOLEAN
ASSUME PathAssumption == IsFiniteSet(Path)

VARIABLES
    calls,      \* the client's serial dispatch queue
    pending,    \* FWriteTree with FPersistentConnection's outstandingPuts:
                \* put number -> [write, status]
    putCounter, \* the number of the next put
    observers,  \* observers[d][p]: number of event registrations of a view
    waiting,    \* waiting[d][p]: those that have had no event yet
    cache,      \* cache[d][p]: the view's server cache, empty at first
    filled,     \* filled[d]: the paths whose cache the server has filled
    mainq,      \* blocks dispatched to the app's main queue
    connected,  \* connectionState = ConnectionStateConnected
    up, down,   \* the connection, to and from the server
    server,     \* server[p]: the children stored under p
    listeners,  \* listeners[p]: the connections the server pushes p to
    mine,       \* history: children d created, until somebody removes them
    gone        \* history: children d created and removed itself

clientVars == <<calls, pending, putCounter, observers, waiting, cache, filled, mainq>>
netVars == <<connected, up, down, server, listeners>>
dbVars == <<clientVars, netVars, mine, gone>>

-----------------------------------------------------------------------------
NoKey == "no key"        \* the key of a write to a whole path

\* createPost and createComment set a child, deletePostandItsComments removes
\* a child of "Posts" and clears the comments of a post.
Write == [op : {"set", "remove"}, path : Path, key : Key]
           \cup [op : {"clear"}, path : Path, key : {NoKey}]

SetValue(p, k) == [op |-> "set", path |-> p, key |-> k]
RemoveValue(p, k) == [op |-> "remove", path |-> p, key |-> k]
ClearPath(p) == [op |-> "clear", path |-> p, key |-> NoKey]

\* The calls the app's thread makes.  A request is the closure to run.
PutCall(w) == [call |-> "put", write |-> w]
ObserveCall(p, r) == [call |-> "observe", path |-> p, request |-> r]
RemoveObserverCall(p) == [call |-> "removeObserver", path |-> p]

\* A write concerns child k of path p.
Touches(w, p, k) == w.path = p /\ (w.op = "clear" \/ w.key = k)

\* What a write does to the children of a path.
Applied(w, S) ==
    CASE w.op = "set"    -> S \cup {w.key}
      [] w.op = "remove" -> S \ {w.key}
      [] w.op = "clear"  -> {}

\* The server's data alone, without the writes under way.
OverlayNoPending(writes, p, S) == S

\* The children of p as a client sees them: the last unacknowledged write to
\* a child decides, and the server's data where there is none.  Writes are
\* numbered in the order they were made.
Overlay(writes, p, S) ==
    {k \in Key :
        \/ \E i \in DOMAIN writes :
              /\ writes[i].write.op = "set"
              /\ Touches(writes[i].write, p, k)
              /\ \A j \in DOMAIN writes :
                    j > i => ~Touches(writes[j].write, p, k)
        \/ /\ k \in S
           /\ \A i \in DOMAIN writes : ~Touches(writes[i].write, p, k)}

\* A write to the whole path makes a view complete before the server answers.
IsCleared(writes, p) == \E i \in DOMAIN writes : writes[i].write = ClearPath(p)

Complete(d, p) ==
    observers[d][p] > 0 /\ (p \in filled[d] \/ IsCleared(pending[d], p))

\* The children a complete view of the device reports.
View(d, p) == Overlay(pending[d], p, cache[d][p])

Event(p, r, snap) ==
    [block |-> "value", path |-> p, request |-> r, snap |-> snap]

Events(p, requests, snap) ==
    [i \in DOMAIN requests |-> Event(p, requests[i], snap)]

\* Listen requests that the server has not answered (unackedListensCount).
UnackedListens(d) ==
    Cardinality({i \in DOMAIN up[d] : up[d][i].msg = "listen"})
      + Cardinality({i \in DOMAIN down[d] : down[d][i].msg = "listened"})

Send(d, m) == up' = [up EXCEPT ![d] = IF connected[d] THEN Append(@, m) ELSE @]
PutMsg(i, w) == [msg |-> "put", id |-> i, write |-> w]
ListenMsg(p) == [msg |-> "listen", path |-> p]
UnlistenMsg(p) == [msg |-> "unlisten", path |-> p]

\* The children that a write takes away.
Removed(w) == {x \in Path \X Key : w.op # "set" /\ Touches(w, x[1], x[2])}

DBTypeOK ==
    /\ \A d \in Device :
          /\ DOMAIN pending[d] \subseteq 1 .. putCounter[d] - 1
          /\ \A i \in DOMAIN pending[d] :
                /\ pending[d][i].write \in Write
                /\ pending[d][i].status \in {"sent", "ok", "denied"}
          /\ \A p \in Path :
                /\ observers[d][p] \in Nat
                /\ Len(waiting[d][p]) <= observers[d][p]
                /\ cache[d][p] \in SUBSET Key
          /\ filled[d] \in SUBSET Path
    /\ connected \in [Device -> BOOLEAN]
    /\ server \in [Path -> SUBSET Key]
    /\ listeners \in [Path -> SUBSET Device]

\* Clients that have not connected yet.
DBInit(contents) ==
    /\ calls = [d \in Device |-> << >>]
    /\ pending = [d \in Device |-> << >>]
    /\ putCounter = [d \in Device |-> 1]
    /\ observers = [d \in Device |-> [p \in Path |-> 0]]
    /\ waiting = [d \in Device |-> [p \in Path |-> << >>]]
    /\ cache = [d \in Device |-> [p \in Path |-> {}]]
    /\ filled = [d \in Device |-> {}]
    /\ mainq = [d \in Device |-> << >>]
    /\ connected = [d \in Device |-> FALSE]
    /\ up = [d \in Device |-> << >>]
    /\ down = [d \in Device |-> << >>]
    /\ server = contents
    /\ listeners = [p \in Path |-> {}]
    /\ mine = [d \in Device |-> {}]
    /\ gone = [d \in Device |-> {}]

-----------------------------------------------------------------------------
(***************************************************************************)
(* The client's serial queue.                                              *)
(***************************************************************************)

\* A put enters the write tree of d: the history of what d made and unmade.
RecordWrite(d, w) ==
    /\ mine' = [mine EXCEPT ![d] =
                  IF w.op = "set" THEN @ \cup {<<w.path, w.key>>}
                                  ELSE @ \ Removed(w)]
    /\ gone' = [gone EXCEPT ![d] = @ \cup (mine[d] \cap Removed(w))]

\* The write tree with write w under number n.
WithPut(writes, n, w) ==
    [i \in DOMAIN writes \cup {n} |->
        IF i = n THEN [write |-> w, status |-> "sent"] ELSE writes[i]]

\* FRepo set: the write enters the write tree, views at its path that it
\* completes raise their first event, and the put is sent or waits for a
\* connection.
RunPut(d) ==
    /\ calls[d] # << >>
    /\ Head(calls[d]).call = "put"
    /\ LET w == Head(calls[d]).write
           p == w.path
           id == putCounter[d]
           writes == WithPut(pending[d], id, w)
           raised == IF w.op = "clear" THEN waiting[d][p] ELSE << >>
       IN  /\ pending' = [pending EXCEPT ![d] = writes]
           /\ mainq' = [mainq EXCEPT ![d] = @ \o
                           Events(p, raised, Overlay(writes, p, cache[d][p]))]
           /\ waiting' = [waiting EXCEPT ![d][p] =
                             IF w.op = "clear" THEN << >> ELSE @]
           /\ Send(d, PutMsg(id, w))
           /\ RecordWrite(d, w)
    /\ putCounter' = [putCounter EXCEPT ![d] = @ + 1]
    /\ calls' = [calls EXCEPT ![d] = Tail(@)]
    /\ UNCHANGED <<observers, cache, filled, connected, down, server, listeners>>

\* FSyncTree addEventRegistration: a complete view answers at once from its
\* cache, a new view listens, an incomplete one waits.
RunObserve(d) ==
    /\ calls[d] # << >>
    /\ Head(calls[d]).call = "observe"
    /\ LET p == Head(calls[d]).path
           r == Head(calls[d]).request
           new == observers[d][p] = 0
           complete == IsCleared(pending[d], p) \/ (~new /\ p \in filled[d])
       IN  /\ observers' = [observers EXCEPT ![d][p] = @ + 1]
           /\ IF complete
                THEN /\ mainq' = [mainq EXCEPT ![d] =
                                     Append(@, Event(p, r, View(d, p)))]
                     /\ UNCHANGED waiting
                ELSE /\ waiting' = [waiting EXCEPT ![d][p] = Append(@, r)]
                     /\ UNCHANGED mainq
           /\ IF new THEN Send(d, ListenMsg(p)) ELSE UNCHANGED up
    /\ calls' = [calls EXCEPT ![d] = Tail(@)]
    /\ UNCHANGED <<pending, putCounter, cache, filled, connected, down, server,
                   listeners, mine, gone>>

\* Removing every observer of the path instead of one.
RunRemoveAllObservers(d) ==
    /\ calls[d] # << >>
    /\ Head(calls[d]).call = "removeObserver"
    /\ LET p == Head(calls[d]).path
       IN  /\ observers' = [observers EXCEPT ![d][p] = 0]
           /\ cache' = [cache EXCEPT ![d][p] = {}]
           /\ filled' = [filled EXCEPT ![d] = @ \ {p}]
           /\ Send(d, UnlistenMsg(p))
    /\ calls' = [calls EXCEPT ![d] = Tail(@)]
    /\ UNCHANGED <<pending, putCounter, waiting, mainq, connected, down, server,
                   listeners, mine, gone>>

\* FSyncTree removeEventRegistration: the view and its server cache go with
\* the last observer.
RunRemoveObserver(d) ==
    /\ calls[d] # << >>
    /\ Head(calls[d]).call = "removeObserver"
    /\ LET p == Head(calls[d]).path
           last == observers[d][p] = 1
       IN  /\ observers' = [observers EXCEPT ![d][p] = @ - 1]
           /\ cache' = [cache EXCEPT ![d][p] = IF last THEN {} ELSE @]
           /\ filled' = [filled EXCEPT ![d] = IF last THEN @ \ {p} ELSE @]
           /\ IF last THEN Send(d, UnlistenMsg(p)) ELSE UNCHANGED up
    /\ calls' = [calls EXCEPT ![d] = Tail(@)]
    /\ UNCHANGED <<pending, putCounter, waiting, mainq, connected, down, server,
                   listeners, mine, gone>>

\* The acknowledged writes leave the write tree.
AckPuts(writes) == Restrict(writes, {i \in DOMAIN writes : writes[i].status = "sent"})

\* Server data for p: it fills the cache of the view, if there still is one,
\* and every observer that waits gets its first event.
ReceiveSnap(d, p, snap) ==
    IF observers[d][p] = 0
      THEN UNCHANGED <<cache, filled, waiting, mainq>>
      ELSE /\ cache' = [cache EXCEPT ![d][p] = snap]
           /\ filled' = [filled EXCEPT ![d] = @ \cup {p}]
           /\ waiting' = [waiting EXCEPT ![d][p] = << >>]
           /\ mainq' = [mainq EXCEPT ![d] = @ \o
                           Events(p, waiting[d][p], Overlay(pending[d], p, snap))]

\* The answer to a listen: the data, and, when no other listen is under way,
\* the acknowledgements that were held back (ackPuts).
ReceiveListened(d) ==
    /\ down[d] # << >>
    /\ Head(down[d]).msg = "listened"
    /\ ReceiveSnap(d, Head(down[d]).path, Head(down[d]).snap)
    /\ pending' = [pending EXCEPT ![d] =
                     IF UnackedListens(d) = 1 THEN AckPuts(@) ELSE @]
    /\ down' = [down EXCEPT ![d] = Tail(@)]
    /\ UNCHANGED <<calls, putCounter, observers, connected, up, server, listeners,
                   mine, gone>>

\* A pushed change (onDataUpdate).
ReceiveData(d) ==
    /\ down[d] # << >>
    /\ Head(down[d]).msg = "data"
    /\ ReceiveSnap(d, Head(down[d]).path, Head(down[d]).snap)
    /\ down' = [down EXCEPT ![d] = Tail(@)]
    /\ UNCHANGED <<calls, pending, putCounter, observers, connected, up, server,
                   listeners, mine, gone>>

\* An answer that takes every write to its child out of the write tree.
ReceiveAckOfChild(d) ==
    /\ down[d] # << >>
    /\ Head(down[d]).msg = "ack"
    /\ LET w == pending[d][Head(down[d]).id].write
       IN  pending' = [pending EXCEPT ![d] =
              Restrict(@, {i \in DOMAIN @ : ~Touches(@[i].write, w.path, w.key)})]
    /\ down' = [down EXCEPT ![d] = Tail(@)]
    /\ UNCHANGED <<calls, putCounter, observers, waiting, cache, filled, mainq,
                   connected, up, server, listeners, mine, gone>>

\* The answer to a put (sendPut's callback): the put of that number leaves
\* outstandingPuts, if it is still there.  Its write leaves the write tree now or, while a
\* listen is under way, with ackPuts.
ReceiveAck(d) ==
    /\ down[d] # << >>
    /\ Head(down[d]).msg = "ack"
    /\ LET ack == Head(down[d])
       IN  pending' = [pending EXCEPT ![d] =
              IF UnackedListens(d) = 0
                THEN Restrict(@, DOMAIN @ \ {ack.id})
                ELSE [@ EXCEPT ![ack.id].status = ack.status]]
    /\ down' = [down EXCEPT ![d] = Tail(@)]
    /\ UNCHANGED <<calls, putCounter, observers, waiting, cache, filled, mainq,
                   connected, up, server, listeners, mine, gone>>

-----------------------------------------------------------------------------
(***************************************************************************)
(* The connection and the server.                                          *)
(***************************************************************************)

\* A disconnect that also gives up the outstanding puts.
DisconnectPurging(d) ==
    /\ connected[d]
    /\ connected' = [connected EXCEPT ![d] = FALSE]
    /\ pending' = [pending EXCEPT ![d] = << >>]
    /\ up' = [up EXCEPT ![d] = << >>]
    /\ down' = [down EXCEPT ![d] = << >>]
    /\ listeners' = [p \in Path |-> listeners[p] \ {d}]
    /\ UNCHANGED <<calls, putCounter, observers, waiting, cache, filled, mainq,
                   server, mine, gone>>

\* onDisconnect: requests and answers in flight are lost.
Disconnect(d) ==
    /\ connected[d]
    /\ connected' = [connected EXCEPT ![d] = FALSE]
    /\ up' = [up EXCEPT ![d] = << >>]
    /\ down' = [down EXCEPT ![d] = << >>]
    /\ listeners' = [p \in Path |-> listeners[p] \ {d}]
    /\ UNCHANGED <<clientVars, server, mine, gone>>

\* The puts that have had no answer.
OutstandingPuts(d) == {i \in DOMAIN pending[d] : pending[d][i].status = "sent"}

\* The numbers of S from the smallest to the largest (there is one such sequence).
Ascending(S) ==
    {s \in [1 .. Cardinality(S) -> S] :
        /\ \A i, j \in DOMAIN s : i < j => s[i] < s[j]
        /\ \A n \in S : \E i \in DOMAIN s : s[i] = n}

\* They are sent in the order of their numbers.
Resent(d) ==
    {[i \in DOMAIN s |-> PutMsg(s[i], pending[d][s[i]].write)] :
        s \in Ascending(OutstandingPuts(d))}

\* One listen for each view, in any order: listens is a dictionary.
Listens(d) ==
    SetToSeqs({ListenMsg(p) : p \in {q \in Path : observers[d][q] > 0}})

ReconnectPutsOnly(d) ==
    /\ ~connected[d]
    /\ connected' = [connected EXCEPT ![d] = TRUE]
    /\ \E puts \in Resent(d) : up' = [up EXCEPT ![d] = puts]
    /\ UNCHANGED <<clientVars, down, server, listeners, mine, gone>>

\* restoreState: the listens, then all outstanding puts, are sent (again).
Reconnect(d) ==
    /\ ~connected[d]
    /\ connected' = [connected EXCEPT ![d] = TRUE]
    /\ \E listens \in Listens(d), puts \in Resent(d) :
          up' = [up EXCEPT ![d] = listens \o puts]
    /\ UNCHANGED <<clientVars, down, server, listeners, mine, gone>>

\* The process ends; the next launch starts with an empty client.
Killed(d) ==
    /\ calls' = [calls EXCEPT ![d] = << >>]
    /\ pending' = [pending EXCEPT ![d] = << >>]
    /\ putCounter' = [putCounter EXCEPT ![d] = 1]
    /\ observers' = [observers EXCEPT ![d] = [p \in Path |-> 0]]
    /\ waiting' = [waiting EXCEPT ![d] = [p \in Path |-> << >>]]
    /\ cache' = [cache EXCEPT ![d] = [p \in Path |-> {}]]
    /\ filled' = [filled EXCEPT ![d] = {}]
    /\ mainq' = [mainq EXCEPT ![d] = << >>]
    /\ connected' = [connected EXCEPT ![d] = FALSE]
    /\ up' = [up EXCEPT ![d] = << >>]
    /\ down' = [down EXCEPT ![d] = << >>]
    /\ listeners' = [p \in Path |-> listeners[p] \ {d}]
    /\ mine' = [mine EXCEPT ![d] = {}]
    /\ gone' = [gone EXCEPT ![d] = {}]
    /\ UNCHANGED server

ServerListen(d) ==
    /\ up[d] # << >>
    /\ Head(up[d]).msg = "listen"
    /\ LET p == Head(up[d]).path
       IN  /\ listeners' = [listeners EXCEPT ![p] = @ \cup {d}]
           /\ down' = [down EXCEPT ![d] = Append(@,
                          [msg |-> "listened", path |-> p, snap |-> server[p]])]
    /\ up' = [up EXCEPT ![d] = Tail(@)]
    /\ UNCHANGED <<clientVars, connected, server, mine, gone>>

ServerUnlisten(d) ==
    /\ up[d] # << >>
    /\ Head(up[d]).msg = "unlisten"
    /\ listeners' = [listeners EXCEPT ![Head(up[d]).path] = @ \ {d}]
    /\ up' = [up EXCEPT ![d] = Tail(@)]
    /\ UNCHANGED <<clientVars, connected, down, server, mine, gone>>

\* What the connections that listen to p are sent when it becomes snap.
Push(p, snap) ==
    [e \in Device |-> IF e \in listeners[p]
                       THEN <<[msg |-> "data", path |-> p, snap |-> snap]>>
                       ELSE << >>]

AckMsg(i, s) == [msg |-> "ack", id |-> i, status |-> s]

ServerPut(d) ==
    /\ up[d] # << >>
    /\ Head(up[d]).msg = "put"
    /\ LET w == Head(up[d]).write
           snap == Applied(w, server[w.path])
           push == Push(w.path, snap)
       IN  /\ server' = [server EXCEPT ![w.path] = snap]
           /\ down' = [e \in Device |-> down[e] \o push[e] \o
                IF e = d THEN <<AckMsg(Head(up[d]).id, "ok")>> ELSE << >>]
           /\ mine' = [e \in Device |->
                         IF e = d THEN mine[e] ELSE mine[e] \ Removed(w)]
    /\ up' = [up EXCEPT ![d] = Tail(@)]
    /\ UNCHANGED <<clientVars, connected, listeners, gone>>

\* A write that comes from somebody else's client.
ServerRemote(w) ==
    /\ LET snap == Applied(w, server[w.path])
           push == Push(w.path, snap)
       IN  /\ server' = [server EXCEPT ![w.path] = snap]
           /\ down' = [e \in Device |-> down[e] \o push[e]]
    /\ mine' = [e \in Device |-> mine[e] \ Removed(w)]
    /\ UNCHANGED <<clientVars, connected, up, listeners, gone>>

\* The security rules reject the put.
ServerDeny(d) ==
    /\ MayDeny
    /\ up[d] # << >>
    /\ Head(up[d]).msg = "put"
    /\ down' = [down EXCEPT ![d] =
                  Append(@, AckMsg(Head(up[d]).id, "denied"))]
    /\ LET w == Head(up[d]).write
       IN  /\ mine' = [mine EXCEPT ![d] = @ \ {<<w.path, w.key>>}]
           /\ gone' = [gone EXCEPT ![d] = @ \ Removed(w)]
    /\ up' = [up EXCEPT ![d] = Tail(@)]
    /\ UNCHANGED <<clientVars, connected, server, listeners>>

\* The steps the client and the server take by themselves.
ClientStep(d) ==
    \/ RunPut(d)
    \/ RunObserve(d)
    \/ RunRemoveObserver(d)
    \/ ReceiveListened(d)
    \/ ReceiveData(d)
    \/ ReceiveAck(d)

ServerStep(d) ==
    \/ ServerListen(d)
    \/ ServerUnlisten(d)
    \/ ServerPut(d)
    \/ ServerDeny(d)
=============================================================================
