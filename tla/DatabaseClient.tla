--------------------------- MODULE DatabaseClient ---------------------------
(***************************************************************************)
(* Devices that use the database client in every way ZipR's controllers    *)
(* could: any call at any time, connections that drop, processes that die. *)
(* A child's key is a fresh UUID, so a child is set once.                  *)
(***************************************************************************)
EXTENDS RealtimeDatabase

CONSTANTS
    CommentPath,     \* the paths of comments; they are cleared as a whole
    Scopes           \* the scopes: who takes part, and the bounds

ASSUME CommentPathAssumption == CommentPath \subseteq Path

\* A scope has the devices and the paths that are used and the bounds on the
\* calls the apps make, over all devices, on lost connections and on process
\* deaths.
ASSUME ScopesAssumption ==
    Scopes \subseteq [devices : SUBSET Device, paths : SUBSET Path, calls : Nat,
                     disconnects : Nat, kills : Nat]

VARIABLES
    scope,           \* the scope of this behaviour
    used,            \* the keys that were drawn, as <<path, key>>
    made, dropped, killed  \* calls, disconnects and kills so far

vars == <<dbVars, scope, used, made, dropped, killed>>

Init ==
    /\ DBInit([p \in Path |-> {}])
    /\ scope \in Scopes
    /\ used = {}
    /\ made = 0
    /\ dropped = 0
    /\ killed = 0

-----------------------------------------------------------------------------
\* A call reaches the end of the client's queue.
Call(d, c) ==
    /\ made < scope.calls
    /\ made' = made + 1
    /\ calls' = [calls EXCEPT ![d] = Append(@, c)]
    /\ UNCHANGED <<pending, putCounter, observers, waiting, cache, filled, mainq,
                   netVars, mine, gone, scope, dropped, killed>>

\* createPost, createComment
Create(d, p, k) ==
    /\ <<p, k>> \notin used
    /\ used' = used \cup {<<p, k>>}
    /\ Call(d, PutCall(SetValue(p, k)))

\* The first half of deletePostandItsComments, for a post that was created by
\* any device.
Delete(d, p, k) ==
    /\ p \notin CommentPath
    /\ <<p, k>> \in used
    /\ Call(d, PutCall(RemoveValue(p, k)))
    /\ UNCHANGED used

\* The second half.
Clear(d, p) ==
    /\ p \in CommentPath
    /\ Call(d, PutCall(ClearPath(p)))
    /\ UNCHANGED used

\* fetchPosts, fetchCommentsforPost
Fetch(d, p) ==
    /\ Call(d, ObserveCall(p, "fetch"))
    /\ UNCHANGED used

\* observeSingleEvent's callback on the main queue removes the observer and
\* hands the snapshot to the app.
RunEvent(d) ==
    /\ mainq[d] # << >>
    /\ calls' = [calls EXCEPT ![d] =
                   Append(@, RemoveObserverCall(Head(mainq[d]).path))]
    /\ mainq' = [mainq EXCEPT ![d] = Tail(@)]
    /\ UNCHANGED <<pending, putCounter, observers, waiting, cache, filled, netVars,
                   mine, gone, scope, used, made, dropped, killed>>

Drop(d) ==
    /\ dropped < scope.disconnects
    /\ dropped' = dropped + 1
    /\ Disconnect(d)
    /\ UNCHANGED <<scope, used, made, killed>>

Kill(d) ==
    /\ killed < scope.kills
    /\ killed' = killed + 1
    /\ Killed(d)
    /\ UNCHANGED <<scope, used, made, dropped>>

\* What the client, the server and the network do by themselves.
Serve(d) == ClientStep(d) /\ UNCHANGED <<scope, used, made, dropped, killed>>
Remote(d) == ServerStep(d) /\ UNCHANGED <<scope, used, made, dropped, killed>>
Connect(d) == Reconnect(d) /\ UNCHANGED <<scope, used, made, dropped, killed>>

Next ==
    \E d \in scope.devices :
        \/ \E p \in scope.paths, k \in Key : Create(d, p, k) \/ Delete(d, p, k)
        \/ \E p \in scope.paths : Clear(d, p) \/ Fetch(d, p)
        \/ RunEvent(d)
        \/ Drop(d)
        \/ Kill(d)
        \/ Serve(d)
        \/ Remote(d)
        \/ Connect(d)

\* The queues are served and the client reconnects (tryScheduleReconnect).
\* The apps need not call anything.
Fairness ==
    \A d \in Device :
        /\ WF_vars(d \in scope.devices /\ RunEvent(d))
        /\ WF_vars(d \in scope.devices /\ Serve(d))
        /\ WF_vars(d \in scope.devices /\ Remote(d))
        /\ WF_vars(d \in scope.devices /\ Connect(d))

Spec == Init /\ [][Next]_vars /\ Fairness

-----------------------------------------------------------------------------
(***************************************************************************)
(* What ZipR relies on.                                                    *)
(***************************************************************************)

\* Whatever a complete view reports holds every child this device created
\* that nobody removed, and none that it removed itself: the controllers
\* fetch right after setValue and removeValue without waiting for an answer.
ReadYourWrites ==
    \A d \in Device, p \in Path :
        Complete(d, p) =>
            \A k \in Key :
                /\ <<p, k>> \in mine[d] => k \in View(d, p)
                /\ <<p, k>> \in gone[d] => k \notin View(d, p)

\* A child that was created and not removed is on the server, or its put is
\* still outstanding and will be sent: lost connections lose no write.
NoLostWrite ==
    \A d \in Device, p \in Path, k \in Key :
        <<p, k>> \in mine[d] /\ k \notin server[p] =>
            \E i \in DOMAIN pending[d] :
                 pending[d][i] = [write |-> SetValue(p, k), status |-> "sent"]

\* A child that its creator removed may come back on the server, because a
\* put whose answer was lost is sent again, but only while the removal is
\* outstanding too and follows it.
RemovedStaysRemoved ==
    \A d \in Device, p \in Path, k \in Key :
        <<p, k>> \in gone[d] /\ k \in server[p] =>
            \E i \in DOMAIN pending[d] :
                /\ pending[d][i].status = "sent"
                /\ pending[d][i].write.op # "set"
                /\ Touches(pending[d][i].write, p, k)

\* Every observer gets its first event, unless its process dies.
FetchAnswered ==
    \A d \in Device, p \in Path :
        waiting[d][p] # << >> ~> waiting[d][p] = << >>

\* Every put is answered in the end, however often the connection is lost.
PutsAnswered ==
    \A d \in Device :
        OutstandingPuts(d) # {} ~> OutstandingPuts(d) = {}

\* Every fetch and every put is answered.
CallsAnswered == FetchAnswered /\ PutsAnswered
=============================================================================
