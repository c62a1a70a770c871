--------------------------- MODULE DatabaseProofs ---------------------------
(***************************************************************************)
(* Lost connections, resends and process deaths lose no write of the       *)
(* database client and bring no removed child back, for any number of      *)
(* devices, paths and keys and any bounds of the scopes.                   *)
(*                                                                         *)
(* RealtimeDatabaseProofs says what each step does to the puts of a        *)
(* device.  Here the children's fate follows from it, with what the app    *)
(* adds: a child has a fresh key, so it is set by one call of one device.  *)
(***************************************************************************)
EXTENDS DatabaseClient, RealtimeDatabaseProofs

\* The calls of d that are queued to make child k of p, and whether d has called that.
Making(d, p, k) == {i \in DOMAIN calls[d] : calls[d][i] = PutCall(SetValue(p, k))}
Has(d, p, k) ==
    \/ \E i \in OutstandingPuts(d) : pending[d][i].write = SetValue(p, k)
    \/ <<p, k>> \in mine[d] \cup gone[d]
Knows(d, p, k) == Making(d, p, k) # {} \/ Has(d, p, k)

Once(d, p, k) == \A i, j \in Making(d, p, k) : i = j

\* A key is drawn before it is used, by one device, for one call.
FreshAt(p, k) ==
    /\ \A d \in Device : Knows(d, p, k) => <<p, k>> \in used
    /\ \A d, e \in Device : Knows(d, p, k) /\ Knows(e, p, k) => d = e
    /\ \A d \in Device : /\ Making(d, p, k) # {} => ~Has(d, p, k)
                         /\ Once(d, p, k)

ScopeOK == scope.devices \subseteq Device /\ scope.paths \subseteq Path

Fresh == \A p \in Path, k \in Key : FreshAt(p, k)
Kept == \A d \in Device, p \in Path, k \in Key : KeptAt(d, p, k)
Undone == \A d \in Device, p \in Path, k \in Key : UndoneAt(d, p, k)

\* The inductive invariant.
DatabaseInv ==
    /\ ScopeOK
    /\ FlightInv
    /\ QueuesOK({"fetch"}, {})
    /\ Fresh
    /\ Kept
    /\ Undone

-----------------------------------------------------------------------------
\* A step after which d has no more puts outstanding than before.
FewerPuts(d) ==
    /\ OutstandingPuts(d)' \subseteq OutstandingPuts(d)
    /\ \A i \in OutstandingPuts(d)' : pending'[d][i].write = pending[d][i].write

FewerChildren(d) == mine'[d] \subseteq mine[d] /\ gone'[d] \subseteq gone[d]

LEMMA FewerPutsFrom ==
    ASSUME NEW d,
           \/ Unmoved(d) \/ Answered(d) \/ StartsOver(d) \/ Forgotten(d)
           \/ \E w \in Write : Handled(d, w)
    PROVE  FewerPuts(d)
<1>1. CASE Answered(d)
  BY <1>1 DEF Answered, FewerPuts
<1>2. CASE \E w \in Write : Handled(d, w)
  BY <1>2 DEF Handled, FewerPuts
<1> QED
  BY <1>1, <1>2 DEF Unmoved, StartsOver, Forgotten, FewerPuts

LEMMA HasLess ==
    ASSUME NEW d, NEW p, NEW k, FewerPuts(d), FewerChildren(d), Has(d, p, k)'
    PROVE  Has(d, p, k)
BY DEF Has, FewerPuts, FewerChildren

\* No call that makes the child is added.
NoneAdded(d, p, k) ==
    /\ Making(d, p, k)' # {} => Making(d, p, k) # {}
    /\ Once(d, p, k) => Once(d, p, k)'

LEMMA NothingQueued ==
    ASSUME NEW d, NEW p, NEW k, calls'[d] = calls[d]
    PROVE  NoneAdded(d, p, k)
BY DEF NoneAdded, Making, Once

LEMMA CallTaken ==
    ASSUME NEW S, NEW d, NEW p, NEW k, calls[d] \in Seq(S), calls[d] # << >>,
           calls'[d] = Tail(calls[d])
    PROVE  /\ NoneAdded(d, p, k)
           /\ Head(calls[d]) = PutCall(SetValue(p, k)) =>
                 Making(d, p, k) # {} /\ (Once(d, p, k) => Making(d, p, k)' = {})
<1>1. PICK s \in Seq(S) : s = calls[d]
  OBVIOUS
<1>2. PICK t : t = Tail(s)
  OBVIOUS
<1>3. /\ Len(s) \in Nat /\ Len(s) >= 1
      /\ DOMAIN s = 1 .. Len(s) /\ DOMAIN t = 1 .. Len(s) - 1
      /\ \A i \in 1 .. Len(s) - 1 : t[i] = s[i + 1]
      /\ Head(s) = s[1]
  <2>1. s # << >>
    BY <1>1
  <2> QED
    BY <2>1, <1>2, TailFacts
<1>4. PICK c : c = PutCall(SetValue(p, k))
  OBVIOUS
<1>5. \A i \in DOMAIN t : t[i] = c => i + 1 \in DOMAIN s /\ s[i + 1] = c /\ i + 1 # 1 /\ i \in Int
  BY <1>3
<1>6. /\ \A i : i \in Making(d, p, k) <=> i \in DOMAIN s /\ s[i] = c
      /\ \A i : i \in Making(d, p, k)' <=> i \in DOMAIN t /\ t[i] = c
  BY <1>1, <1>2, <1>4 DEF Making
<1>7. \A i \in Making(d, p, k)' : i + 1 \in Making(d, p, k) /\ i + 1 # 1 /\ i \in Int
  BY <1>5, <1>6
<1>8. ASSUME Once(d, p, k) PROVE Once(d, p, k)'
  <2>1. SUFFICES ASSUME NEW i \in Making(d, p, k)', NEW j \in Making(d, p, k)'
                 PROVE  i = j
    BY DEF Once
  <2>2. i + 1 = j + 1 /\ i \in Int /\ j \in Int
    BY <1>7, <1>8 DEF Once
  <2> QED
    BY ONLY <2>2
<1>9. ASSUME Head(calls[d]) = c
      PROVE  1 \in Making(d, p, k) /\ (Once(d, p, k) => Making(d, p, k)' = {})
  <2>1. 1 \in Making(d, p, k)
    BY <1>1, <1>3, <1>6, <1>9
  <2> QED
    BY <2>1, <1>7 DEF Once
<1> QED
  BY <1>4, <1>7, <1>8, <1>9 DEF NoneAdded

LEMMA CallAdded ==
    ASSUME NEW S, NEW d, NEW p, NEW k, NEW c \in S, calls[d] \in Seq(S),
           calls'[d] = Append(calls[d], c)
    PROVE  /\ c # PutCall(SetValue(p, k)) => NoneAdded(d, p, k)
           /\ Making(d, p, k) = {} => Once(d, p, k)'
<1>1. PICK s \in Seq(S) : s = calls[d]
  OBVIOUS
<1>2. PICK t : t = Append(s, c)
  OBVIOUS
<1>3. /\ Len(s) \in Nat
      /\ DOMAIN s = 1 .. Len(s) /\ DOMAIN t = 1 .. Len(s) + 1
      /\ \A i \in 1 .. Len(s) : t[i] = s[i]
      /\ t[Len(s) + 1] = c
  BY <1>2, AppendFacts
<1>4. \A i \in DOMAIN t : i # Len(s) + 1 => i \in DOMAIN s /\ t[i] = s[i]
  BY <1>3
<1>5. PICK e : e = PutCall(SetValue(p, k))
  OBVIOUS
<1>6. /\ \A i : i \in Making(d, p, k) <=> i \in DOMAIN s /\ s[i] = e
      /\ \A i : i \in Making(d, p, k)' <=> i \in DOMAIN t /\ t[i] = e
  BY <1>1, <1>2, <1>5 DEF Making
<1>7. \A i \in Making(d, p, k)' : i = Len(s) + 1 \/ i \in Making(d, p, k)
  BY <1>4, <1>6
<1>8. ASSUME c # e PROVE \A i \in Making(d, p, k)' : i \in Making(d, p, k)
  BY <1>3, <1>6, <1>7, <1>8
<1> QED
  BY <1>5, <1>7, <1>8 DEF NoneAdded, Once

LEMMA FreshLess ==
    ASSUME NEW p, NEW k, FreshAt(p, k), used \subseteq used',
           \A d \in Device : FewerPuts(d) /\ FewerChildren(d) /\ NoneAdded(d, p, k)
    PROVE  FreshAt(p, k)'
<1>1. \A d \in Device : Has(d, p, k)' => Has(d, p, k)
  BY HasLess
<1>2. \A d \in Device : /\ Making(d, p, k)' # {} => Making(d, p, k) # {}
                        /\ Once(d, p, k) => Once(d, p, k)'
  BY DEF NoneAdded
<1>3. \A d \in Device : Knows(d, p, k)' => Knows(d, p, k)
  BY <1>1, <1>2 DEF Knows
<1> QED
  BY <1>1, <1>2, <1>3 DEF FreshAt

\* The child is drawn, by a device that calls for it.
LEMMA FreshDrawn ==
    ASSUME NEW p \in Path, NEW k \in Key, FreshAt(p, k), <<p, k>> \notin used, <<p, k>> \in used',
           NEW d \in Device, \A e \in Device : FewerPuts(e) /\ FewerChildren(e),
           \A e \in Device : e # d => NoneAdded(e, p, k),
           Making(d, p, k) = {} => Once(d, p, k)'
    PROVE  FreshAt(p, k)'
<1>1. \A e \in Device : Making(e, p, k) = {} /\ ~Has(e, p, k)
  BY DEF FreshAt, Knows
<1>2. \A e \in Device : ~Has(e, p, k)'
  BY <1>1, HasLess
<1>3. \A e \in Device : e # d => Making(e, p, k)' = {}
  BY <1>1 DEF NoneAdded
<1>4. \A e \in Device : Once(e, p, k)'
  BY <1>1, <1>3 DEF Once
<1> QED
  BY <1>2, <1>3, <1>4 DEF FreshAt, Knows

\* The call that makes the child is run.
LEMMA FreshMade ==
    ASSUME NEW p \in Path, NEW k \in Key, FreshAt(p, k), UNCHANGED used,
           NEW d \in Device,
           \A e \in Device : e # d => FewerPuts(e) /\ FewerChildren(e),
           \A e \in Device : NoneAdded(e, p, k),
           Making(d, p, k) # {}, Making(d, p, k)' = {}
    PROVE  FreshAt(p, k)'
<1>1. \A e \in Device : e # d => (Has(e, p, k)' => Has(e, p, k))
  BY HasLess
<1>2. \A e \in Device : /\ Making(e, p, k)' # {} => Making(e, p, k) # {}
                        /\ Once(e, p, k) => Once(e, p, k)'
  BY DEF NoneAdded
<1>3. \A e \in Device : Knows(e, p, k)' => Knows(e, p, k)
  BY <1>1, <1>2 DEF Knows
<1> QED
  BY <1>1, <1>2, <1>3 DEF FreshAt

-----------------------------------------------------------------------------
\* What a step has to keep, but for the types of scope and queues.
ChildrenInv == FlightInv /\ Fresh /\ Kept /\ Undone

\* Steps that leave the puts, the server and the children's fates alone.
LEMMA QuietStep ==
    ASSUME ChildrenInv, FlightInv', \A d \in Device : Unmoved(d),
           UNCHANGED <<server, mine, gone>>,
           \/ /\ used \subseteq used'
              /\ \A d \in Device, p \in Path, k \in Key : NoneAdded(d, p, k)
           \/ Fresh'
    PROVE  ChildrenInv'
<1>1. \A d \in Device : ToGo(d) \subseteq OutstandingPuts(d)
  BY PutsInOrder DEF ChildrenInv
<1>2. ASSUME NEW d \in Device, NEW p \in Path, NEW k \in Key
      PROVE  KeptAt(d, p, k)' /\ UndoneAt(d, p, k)'
  <2>1. KeptAt(d, p, k) /\ UndoneAt(d, p, k) /\ Unmoved(d) /\ ToGo(d) \subseteq OutstandingPuts(d)
    BY <1>1 DEF ChildrenInv, Kept, Undone
  <2>2. KeptAt(d, p, k)'
    BY <2>1, KeptUnmoved
  <2>3. UndoneAt(d, p, k)'
    BY <2>1, UndoneUnmoved
  <2> QED
    BY <2>2, <2>3
<1>3. Fresh'
  <2>1. \A d \in Device : FewerPuts(d) /\ FewerChildren(d)
    BY FewerPutsFrom DEF FewerChildren
  <2>2. ASSUME used \subseteq used',
               \A d \in Device, p \in Path, k \in Key : NoneAdded(d, p, k),
               NEW p \in Path, NEW k \in Key
        PROVE  FreshAt(p, k)'
    BY <2>1, <2>2, FreshLess DEF ChildrenInv, Fresh
  <2> QED
    BY <2>2 DEF Fresh
<1> QED
  BY <1>2, <1>3 DEF ChildrenInv, Kept, Undone

\* A call is queued.
LEMMA CallStep ==
    ASSUME ChildrenInv, QueuesOK({"fetch"}, {}), NEW d \in Device, NEW c \in CallOf({"fetch"}),
           calls' = [calls EXCEPT ![d] = Append(@, c)],
           UNCHANGED <<pending, putCounter, netVars, mine, gone>>,
           \/ /\ UNCHANGED used
              /\ \A p \in Path, k \in Key : c # PutCall(SetValue(p, k))
           \/ \E p \in Path, k \in Key : /\ <<p, k>> \notin used
                                         /\ used' = used \cup {<<p, k>>}
                                         /\ c = PutCall(SetValue(p, k))
    PROVE  ChildrenInv' /\ calls' \in [Device -> Seq(CallOf({"fetch"}))]
<1>1. FlightInv' /\ \A e \in Device : Unmoved(e)
  BY NoEffect DEF ChildrenInv, netVars
<1>2. calls[d] \in Seq(CallOf({"fetch"})) /\ calls'[d] = Append(calls[d], c)
      /\ (\A e \in Device : e # d => calls'[e] = calls[e])
      /\ calls' \in [Device -> Seq(CallOf({"fetch"}))]
  BY DEF QueuesOK
<1>3. \A p \in Path, k \in Key :
          /\ c # PutCall(SetValue(p, k)) => NoneAdded(d, p, k)
          /\ Making(d, p, k) = {} => Once(d, p, k)'
          /\ \A e \in Device : e # d => NoneAdded(e, p, k)
  BY <1>2, CallAdded, NothingQueued
<1>4. CASE UNCHANGED used /\ \A p \in Path, k \in Key : c # PutCall(SetValue(p, k))
  BY <1>1, <1>2, <1>3, <1>4, QuietStep DEF netVars
<1>5. ASSUME NEW p \in Path, NEW k \in Key, <<p, k>> \notin used,
             used' = used \cup {<<p, k>>}, c = PutCall(SetValue(p, k))
      PROVE  Fresh'
  <2>1. \A e \in Device : FewerPuts(e) /\ FewerChildren(e)
    BY <1>1, FewerPutsFrom DEF FewerChildren
  <2>2. ASSUME NEW q \in Path, NEW j \in Key
        PROVE  FreshAt(q, j)'
    <3>1. FreshAt(q, j)
      BY DEF ChildrenInv, Fresh
    <3>2. CASE q = p /\ j = k
      BY <3>1, <3>2, <2>1, <1>3, <1>5, FreshDrawn
    <3>3. CASE q # p \/ j # k
      <4>1. c # PutCall(SetValue(q, j))
        BY <1>5, <3>3 DEF PutCall, SetValue
      <4>2. used \subseteq used'
        BY <1>5
      <4> QED
        BY <4>1, <4>2, <3>1, <2>1, <1>3, FreshLess
    <3> QED
      BY <3>2, <3>3
  <2> QED
    BY <2>2 DEF Fresh
<1>6. CASE \E p \in Path, k \in Key : /\ <<p, k>> \notin used
                                      /\ used' = used \cup {<<p, k>>}
                                      /\ c = PutCall(SetValue(p, k))
  BY <1>1, <1>2, <1>5, <1>6, QuietStep DEF netVars
<1> QED
  BY <1>2, <1>4, <1>6

\* Steps that touch neither the calls nor the keys that were drawn.
LEMMA FreshStays ==
    ASSUME ChildrenInv, UNCHANGED <<calls, used>>,
           \A d \in Device : FewerPuts(d) /\ FewerChildren(d)
    PROVE  Fresh'
<1>1. \A d \in Device, p \in Path, k \in Key : NoneAdded(d, p, k)
  BY NothingQueued
<1>2. ASSUME NEW p \in Path, NEW k \in Key
      PROVE  FreshAt(p, k)'
  BY <1>1, FreshLess DEF ChildrenInv, Fresh
<1> QED
  BY <1>2 DEF Fresh

\* The answer to a put is taken.
LEMMA AnsweredStep ==
    ASSUME ChildrenInv, NEW d \in Device, ReceiveAck(d), UNCHANGED used
    PROVE  ChildrenInv'
<1>1. /\ FlightInv' /\ (\A e \in Device : e # d => Unmoved(e)) /\ Answered(d)
      /\ UNCHANGED <<server, mine, gone>>
  BY ReceiveAckEffect DEF ChildrenInv
<1>2. \A e \in Device : ToGo(e) \subseteq OutstandingPuts(e)
  BY PutsInOrder DEF ChildrenInv
<1>3. ASSUME NEW e \in Device, NEW p \in Path, NEW k \in Key
      PROVE  KeptAt(e, p, k)' /\ UndoneAt(e, p, k)'
  <2>1. KeptAt(e, p, k) /\ UndoneAt(e, p, k) /\ FlightInv
    BY DEF ChildrenInv, Kept, Undone
  <2>2. CASE e = d
    BY <1>1, <2>1, <2>2, KeptAnswered, UndoneAnswered
  <2>3. CASE e # d
    BY <1>1, <1>2, <2>1, <2>3, KeptUnmoved, UndoneUnmoved
  <2> QED
    BY <2>2, <2>3
<1>4. Fresh'
  BY <1>1, FreshStays, FewerPutsFrom DEF ReceiveAck, FewerChildren
<1> QED
  BY <1>1, <1>3, <1>4 DEF ChildrenInv, Kept, Undone

\* The connection is lost, or there is a new one.
LEMMA StartsOverStep ==
    ASSUME ChildrenInv, NEW d \in Device, Disconnect(d) \/ Reconnect(d), UNCHANGED used
    PROVE  ChildrenInv'
<1>1. /\ FlightInv' /\ (\A e \in Device : e # d => Unmoved(e)) /\ StartsOver(d)
      /\ UNCHANGED <<server, mine, gone>>
  BY DisconnectEffect, ReconnectEffect DEF ChildrenInv
<1>2. \A e \in Device : ToGo(e) \subseteq OutstandingPuts(e)
  BY PutsInOrder DEF ChildrenInv
<1>3. ASSUME NEW e \in Device, NEW p \in Path, NEW k \in Key
      PROVE  KeptAt(e, p, k)' /\ UndoneAt(e, p, k)'
  <2>1. KeptAt(e, p, k) /\ UndoneAt(e, p, k)
    BY DEF ChildrenInv, Kept, Undone
  <2>2. CASE e = d
    BY <1>1, <1>2, <2>1, <2>2, KeptOver, UndoneOver
  <2>3. CASE e # d
    BY <1>1, <1>2, <2>1, <2>3, KeptUnmoved, UndoneUnmoved
  <2> QED
    BY <2>2, <2>3
<1>4. Fresh'
  <2>1. UNCHANGED calls
    BY DEF Disconnect, Reconnect, clientVars
  <2> QED
    BY <1>1, <2>1, FreshStays, FewerPutsFrom DEF FewerChildren
<1> QED
  BY <1>1, <1>3, <1>4 DEF ChildrenInv, Kept, Undone

\* The process dies.
LEMMA KilledStep ==
    ASSUME ChildrenInv, QueuesOK({"fetch"}, {}), NEW d \in Device, Killed(d), UNCHANGED used
    PROVE  ChildrenInv'
<1>1. /\ FlightInv' /\ (\A e \in Device : e # d => Unmoved(e)) /\ Forgotten(d)
      /\ mine' = [mine EXCEPT ![d] = {}] /\ gone' = [gone EXCEPT ![d] = {}]
      /\ UNCHANGED server
  BY KilledEffect DEF ChildrenInv
<1>2. \A e \in Device : ToGo(e) \subseteq OutstandingPuts(e)
  BY PutsInOrder DEF ChildrenInv
<1>3. /\ mine'[d] = {} /\ gone'[d] = {}
      /\ \A e \in Device : e # d => mine'[e] = mine[e] /\ gone'[e] = gone[e]
  BY <1>1 DEF ChildrenInv, FlightInv
<1>4. ASSUME NEW e \in Device, NEW p \in Path, NEW k \in Key
      PROVE  KeptAt(e, p, k)' /\ UndoneAt(e, p, k)'
  <2>1. KeptAt(e, p, k) /\ UndoneAt(e, p, k)
    BY DEF ChildrenInv, Kept, Undone
  <2>2. CASE e = d
    BY <1>3, <2>2 DEF KeptAt, UndoneAt
  <2>3. CASE e # d
    BY <1>1, <1>2, <1>3, <2>1, <2>3, KeptUnmoved, UndoneUnmoved
  <2> QED
    BY <2>2, <2>3
<1>5. Fresh'
  <2>1. \A e \in Device : FewerPuts(e) /\ FewerChildren(e)
    BY <1>1, <1>3, FewerPutsFrom DEF FewerChildren
  <2>2. calls'[d] = << >> /\ \A e \in Device : e # d => calls'[e] = calls[e]
    BY DEF Killed, QueuesOK
  <2>3. ASSUME NEW p \in Path, NEW k \in Key, NEW e \in Device
        PROVE  NoneAdded(e, p, k)
    <3>1. CASE e = d
      <4>1. Making(e, p, k)' = {}
        BY <2>2, <3>1 DEF Making
      <4> QED
        BY <4>1 DEF NoneAdded, Once
    <3>2. CASE e # d
      BY <2>2, <3>2, NothingQueued
    <3> QED
      BY <3>1, <3>2
  <2>4. ASSUME NEW p \in Path, NEW k \in Key
        PROVE  FreshAt(p, k)'
    BY <2>1, <2>3, FreshLess DEF ChildrenInv, Fresh
  <2> QED
    BY <2>4 DEF Fresh
<1> QED
  BY <1>1, <1>4, <1>5 DEF ChildrenInv, Kept, Undone

\* The server does a put.
LEMMA ServerPutStep ==
    ASSUME ChildrenInv, NEW d \in Device, ServerPut(d), UNCHANGED used
    PROVE  ChildrenInv'
<1>1. /\ FlightInv' /\ (\A e \in Device : e # d => Unmoved(e)) /\ UNCHANGED gone
  BY ServerPutEffect DEF ChildrenInv
<1>2. PICK w \in Write :
        /\ Handled(d, w)
        /\ server' = [server EXCEPT ![w.path] = Applied(w, server[w.path])]
        /\ mine' = [e \in Device |-> IF e = d THEN mine[e] ELSE mine[e] \ Removed(w)]
  BY ServerPutEffect DEF ChildrenInv
<1>3. \A e \in Device : ToGo(e) \subseteq OutstandingPuts(e)
  BY PutsInOrder DEF ChildrenInv
<1>4. mine'[d] = mine[d] /\ \A e \in Device : e # d => mine'[e] = mine[e] \ Removed(w)
  BY <1>2
<1>5. ASSUME NEW p \in Path, NEW k \in Key
      PROVE  w = SetValue(p, k) => Has(d, p, k)
  BY <1>2, <1>3 DEF Handled, Has
<1>6. ASSUME NEW e \in Device, NEW p \in Path, NEW k \in Key
      PROVE  KeptAt(e, p, k)' /\ UndoneAt(e, p, k)'
  <2>1. KeptAt(e, p, k) /\ UndoneAt(e, p, k) /\ FreshAt(p, k) /\ FlightInv
    BY DEF ChildrenInv, Kept, Undone, Fresh
  <2>2. CASE e = d
    BY <1>1, <1>2, <1>4, <2>1, <2>2, KeptHandled, UndoneHandled
  <2>3. CASE e # d
    <3>1. /\ Removes(w, p, k) <=> <<p, k>> \in Removed(w)
          /\ Removes(w, p, k) => k \notin server'[p]
          /\ w # SetValue(p, k) /\ ~Removes(w, p, k) => (k \in server'[p] <=> k \in server[p])
          /\ w = SetValue(p, k) => k \in server'[p]
      BY <1>2, <2>1, RemovesFacts, ServerWrites DEF FlightInv
    <3>2. <<p, k>> \in gone[e] => w # SetValue(p, k)
      BY <1>5, <2>1, <2>3 DEF FreshAt, Knows, Has
    <3>3. KeptAt(e, p, k)'
      BY <1>1, <1>3, <1>4, <2>1, <2>3, <3>1, KeptUnmoved
    <3>4. UndoneAt(e, p, k)'
      BY <1>1, <1>3, <2>1, <2>3, <3>1, <3>2, UndoneUnmoved
    <3> QED
      BY <3>3, <3>4
  <2> QED
    BY <2>2, <2>3
<1>7. Fresh'
  <2>1. UNCHANGED calls
    BY DEF ServerPut, clientVars
  <2> QED
    BY <1>1, <1>2, <1>4, <2>1, FreshStays, FewerPutsFrom DEF FewerChildren
<1> QED
  BY <1>1, <1>6, <1>7 DEF ChildrenInv, Kept, Undone

\* The server refuses a put.
LEMMA ServerDenyStep ==
    ASSUME ChildrenInv, NEW d \in Device, ServerDeny(d), UNCHANGED used
    PROVE  ChildrenInv'
<1>1. /\ FlightInv' /\ (\A e \in Device : e # d => Unmoved(e)) /\ UNCHANGED server
  BY ServerDenyEffect DEF ChildrenInv
<1>2. PICK w \in Write :
        /\ Handled(d, w)
        /\ mine' = [mine EXCEPT ![d] = @ \ {<<w.path, w.key>>}]
        /\ gone' = [gone EXCEPT ![d] = @ \ Removed(w)]
  BY ServerDenyEffect DEF ChildrenInv
<1>3. \A e \in Device : ToGo(e) \subseteq OutstandingPuts(e)
  BY PutsInOrder DEF ChildrenInv
<1>4. /\ mine'[d] = mine[d] \ {<<w.path, w.key>>} /\ gone'[d] = gone[d] \ Removed(w)
      /\ \A e \in Device : e # d => mine'[e] = mine[e] /\ gone'[e] = gone[e]
  BY <1>2 DEF ChildrenInv, FlightInv
<1>5. ASSUME NEW e \in Device, NEW p \in Path, NEW k \in Key
      PROVE  KeptAt(e, p, k)' /\ UndoneAt(e, p, k)'
  <2>1. KeptAt(e, p, k) /\ UndoneAt(e, p, k) /\ FlightInv
    BY DEF ChildrenInv, Kept, Undone
  <2>2. CASE e = d
    BY <1>1, <1>2, <1>4, <2>1, <2>2, KeptHandled, UndoneHandled
  <2>3. CASE e # d
    BY <1>1, <1>3, <1>4, <2>1, <2>3, KeptUnmoved, UndoneUnmoved
  <2> QED
    BY <2>2, <2>3
<1>6. Fresh'
  <2>1. UNCHANGED calls
    BY DEF ServerDeny, clientVars
  <2> QED
    BY <1>1, <1>2, <1>4, <2>1, FreshStays, FewerPutsFrom DEF FewerChildren
<1> QED
  BY <1>1, <1>5, <1>6 DEF ChildrenInv, Kept, Undone

\* The client makes a put.
LEMMA RunPutStep ==
    ASSUME ChildrenInv, QueuesOK({"fetch"}, {}), NEW d \in Device, RunPut(d), UNCHANGED used
    PROVE  ChildrenInv'
<1>1. CallIsOK(d) /\ FlightInv
  BY CallsAreOK DEF ChildrenInv
<1>2. PICK w \in Write :
        /\ w = Head(calls[d]).write /\ FlightInv' /\ (\A e \in Device : e # d => Unmoved(e))
        /\ Entered(d, w) /\ RecordWrite(d, w) /\ UNCHANGED server
  BY <1>1, RunPutEffect
<1>3. \A e \in Device : e # d => mine'[e] = mine[e] /\ gone'[e] = gone[e]
  BY <1>1, <1>2 DEF RecordWrite, FlightInv
<1>4. \A e \in Device : ToGo(e) \subseteq OutstandingPuts(e)
  BY PutsInOrder DEF ChildrenInv
<1>5. /\ calls[d] \in Seq(CallOf({"fetch"})) /\ calls[d] # << >> /\ calls'[d] = Tail(calls[d])
      /\ \A e \in Device : e # d => calls'[e] = calls[e]
  BY DEF RunPut, QueuesOK
<1>6. \A p \in Path, k \in Key :
          /\ NoneAdded(d, p, k)
          /\ Head(calls[d]) = PutCall(SetValue(p, k)) =>
                Making(d, p, k) # {} /\ (Once(d, p, k) => Making(d, p, k)' = {})
  BY <1>5, CallTaken
<1>7. Head(calls[d]) = PutCall(w)
  <2>1. Head(calls[d]) \in CallOf({"fetch"})
    BY ONLY <1>5
  <2>2. Head(calls[d]).call = "put"
    BY DEF RunPut
  <2> QED
    BY <2>1, <2>2, <1>2 DEF CallOf, PutCall
<1>8. \A p \in Path, k \in Key : w = SetValue(p, k) => Making(d, p, k) # {}
  BY <1>6, <1>7
<1>9. ASSUME NEW p \in Path, NEW k \in Key
      PROVE  w = SetValue(p, k) => <<p, k>> \notin gone[d]
  BY <1>8 DEF ChildrenInv, Fresh, FreshAt, Has
<1>10. ASSUME NEW e \in Device, NEW p \in Path, NEW k \in Key
       PROVE  KeptAt(e, p, k)' /\ UndoneAt(e, p, k)'
  <2>1. KeptAt(e, p, k) /\ UndoneAt(e, p, k)
    BY DEF ChildrenInv, Kept, Undone
  <2>2. CASE e = d
    <3>1. KeptAt(e, p, k)'
      BY <1>1, <1>2, <2>1, <2>2, KeptEntered
    <3>2. UndoneAt(e, p, k)'
      BY <1>1, <1>2, <1>9, <2>1, <2>2, UndoneEntered
    <3> QED
      BY <3>1, <3>2
  <2>3. CASE e # d
    BY <1>2, <1>3, <1>4, <2>1, <2>3, KeptUnmoved, UndoneUnmoved
  <2> QED
    BY <2>2, <2>3
<1>11. \A e \in Device : e # d => FewerPuts(e) /\ FewerChildren(e)
  BY <1>2, <1>3, FewerPutsFrom DEF FewerChildren
<1>12. \A e \in Device, p \in Path, k \in Key : NoneAdded(e, p, k)
  BY <1>5, <1>6, NothingQueued
<1>13. ASSUME NEW p \in Path, NEW k \in Key
       PROVE  FreshAt(p, k)'
  <2>1. FreshAt(p, k)
    BY DEF ChildrenInv, Fresh
  <2>2. CASE w = SetValue(p, k)
    <3>1. Making(d, p, k) # {} /\ Making(d, p, k)' = {}
      BY <2>1, <2>2, <1>6, <1>7 DEF FreshAt
    <3> QED
      BY <2>1, <3>1, <1>11, <1>12, FreshMade
  <2>3. CASE w # SetValue(p, k)
    <3>1. Has(d, p, k)' => Has(d, p, k)
      <4>1. PICK n \in Nat :
              /\ OutstandingPuts(d)' = OutstandingPuts(d) \cup {n}
              /\ pending'[d][n].write = w
              /\ \A i \in OutstandingPuts(d) : pending'[d][i].write = pending[d][i].write
        BY <1>2 DEF Entered
      <4>2. <<p, k>> \in mine'[d] \cup gone'[d] => <<p, k>> \in mine[d] \cup gone[d]
        <5>1. /\ mine'[d] = IF w.op = "set" THEN mine[d] \cup {<<w.path, w.key>>}
                                            ELSE mine[d] \ Removed(w)
              /\ gone'[d] = gone[d] \cup (mine[d] \cap Removed(w))
          BY <1>1, <1>2 DEF RecordWrite, FlightInv
        <5>2. w.op = "set" => <<w.path, w.key>> # <<p, k>>
          BY <2>3, RemovesFacts
        <5> QED
          BY <5>1, <5>2
      <4> QED
        BY <4>1, <4>2, <2>3 DEF Has
    <3>2. \A e \in Device : Has(e, p, k)' => Has(e, p, k)
      BY <3>1, <1>11, HasLess
    <3>3. \A e \in Device : /\ Making(e, p, k)' # {} => Making(e, p, k) # {}
                            /\ Once(e, p, k) => Once(e, p, k)'
      BY <1>12 DEF NoneAdded
    <3>4. \A e \in Device : Knows(e, p, k)' => Knows(e, p, k)
      BY <3>2, <3>3 DEF Knows
    <3> QED
      BY <2>1, <3>2, <3>3, <3>4 DEF FreshAt
  <2> QED
    BY <2>2, <2>3
<1> QED
  BY <1>2, <1>10, <1>13 DEF ChildrenInv, Kept, Undone, Fresh

\* The client runs another call, takes data, or the server answers a listen.
LEMMA QuietSteps ==
    ASSUME ChildrenInv, QueuesOK({"fetch"}, {}), NEW d \in Device, UNCHANGED used,
           \/ RunObserve(d) \/ RunRemoveObserver(d) \/ ReceiveListened(d) \/ ReceiveData(d)
           \/ ServerListen(d) \/ ServerUnlisten(d)
    PROVE  ChildrenInv'
<1>1. CallIsOK(d) /\ FlightInv
  BY CallsAreOK DEF ChildrenInv
<1>2. FlightInv' /\ (\A e \in Device : Unmoved(e)) /\ UNCHANGED <<server, mine, gone>>
  BY <1>1, RunObserveEffect, RunRemoveObserverEffect, ReceiveListenedEffect,
     ReceiveDataEffect, ServerListenEffect, ServerUnlistenEffect
<1>3. \A e \in Device, p \in Path, k \in Key : NoneAdded(e, p, k)
  <2>1. CASE RunObserve(d) \/ RunRemoveObserver(d)
    <3>1. /\ calls[d] \in Seq(CallOf({"fetch"})) /\ calls[d] # << >> /\ calls'[d] = Tail(calls[d])
          /\ \A e \in Device : e # d => calls'[e] = calls[e]
      BY <2>1 DEF RunObserve, RunRemoveObserver, QueuesOK
    <3> QED
      BY <3>1, CallTaken, NothingQueued
  <2>2. CASE ReceiveListened(d) \/ ReceiveData(d) \/ ServerListen(d) \/ ServerUnlisten(d)
    <3>1. UNCHANGED calls
      BY <2>2 DEF ReceiveListened, ReceiveData, ServerListen, ServerUnlisten, clientVars
    <3> QED
      BY <3>1, NothingQueued
  <2> QED
    BY <2>1, <2>2
<1> QED
  BY <1>2, <1>3, QuietStep

-----------------------------------------------------------------------------
LEMMA DatabaseInvInit == Init => DatabaseInv
<1> SUFFICES ASSUME Init PROVE DatabaseInv
  OBVIOUS
<1>1. ScopeOK
  BY ScopesAssumption DEF Init, ScopeOK
<1>2. \A d \in Device : /\ pending[d] = << >> /\ connected[d] = FALSE /\ up[d] = << >>
                        /\ down[d] = << >> /\ putCounter[d] = 1 /\ calls[d] = << >>
                        /\ mine[d] = {} /\ gone[d] = {}
  BY DEF Init, DBInit
<1>3. \A d \in Device : IsTable(pending[d]) /\ OutstandingPuts(d) = {}
  BY <1>2 DEF IsTable, OutstandingPuts
<1>4. ASSUME NEW d \in Device
      PROVE  Connection(d)
  <2>1. InFlight(pending[d], connected[d], up[d], down[d])
    BY <1>2, NothingInFlight
  <2>2. \A i \in DOMAIN pending[d] : i < putCounter[d]
    BY <1>2
  <2>3. \A p \in Path : d \notin listeners[p]
    BY DEF Init, DBInit
  <2> QED
    BY <1>3, <2>1, <2>2, <2>3 DEF Connection
<1>5. FlightInv
  <2>1. << >> \in Seq(UpMsg) /\ << >> \in Seq(DownMsg)
    OBVIOUS
  <2> QED
    BY <1>4, <2>1 DEF Init, DBInit, FlightInv
<1>6. QueuesOK({"fetch"}, {})
  <2>1. << >> \in Seq(CallOf({"fetch"})) /\ << >> \in Seq({"fetch"})
        /\ << >> \in Seq(EventOf({"fetch"}) \cup {})
    OBVIOUS
  <2> QED
    BY <2>1 DEF Init, DBInit, QueuesOK
<1>7. Fresh
  <2>1. \A d \in Device, p \in Path, k \in Key : Making(d, p, k) = {} /\ ~Has(d, p, k)
    BY <1>2, <1>3 DEF Making, Has
  <2> QED
    BY <2>1 DEF Fresh, FreshAt, Knows, Once
<1>8. Kept /\ Undone
  BY <1>2 DEF Kept, Undone, KeptAt, UndoneAt
<1> QED
  BY <1>1, <1>5, <1>6, <1>7, <1>8 DEF DatabaseInv

\* One step per action of Next.
LEMMA DatabaseInvNext == DatabaseInv /\ [Next]_vars => DatabaseInv'
<1> SUFFICES ASSUME DatabaseInv, [Next]_vars PROVE DatabaseInv'
  OBVIOUS
<1>0. ChildrenInv /\ QueuesOK({"fetch"}, {}) /\ ScopeOK
  BY DEF DatabaseInv, ChildrenInv
<1>1. CASE UNCHANGED vars
  <2>1. /\ UNCHANGED <<pending, putCounter, connected, up, down, server, listeners, mine, gone>>
        /\ UNCHANGED <<calls, waiting, mainq, used, scope>>
    BY <1>1 DEF vars, dbVars, clientVars, netVars
  <2>2. FlightInv' /\ \A e \in Device : Unmoved(e)
    BY <2>1, NoEffect DEF DatabaseInv
  <2>3. \A e \in Device, p \in Path, k \in Key : NoneAdded(e, p, k)
    BY <2>1, NothingQueued
  <2>4. ChildrenInv'
    BY <1>0, <2>1, <2>2, <2>3, QuietStep
  <2> QED
    BY <1>0, <2>1, <2>4 DEF DatabaseInv, ChildrenInv, ScopeOK, QueuesOK
<1>2. ASSUME NEW d \in Device, NEW c \in CallOf({"fetch"}), Call(d, c),
             \/ /\ UNCHANGED used
                /\ \A p \in Path, k \in Key : c # PutCall(SetValue(p, k))
             \/ \E p \in Path, k \in Key : /\ <<p, k>> \notin used
                                           /\ used' = used \cup {<<p, k>>}
                                           /\ c = PutCall(SetValue(p, k))
      PROVE  DatabaseInv'
  <2>1. /\ calls' = [calls EXCEPT ![d] = Append(@, c)]
        /\ UNCHANGED <<pending, putCounter, netVars, mine, gone>>
        /\ UNCHANGED <<waiting, mainq, scope>>
    BY <1>2 DEF Call
  <2>2. ChildrenInv' /\ calls' \in [Device -> Seq(CallOf({"fetch"}))]
    BY <1>0, <1>2, <2>1, CallStep
  <2> QED
    BY <1>0, <2>1, <2>2 DEF DatabaseInv, ChildrenInv, ScopeOK, QueuesOK
<1>3. ASSUME NEW d \in scope.devices, NEW p \in scope.paths, NEW k \in Key, Create(d, p, k)
      PROVE  DatabaseInv'
  <2>1. d \in Device /\ p \in Path
    BY <1>0 DEF ScopeOK
  <2>2. PutCall(SetValue(p, k)) \in CallOf({"fetch"})
    BY <2>1 DEF CallOf, PutCall, Write, SetValue
  <2> QED
    BY <1>2, <1>3, <2>1, <2>2 DEF Create
<1>4. ASSUME NEW d \in scope.devices, NEW p \in scope.paths, NEW k \in Key, Delete(d, p, k)
      PROVE  DatabaseInv'
  <2>1. d \in Device /\ p \in Path
    BY <1>0 DEF ScopeOK
  <2>2. /\ PutCall(RemoveValue(p, k)) \in CallOf({"fetch"})
        /\ \A q \in Path, j \in Key : PutCall(RemoveValue(p, k)) # PutCall(SetValue(q, j))
    BY <2>1 DEF CallOf, PutCall, Write, SetValue, RemoveValue
  <2> QED
    BY <1>2, <1>4, <2>1, <2>2 DEF Delete
<1>5. ASSUME NEW d \in scope.devices, NEW p \in scope.paths, Clear(d, p)
      PROVE  DatabaseInv'
  <2>1. d \in Device /\ p \in Path
    BY <1>0 DEF ScopeOK
  <2>2. /\ PutCall(ClearPath(p)) \in CallOf({"fetch"})
        /\ \A q \in Path, j \in Key : PutCall(ClearPath(p)) # PutCall(SetValue(q, j))
    BY <2>1 DEF CallOf, PutCall, Write, SetValue, ClearPath
  <2> QED
    BY <1>2, <1>5, <2>1, <2>2 DEF Clear
<1>6. ASSUME NEW d \in scope.devices, NEW p \in scope.paths, Fetch(d, p)
      PROVE  DatabaseInv'
  <2>1. d \in Device /\ p \in Path
    BY <1>0 DEF ScopeOK
  <2>2. /\ ObserveCall(p, "fetch") \in CallOf({"fetch"})
        /\ \A q \in Path, j \in Key : ObserveCall(p, "fetch") # PutCall(SetValue(q, j))
    BY <2>1 DEF CallOf, ObserveCall, PutCall
  <2> QED
    BY <1>2, <1>6, <2>1, <2>2 DEF Fetch
<1>7. ASSUME NEW d \in scope.devices, RunEvent(d)
      PROVE  DatabaseInv'
  <2>1. d \in Device
    BY <1>0 DEF ScopeOK
  <2>2. PICK p : p = Head(mainq[d]).path
    OBVIOUS
  <2>3. /\ mainq[d] # << >> /\ calls' = [calls EXCEPT ![d] = Append(@, RemoveObserverCall(p))]
        /\ mainq' = [mainq EXCEPT ![d] = Tail(@)]
        /\ UNCHANGED <<pending, putCounter, netVars, mine, gone>>
        /\ UNCHANGED <<waiting, scope, used>>
    BY <1>7, <2>2 DEF RunEvent
  <2>4. p \in Path /\ Tail(mainq[d]) \in Seq(EventOf({"fetch"}) \cup {})
    <3>1. Head(mainq[d]) \in EventOf({"fetch"}) \cup {}
      BY <1>0, <2>1, <2>3 DEF QueuesOK
    <3>2. p \in Path
      BY <2>2, <3>1 DEF EventOf
    <3> QED
      BY <1>0, <2>1, <2>3, <3>2 DEF QueuesOK
  <2>5. /\ RemoveObserverCall(p) \in CallOf({"fetch"})
        /\ \A q \in Path, j \in Key : RemoveObserverCall(p) # PutCall(SetValue(q, j))
    BY <2>4 DEF CallOf, RemoveObserverCall, PutCall
  <2>6. ChildrenInv' /\ calls' \in [Device -> Seq(CallOf({"fetch"}))]
    BY <1>0, <2>1, <2>3, <2>5, CallStep
  <2>7. mainq' \in [Device -> Seq(EventOf({"fetch"}) \cup {})]
    BY <1>0, <2>1, <2>3, <2>4 DEF QueuesOK
  <2> QED
    BY <1>0, <2>3, <2>6, <2>7 DEF DatabaseInv, ChildrenInv, ScopeOK, QueuesOK
<1>8. ASSUME NEW d \in scope.devices, Serve(d)
      PROVE  DatabaseInv'
  <2>1. d \in Device /\ UNCHANGED <<used, scope>> /\ ClientStep(d)
    BY <1>0, <1>8 DEF ScopeOK, Serve
  <2>2. QueuesOK({"fetch"}, {})'
    BY <1>0, <2>1, ClientTypes DEF ChildrenInv
  <2>3. ChildrenInv'
    BY <1>0, <2>1, RunPutStep, QuietSteps, AnsweredStep DEF ClientStep
  <2> QED
    BY <1>0, <2>1, <2>2, <2>3 DEF DatabaseInv, ChildrenInv, ScopeOK
<1>9. ASSUME NEW d \in scope.devices, Remote(d)
      PROVE  DatabaseInv'
  <2>1. d \in Device /\ UNCHANGED <<used, scope>> /\ ServerStep(d)
    BY <1>0, <1>9 DEF ScopeOK, Remote
  <2>2. UNCHANGED <<calls, waiting, mainq>>
    BY <2>1 DEF ServerStep, ServerListen, ServerUnlisten, ServerPut, ServerDeny, clientVars
  <2>3. ChildrenInv'
    BY <1>0, <2>1, ServerPutStep, ServerDenyStep, QuietSteps DEF ServerStep
  <2> QED
    BY <1>0, <2>1, <2>2, <2>3 DEF DatabaseInv, ChildrenInv, ScopeOK, QueuesOK
<1>10. ASSUME NEW d \in scope.devices, Drop(d) \/ Connect(d)
       PROVE  DatabaseInv'
  <2>1. d \in Device /\ UNCHANGED <<used, scope>> /\ (Disconnect(d) \/ Reconnect(d))
    BY <1>0, <1>10 DEF ScopeOK, Drop, Connect
  <2>2. UNCHANGED <<calls, waiting, mainq>>
    BY <2>1 DEF Disconnect, Reconnect, clientVars
  <2>3. ChildrenInv'
    BY <1>0, <2>1, StartsOverStep
  <2> QED
    BY <1>0, <2>1, <2>2, <2>3 DEF DatabaseInv, ChildrenInv, ScopeOK, QueuesOK
<1>11. ASSUME NEW d \in scope.devices, Kill(d)
       PROVE  DatabaseInv'
  <2>1. d \in Device /\ UNCHANGED <<used, scope>> /\ Killed(d)
    BY <1>0, <1>11 DEF ScopeOK, Kill
  <2>2. QueuesOK({"fetch"}, {})'
    <3>1. << >> \in Seq(CallOf({"fetch"})) /\ << >> \in Seq({"fetch"})
          /\ << >> \in Seq(EventOf({"fetch"}) \cup {})
      OBVIOUS
    <3> QED
      BY <1>0, <2>1, <3>1 DEF Killed, QueuesOK
  <2>3. ChildrenInv'
    BY <1>0, <2>1, KilledStep
  <2> QED
    BY <1>0, <2>1, <2>2, <2>3 DEF DatabaseInv, ChildrenInv, ScopeOK
<1> QED
  BY <1>1, <1>3, <1>4, <1>5, <1>6, <1>7, <1>8, <1>9, <1>10, <1>11 DEF Next

-----------------------------------------------------------------------------
\* What the inductive invariant says of the two properties.
LEMMA DatabaseInvImplies == DatabaseInv => NoLostWrite /\ RemovedStaysRemoved
<1> SUFFICES ASSUME DatabaseInv PROVE NoLostWrite /\ RemovedStaysRemoved
  OBVIOUS
<1>1. ASSUME NEW d \in Device
      PROVE  /\ ToGo(d) \subseteq DOMAIN pending[d]
             /\ \A i \in ToGo(d) : pending[d][i] \in Entry /\ pending[d][i].status = "sent"
  BY PutsInOrder DEF DatabaseInv, OutstandingPuts
<1>2. NoLostWrite
  <2>1. SUFFICES ASSUME NEW d \in Device, NEW p \in Path, NEW k \in Key,
                        <<p, k>> \in mine[d], k \notin server[p]
                 PROVE  \E i \in DOMAIN pending[d] :
                           pending[d][i] = [write |-> SetValue(p, k), status |-> "sent"]
    BY DEF NoLostWrite
  <2>2. PICK i \in ToGo(d) : pending[d][i].write = SetValue(p, k)
    BY <2>1 DEF DatabaseInv, Kept, KeptAt
  <2>3. pending[d][i] = [write |-> SetValue(p, k), status |-> "sent"]
    BY <1>1, <2>2 DEF Entry
  <2> QED
    BY <1>1, <2>3
<1>3. RemovedStaysRemoved
  BY <1>1 DEF RemovedStaysRemoved, DatabaseInv, Undone, UndoneAt, Removes
<1> QED
  BY <1>2, <1>3

\* A child that a device made and nobody removed is on the server, or its put is
\* outstanding: FPersistentConnection keeps a put until it is answered and sends all of
\* them again, in order, on every new connection.
THEOREM NoWriteIsLost == Spec => []NoLostWrite
<1>1. DatabaseInv => NoLostWrite
  BY DatabaseInvImplies
<1> QED
  BY <1>1, DatabaseInvInit, DatabaseInvNext, PTL DEF Spec

\* A child that its creator removed is off the server while no removal of it is
\* outstanding: the resent puts come in the order they were made, the removal last.
THEOREM RemovalsWin == Spec => []RemovedStaysRemoved
<1>1. DatabaseInv => RemovedStaysRemoved
  BY DatabaseInvImplies
<1> QED
  BY <1>1, DatabaseInvInit, DatabaseInvNext, PTL DEF Spec
=============================================================================
