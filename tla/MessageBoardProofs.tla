------------------------- MODULE MessageBoardProofs -------------------------
(***************************************************************************)
(* ZipR on one phone keeps its tables, its arrays and its data in step,    *)
(* whatever the user taps, other phones write and the network loses, for   *)
(* any posts, comments, accounts and bounds of the scopes.                 *)
(***************************************************************************)
EXTENDS MessageBoard, RealtimeDatabaseProofs

\* What a fetch carries: the closure's name or the number of a detail screen.
Request == {"board", "created", "activity"} \cup Nat

\* The blocks of the main queue that are not the client's events.
Block ==
    [block : {"reload"}, table : {"board", "activity"}]
      \cup [block : {"reloadComments"}, screen : Nat]

-----------------------------------------------------------------------------
(***************************************************************************)
(* Counting the members of a queue.                                        *)
(***************************************************************************)

Hits(q, S) == {i \in DOMAIN q : q[i] \in S}
Num(q, S) == Cardinality(Hits(q, S))

LEMMA HitsFinite ==
    ASSUME NEW T, NEW q \in Seq(T), NEW S
    PROVE  IsFiniteSet(Hits(q, S)) /\ Num(q, S) \in Nat
<1>1. Len(q) \in Nat /\ DOMAIN q = 1 .. Len(q)
  OBVIOUS
<1>2. IsFiniteSet(1 .. Len(q))
  BY <1>1, FS_Interval
<1>3. Hits(q, S) \in SUBSET (1 .. Len(q))
  BY <1>1 DEF Hits
<1>4. IsFiniteSet(Hits(q, S))
  BY ONLY <1>2, <1>3, FS_Subset
<1> QED
  BY <1>4, FS_CardinalityType DEF Num

\* Two sets of positions, one k further back than the other, are equally large.
Shifted(X, Y, k) ==
    /\ k \in Int /\ IsFiniteSet(X)
    /\ \A i \in X : i + k \in Y /\ i \in Int
    /\ \A i \in Y : i \in Int /\ i - k \in X

LEMMA ShiftedAlike ==
    ASSUME NEW X, NEW Y, NEW k, Shifted(X, Y, k)
    PROVE  Cardinality(Y) = Cardinality(X)
<1>0. /\ k \in Int /\ IsFiniteSet(X)
      /\ \A i \in X : i + k \in Y /\ i \in Int
      /\ \A i \in Y : i \in Int /\ i - k \in X
  BY DEF Shifted
<1> DEFINE f == [i \in X |-> i + k]
<1>1. f \in [X -> Y]
  BY <1>0
<1>2. \A i, j \in X : f[i] = f[j] => i = j
  BY <1>0
<1>3. \A y \in Y : \E i \in X : f[i] = y
  <2>1. SUFFICES ASSUME NEW y \in Y
                 PROVE  \E i \in X : f[i] = y
    OBVIOUS
  <2>2. y - k \in X /\ f[y - k] = y
    BY <1>0
  <2> QED
    BY <2>2
<1>4. f \in Bijection(X, Y)
  BY <1>1, <1>2, <1>3 DEF Bijection, Injection, Surjection, IsInjective
<1>5. ExistsBijection(X, Y)
  BY <1>4 DEF ExistsBijection
<1> QED
  BY ONLY <1>5, <1>0, FS_Bijection

LEMMA NumEmpty ==
    ASSUME NEW S
    PROVE  Num(<< >>, S) = 0
<1>1. Hits(<< >>, S) = {}
  BY DEF Hits
<1> QED
  BY <1>1, FS_EmptySet DEF Num

LEMMA NumTail ==
    ASSUME NEW T, NEW q \in Seq(T), q # << >>, NEW S
    PROVE  Num(Tail(q), S) = Num(q, S) - IF Head(q) \in S THEN 1 ELSE 0
<1>1. PICK t : t = Tail(q)
  OBVIOUS
<1>2. /\ t \in Seq(T) /\ Len(q) \in Nat /\ Len(q) >= 1
      /\ DOMAIN q = 1 .. Len(q) /\ DOMAIN t = 1 .. Len(q) - 1
      /\ \A i \in 1 .. Len(q) - 1 : t[i] = q[i + 1]
      /\ Head(q) = q[1]
  BY <1>1, TailFacts
<1>3. PICK X : X = Hits(t, S)
  OBVIOUS
<1>4. PICK Y : Y = Hits(q, S) \ {1}
  OBVIOUS
<1>5. IsFiniteSet(X) /\ IsFiniteSet(Hits(q, S)) /\ Num(q, S) \in Nat
  BY <1>2, <1>3, HitsFinite
<1>6. \A i \in X : i + 1 \in Y /\ i \in Int
  BY <1>2, <1>3, <1>4 DEF Hits
<1>7. \A i \in Y : i \in Int /\ i - 1 \in X
  <2>1. SUFFICES ASSUME NEW i \in Y
                 PROVE  i \in Int /\ i - 1 \in X
    OBVIOUS
  <2>2. i \in 1 .. Len(q) /\ i # 1 /\ q[i] \in S
    BY <1>2, <1>4 DEF Hits
  <2>3. i - 1 \in 1 .. Len(q) - 1 /\ (i - 1) + 1 = i
    BY <2>2, <1>2
  <2>4. t[i - 1] = q[i]
    BY <2>3, <1>2
  <2> QED
    BY <2>2, <2>3, <2>4, <1>2, <1>3 DEF Hits
<1>8. Cardinality(Y) = Cardinality(X)
  <2>1. Shifted(X, Y, 1)
    BY <1>5, <1>6, <1>7 DEF Shifted
  <2> QED
    BY ONLY <2>1, ShiftedAlike
<1>9. Cardinality(Y) = IF 1 \in Hits(q, S) THEN Cardinality(Hits(q, S)) - 1
                                           ELSE Cardinality(Hits(q, S))
  BY <1>4, <1>5, FS_RemoveElement
<1>10. 1 \in Hits(q, S) <=> Head(q) \in S
  BY <1>2 DEF Hits
<1>11. Num(t, S) = Cardinality(X) /\ Num(q, S) = Cardinality(Hits(q, S))
  BY <1>3 DEF Num
<1> QED
  BY <1>1, <1>5, <1>8, <1>9, <1>10, <1>11

LEMMA NumTailIn ==
    ASSUME NEW T, NEW q \in Seq(T), q # << >>, NEW S, Head(q) \in S
    PROVE  Num(Tail(q), S) = Num(q, S) - 1 /\ Num(Tail(q), S) \in Nat /\ Num(q, S) \in Nat
<1>1. Num(Tail(q), S) = Num(q, S) - IF Head(q) \in S THEN 1 ELSE 0
  BY NumTail
<1>2. Tail(q) \in Seq(T)
  OBVIOUS
<1>3. Num(Tail(q), S) \in Nat /\ Num(q, S) \in Nat
  BY <1>2, HitsFinite
<1> QED
  BY <1>1, <1>3

LEMMA NumTailOut ==
    ASSUME NEW T, NEW q \in Seq(T), q # << >>, NEW S, Head(q) \notin S
    PROVE  Num(Tail(q), S) = Num(q, S)
<1>1. Num(Tail(q), S) = Num(q, S) - IF Head(q) \in S THEN 1 ELSE 0
  BY NumTail
<1>2. Num(q, S) \in Nat
  BY HitsFinite
<1> QED
  BY <1>1, <1>2

LEMMA NumConcat ==
    ASSUME NEW T, NEW q \in Seq(T), NEW r \in Seq(T), NEW S
    PROVE  Num(q \o r, S) = Num(q, S) + Num(r, S)
<1>1. PICK t : t = q \o r
  OBVIOUS
<1>2. /\ t \in Seq(T) /\ Len(q) \in Nat /\ Len(r) \in Nat
      /\ DOMAIN q = 1 .. Len(q) /\ DOMAIN r = 1 .. Len(r)
      /\ DOMAIN t = 1 .. Len(q) + Len(r)
      /\ \A i \in 1 .. Len(q) : t[i] = q[i]
      /\ \A i \in 1 .. Len(r) : t[Len(q) + i] = r[i]
  BY <1>1, ConcatFacts
<1>3. PICK X : X = Hits(r, S)
  OBVIOUS
<1>4. PICK Y : Y = {i \in Hits(t, S) : i > Len(q)}
  OBVIOUS
<1>5. PICK Z : Z = Hits(q, S)
  OBVIOUS
<1>6. IsFiniteSet(X) /\ IsFiniteSet(Z) /\ IsFiniteSet(Hits(t, S))
      /\ Cardinality(X) \in Nat /\ Cardinality(Z) \in Nat
  BY <1>2, <1>3, <1>5, HitsFinite DEF Num
<1>7. PICK n \in Nat : n = Len(q)
  BY <1>2
<1>8. \A i \in X : i + n \in Y /\ i \in Int
  <2>1. SUFFICES ASSUME NEW i \in X
                 PROVE  i + n \in Y /\ i \in Int
    OBVIOUS
  <2>2. i \in 1 .. Len(r) /\ r[i] \in S
    BY <1>2, <1>3 DEF Hits
  <2>3. i + n \in 1 .. Len(q) + Len(r) /\ i + n > Len(q) /\ i + n = Len(q) + i
    BY <2>2, <1>2, <1>7
  <2>4. t[i + n] = r[i]
    BY <2>2, <2>3, <1>2
  <2> QED
    BY <2>2, <2>3, <2>4, <1>2, <1>4 DEF Hits
<1>9. \A i \in Y : i \in Int /\ i - n \in X
  <2>1. SUFFICES ASSUME NEW i \in Y
                 PROVE  i \in Int /\ i - n \in X
    OBVIOUS
  <2>2. i \in 1 .. Len(q) + Len(r) /\ t[i] \in S /\ i > Len(q)
    BY <1>2, <1>4 DEF Hits
  <2>3. i - n \in 1 .. Len(r) /\ Len(q) + (i - n) = i
    BY <2>2, <1>2, <1>7
  <2>4. t[i] = r[i - n]
    BY <2>3, <1>2
  <2> QED
    BY <2>2, <2>3, <2>4, <1>2, <1>3 DEF Hits
<1>10. Y \in SUBSET Hits(t, S)
  BY <1>4
<1>11. IsFiniteSet(Y)
  BY ONLY <1>6, <1>10, FS_Subset
<1>12. Cardinality(Y) = Cardinality(X)
  <2>1. Shifted(X, Y, n)
    BY <1>6, <1>7, <1>8, <1>9 DEF Shifted
  <2> QED
    BY ONLY <2>1, ShiftedAlike
<1>13. Hits(t, S) = Z \cup Y
  <2>1. ASSUME NEW i \in Z
        PROVE  i \in Hits(t, S)
    BY <1>2, <1>5 DEF Hits
  <2>2. ASSUME NEW i \in Hits(t, S), ~(i > Len(q))
        PROVE  i \in Z
    <3>1. i \in 1 .. Len(q) + Len(r) /\ t[i] \in S
      BY <1>2 DEF Hits
    <3>2. i \in 1 .. Len(q)
      BY <2>2, <3>1, <1>2
    <3> QED
      BY <3>1, <3>2, <1>2, <1>5 DEF Hits
  <2>3. \A i : i \in Hits(t, S) <=> i \in Z \/ i \in Y
    BY <2>1, <2>2, <1>4
  <2> QED
    BY ONLY <2>3
<1>14. Z \cap Y = {}
  BY <1>2, <1>4, <1>5 DEF Hits
<1>15. Cardinality(Hits(t, S)) = Cardinality(Z) + Cardinality(Y)
  <2>1. Cardinality(Z \cup Y) = Cardinality(Z) + Cardinality(Y) - Cardinality(Z \cap Y)
    BY ONLY <1>6, <1>11, FS_Union
  <2>2. Cardinality(Z \cap Y) = 0
    BY <1>14, FS_EmptySet
  <2>3. Cardinality(Y) \in Nat
    BY <1>6, <1>12
  <2> QED
    BY <2>1, <2>2, <2>3, <1>6, <1>13
<1> QED
  BY <1>1, <1>3, <1>5, <1>12, <1>15 DEF Num

LEMMA NumAll ==
    ASSUME NEW T, NEW q \in Seq(T), NEW S, \A i \in DOMAIN q : q[i] \in S
    PROVE  Num(q, S) = Len(q)
<1>1. Len(q) \in Nat /\ DOMAIN q = 1 .. Len(q)
  OBVIOUS
<1>2. Hits(q, S) = 1 .. Len(q)
  BY <1>1 DEF Hits
<1> QED
  BY <1>1, <1>2, FS_Interval DEF Num

LEMMA NumNone ==
    ASSUME NEW q, NEW S, \A i \in DOMAIN q : q[i] \notin S
    PROVE  Num(q, S) = 0
<1>1. Hits(q, S) = {}
  BY DEF Hits
<1> QED
  BY <1>1, FS_EmptySet DEF Num

LEMMA NumAppend ==
    ASSUME NEW T, NEW q \in Seq(T), NEW x \in T, NEW S
    PROVE  Num(Append(q, x), S) = Num(q, S) + IF x \in S THEN 1 ELSE 0
<1>1. <<x>> \in Seq(T) /\ Append(q, x) = q \o <<x>> /\ Len(<<x>>) = 1
  OBVIOUS
<1>2. Num(Append(q, x), S) = Num(q, S) + Num(<<x>>, S)
  <2>1. PICK r \in Seq(T) : r = <<x>>
    BY <1>1
  <2>2. Num(q \o r, S) = Num(q, S) + Num(r, S)
    BY NumConcat
  <2> QED
    BY <2>1, <2>2, <1>1
<1>3. \A i \in DOMAIN <<x>> : <<x>>[i] = x
  OBVIOUS
<1>4. Num(q, S) \in Nat
  BY HitsFinite
<1>5. CASE x \in S
  <2>1. \A i \in DOMAIN <<x>> : <<x>>[i] \in S
    BY <1>3, <1>5
  <2>2. Num(<<x>>, S) = 1
    BY <2>1, <1>1, NumAll
  <2> QED
    BY <2>2, <1>2, <1>5
<1>6. CASE x \notin S
  <2>1. \A i \in DOMAIN <<x>> : <<x>>[i] \notin S
    BY <1>3, <1>6
  <2>2. Num(<<x>>, S) = 0
    BY <2>1, NumNone
  <2> QED
    BY <2>2, <1>2, <1>4, <1>6
<1> QED
  BY <1>5, <1>6

-----------------------------------------------------------------------------
(***************************************************************************)
(* The observers of a view.                                                *)
(***************************************************************************)

\* The value events of a path.
ValuesAt(p) == [block : {"value"}, path : {p}, request : Request, snap : SUBSET Key]

\* An observer is still waiting, or its event is on its way to the app, or the call
\* that removes it is on its way back.
Owed(O, W, Q, C, p) ==
    O[p] >= Len(W[p]) + Num(Q, ValuesAt(p)) + Num(C, {RemoveObserverCall(p)})

\* The numbers of observers O, those that wait W, the main queue Q and the calls C.
Observing(O, W, Q, C) ==
    /\ O \in [Path -> Nat] /\ W \in [Path -> Seq(Request)]
    /\ Q \in Seq(EventOf(Request) \cup Block) /\ C \in Seq(CallOf(Request))
    /\ \A p \in Path : Owed(O, W, Q, C, p)

LEMMA ObservingFacts ==
    ASSUME NEW O, NEW W, NEW Q, NEW C, Observing(O, W, Q, C), NEW p \in Path
    PROVE  /\ O[p] \in Nat /\ W[p] \in Seq(Request) /\ Len(W[p]) \in Nat
           /\ Num(Q, ValuesAt(p)) \in Nat /\ Num(C, {RemoveObserverCall(p)}) \in Nat
           /\ O[p] >= Len(W[p]) + Num(Q, ValuesAt(p)) + Num(C, {RemoveObserverCall(p)})
           /\ O[p] >= Len(W[p])
<1>1. /\ O[p] \in Nat /\ W[p] \in Seq(Request) /\ Owed(O, W, Q, C, p)
      /\ Q \in Seq(EventOf(Request) \cup Block) /\ C \in Seq(CallOf(Request))
  BY DEF Observing
<1>2. Num(Q, ValuesAt(p)) \in Nat /\ Num(C, {RemoveObserverCall(p)}) \in Nat
  BY <1>1, HitsFinite
<1>3. Len(W[p]) \in Nat
  BY <1>1
<1> QED
  BY <1>1, <1>2, <1>3 DEF Owed

\* A call is taken that removes no observer.
LEMMA ObservingCallTaken ==
    ASSUME NEW O, NEW W, NEW Q, NEW C, Observing(O, W, Q, C), C # << >>,
           Head(C).call # "removeObserver"
    PROVE  Observing(O, W, Q, Tail(C))
<1>1. C \in Seq(CallOf(Request)) /\ Tail(C) \in Seq(CallOf(Request))
  BY DEF Observing
<1>2. ASSUME NEW p \in Path PROVE Owed(O, W, Q, Tail(C), p)
  <2>1. Head(C) \notin {RemoveObserverCall(p)}
    BY DEF RemoveObserverCall
  <2>2. Num(Tail(C), {RemoveObserverCall(p)}) = Num(C, {RemoveObserverCall(p)})
    BY <1>1, <2>1, NumTailOut
  <2> QED
    BY <2>2 DEF Owed, Observing
<1> QED
  BY <1>1, <1>2 DEF Observing

\* An observer is removed.
LEMMA ObservingRemoved ==
    ASSUME NEW O, NEW W, NEW Q, NEW C, Observing(O, W, Q, C), C # << >>, NEW p \in Path,
           Head(C) = RemoveObserverCall(p)
    PROVE  O[p] >= 1 /\ Observing([O EXCEPT ![p] = @ - 1], W, Q, Tail(C))
<1>1. C \in Seq(CallOf(Request)) /\ Tail(C) \in Seq(CallOf(Request))
  BY DEF Observing
<1>2. /\ Num(Tail(C), {RemoveObserverCall(p)}) = Num(C, {RemoveObserverCall(p)}) - 1
      /\ Num(Tail(C), {RemoveObserverCall(p)}) \in Nat
  BY <1>1, NumTailIn
<1>3. /\ O[p] \in Nat /\ Len(W[p]) \in Nat
      /\ Num(Q, ValuesAt(p)) \in Nat /\ Num(C, {RemoveObserverCall(p)}) \in Nat
      /\ O[p] >= Len(W[p]) + Num(Q, ValuesAt(p)) + Num(C, {RemoveObserverCall(p)})
  BY ObservingFacts
<1>4. O[p] >= 1 /\ O[p] - 1 \in Nat
  BY ONLY <1>2, <1>3
<1>5. PICK N : N = [O EXCEPT ![p] = O[p] - 1]
  OBVIOUS
<1>6. N \in [Path -> Nat] /\ N[p] = O[p] - 1 /\ \A q \in Path : q # p => N[q] = O[q]
  BY <1>4, <1>5 DEF Observing
<1>7. ASSUME NEW q \in Path PROVE Owed(N, W, Q, Tail(C), q)
  <2>1. CASE q = p
    <3>1. N[p] >= Len(W[p]) + Num(Q, ValuesAt(p)) + Num(Tail(C), {RemoveObserverCall(p)})
      BY ONLY <1>2, <1>3, <1>6, SMTT(20)
    <3> QED
      BY <3>1, <2>1 DEF Owed
  <2>2. CASE q # p
    <3>1. Head(C) \notin {RemoveObserverCall(q)}
      BY <2>2 DEF RemoveObserverCall
    <3>2. Num(Tail(C), {RemoveObserverCall(q)}) = Num(C, {RemoveObserverCall(q)})
      BY <1>1, <3>1, NumTailOut
    <3> QED
      BY <2>2, <3>2, <1>6 DEF Owed, Observing
  <2> QED
    BY <2>1, <2>2
<1> QED
  BY <1>1, <1>4, <1>5, <1>6, <1>7 DEF Observing

\* The events of the observers that wait.
LEMMA EventsNum ==
    ASSUME NEW p \in Path, NEW q \in Path, NEW r \in Seq(Request), NEW S \in SUBSET Key
    PROVE  /\ Events(p, r, S) \in Seq(EventOf(Request) \cup Block)
           /\ Num(Events(p, r, S), ValuesAt(q)) = IF p = q THEN Len(r) ELSE 0
<1>1. PICK E : E = Events(p, r, S)
  OBVIOUS
<1>2. /\ Len(r) \in Nat /\ DOMAIN r = 1 .. Len(r) /\ \A i \in DOMAIN r : r[i] \in Request
  OBVIOUS
<1>3. \A x \in Request : /\ Event(p, x, S) \in ValuesAt(p) /\ Event(p, x, S) \in EventOf(Request)
                         /\ p # q => Event(p, x, S) \notin ValuesAt(q)
  BY DEF Event, ValuesAt, EventOf
<1>4. E = [i \in 1 .. Len(r) |-> Event(p, r[i], S)]
  BY <1>1, <1>2 DEF Events
<1>5. \A i \in 1 .. Len(r) : E[i] = Event(p, r[i], S) /\ r[i] \in Request
  BY <1>2, <1>4
<1>6. /\ DOMAIN E = 1 .. Len(r)
      /\ \A i \in 1 .. Len(r) : E[i] \in EventOf(Request) \cup Block
  BY <1>3, <1>4, <1>5
<1>7. E \in Seq(EventOf(Request) \cup Block) /\ Len(E) = Len(r)
  BY <1>2, <1>4, <1>6
<1>8. CASE p = q
  <2>1. \A i \in DOMAIN E : E[i] \in ValuesAt(q)
    BY <1>3, <1>5, <1>6, <1>8
  <2> QED
    BY <2>1, <1>1, <1>7, <1>8, NumAll
<1>9. CASE p # q
  <2>1. \A i \in DOMAIN E : E[i] \notin ValuesAt(q)
    BY <1>3, <1>5, <1>6, <1>9
  <2> QED
    BY <2>1, <1>1, <1>7, <1>9, NumNone
<1> QED
  BY <1>8, <1>9

\* They are raised.
LEMMA ObservingRaised ==
    ASSUME NEW O, NEW W, NEW Q, NEW C, Observing(O, W, Q, C), NEW p \in Path,
           NEW S \in SUBSET Key
    PROVE  Observing(O, [W EXCEPT ![p] = << >>], Q \o Events(p, W[p], S), C)
<1>1. Q \in Seq(EventOf(Request) \cup Block) /\ W[p] \in Seq(Request)
  BY DEF Observing
<1>2. PICK E : E = Events(p, W[p], S)
  OBVIOUS
<1>3. /\ E \in Seq(EventOf(Request) \cup Block)
      /\ \A q \in Path : Num(E, ValuesAt(q)) = IF p = q THEN Len(W[p]) ELSE 0
  BY <1>1, <1>2, EventsNum
<1>4. PICK X : X = [W EXCEPT ![p] = << >>]
  OBVIOUS
<1>5. X \in [Path -> Seq(Request)] /\ Len(X[p]) = 0 /\ \A q \in Path : q # p => X[q] = W[q]
  BY <1>4 DEF Observing
<1>6. Q \o E \in Seq(EventOf(Request) \cup Block)
  BY <1>1, <1>3
<1>7. ASSUME NEW q \in Path PROVE Owed(O, X, Q \o E, C, q)
  <2>1. Num(Q \o E, ValuesAt(q)) = Num(Q, ValuesAt(q)) + Num(E, ValuesAt(q))
    BY <1>1, <1>3, NumConcat
  <2>2. /\ O[q] \in Nat /\ Len(W[q]) \in Nat
        /\ Num(Q, ValuesAt(q)) \in Nat /\ Num(C, {RemoveObserverCall(q)}) \in Nat
        /\ O[q] >= Len(W[q]) + Num(Q, ValuesAt(q)) + Num(C, {RemoveObserverCall(q)})
    BY ObservingFacts
  <2>3. Len(X[q]) + Num(E, ValuesAt(q)) = Len(W[q]) /\ Len(X[q]) \in Nat /\ Num(E, ValuesAt(q)) \in Nat
    BY <1>3, <1>5, <2>2
  <2>4. O[q] >= Len(X[q]) + Num(Q \o E, ValuesAt(q)) + Num(C, {RemoveObserverCall(q)})
    BY ONLY <2>1, <2>2, <2>3
  <2> QED
    BY <2>4 DEF Owed
<1> QED
  BY <1>2, <1>4, <1>5, <1>6, <1>7 DEF Observing

\* Steps that leave the numbers of observers alone and owe no more than before.
OwedAlike(Q, C, R, D) ==
    /\ R \in Seq(EventOf(Request) \cup Block) /\ D \in Seq(CallOf(Request))
    /\ \A p \in Path : Num(R, ValuesAt(p)) + Num(D, {RemoveObserverCall(p)})
                            = Num(Q, ValuesAt(p)) + Num(C, {RemoveObserverCall(p)})

LEMMA ObservingLess ==
    ASSUME NEW O, NEW W, NEW Q, NEW C, Observing(O, W, Q, C), NEW R, NEW D,
           OwedAlike(Q, C, R, D)
    PROVE  Observing(O, W, R, D)
<1>1. ASSUME NEW p \in Path PROVE Owed(O, W, R, D, p)
  <2>1. /\ O[p] \in Nat /\ Len(W[p]) \in Nat
        /\ Num(Q, ValuesAt(p)) \in Nat /\ Num(C, {RemoveObserverCall(p)}) \in Nat
        /\ O[p] >= Len(W[p]) + Num(Q, ValuesAt(p)) + Num(C, {RemoveObserverCall(p)})
    BY ObservingFacts
  <2>2. Num(R, ValuesAt(p)) \in Nat /\ Num(D, {RemoveObserverCall(p)}) \in Nat
    BY HitsFinite DEF OwedAlike
  <2>3. Num(R, ValuesAt(p)) + Num(D, {RemoveObserverCall(p)})
           = Num(Q, ValuesAt(p)) + Num(C, {RemoveObserverCall(p)})
    BY DEF OwedAlike
  <2>4. O[p] >= Len(W[p]) + Num(R, ValuesAt(p)) + Num(D, {RemoveObserverCall(p)})
    BY ONLY <2>1, <2>2, <2>3
  <2> QED
    BY <2>4 DEF Owed
<1> QED
  BY <1>1 DEF Observing, OwedAlike

\* Calls are added that remove no observer.
LEMMA ObservingCalls ==
    ASSUME NEW O, NEW W, NEW Q, NEW C, Observing(O, W, Q, C), NEW x \in Seq(CallOf(Request)),
           \A i \in DOMAIN x : x[i].call # "removeObserver"
    PROVE  Observing(O, W, Q, C \o x)
<1>1. C \in Seq(CallOf(Request)) /\ C \o x \in Seq(CallOf(Request))
      /\ Q \in Seq(EventOf(Request) \cup Block)
  BY DEF Observing
<1>2. ASSUME NEW p \in Path
      PROVE  Num(C \o x, {RemoveObserverCall(p)}) = Num(C, {RemoveObserverCall(p)})
  <2>1. \A i \in DOMAIN x : x[i] \notin {RemoveObserverCall(p)}
    BY DEF RemoveObserverCall
  <2>2. Num(x, {RemoveObserverCall(p)}) = 0
    BY <2>1, NumNone
  <2>3. Num(C \o x, {RemoveObserverCall(p)})
           = Num(C, {RemoveObserverCall(p)}) + Num(x, {RemoveObserverCall(p)})
    BY <1>1, NumConcat
  <2>4. Num(C, {RemoveObserverCall(p)}) \in Nat
    BY <1>1, HitsFinite
  <2> QED
    BY ONLY <2>2, <2>3, <2>4
<1> QED
  <2>1. OwedAlike(Q, C, Q, C \o x)
    BY <1>1, <1>2 DEF OwedAlike
  <2> QED
    BY <2>1, ObservingLess

\* A new observer waits, or gets its event at once.
LEMMA ObservingWaits ==
    ASSUME NEW O, NEW W, NEW Q, NEW C, Observing(O, W, Q, C), NEW p \in Path,
           NEW r \in Request
    PROVE  Observing([O EXCEPT ![p] = @ + 1], [W EXCEPT ![p] = Append(@, r)], Q, C)
<1>1. O \in [Path -> Nat] /\ W \in [Path -> Seq(Request)]
  BY DEF Observing
<1>2. PICK N : N = [O EXCEPT ![p] = O[p] + 1]
  OBVIOUS
<1>3. N \in [Path -> Nat] /\ N[p] = O[p] + 1 /\ \A q \in Path : q # p => N[q] = O[q]
  BY <1>1, <1>2
<1>4. PICK X : X = [W EXCEPT ![p] = Append(W[p], r)]
  OBVIOUS
<1>5. Append(W[p], r) \in Seq(Request) /\ Len(Append(W[p], r)) = Len(W[p]) + 1
  BY <1>1
<1>6. X \in [Path -> Seq(Request)] /\ X[p] = Append(W[p], r) /\ \A q \in Path : q # p => X[q] = W[q]
  BY <1>1, <1>4, <1>5
<1>7. ASSUME NEW q \in Path PROVE Owed(N, X, Q, C, q)
  <2>1. CASE q # p
    BY <2>1, <1>3, <1>6 DEF Owed, Observing
  <2>2. CASE q = p
    <3>1. /\ O[p] \in Nat /\ Len(W[p]) \in Nat
          /\ Num(Q, ValuesAt(p)) \in Nat /\ Num(C, {RemoveObserverCall(p)}) \in Nat
          /\ O[p] >= Len(W[p]) + Num(Q, ValuesAt(p)) + Num(C, {RemoveObserverCall(p)})
      BY ObservingFacts
    <3>2. N[p] = O[p] + 1 /\ Len(X[p]) = Len(W[p]) + 1
      BY <1>3, <1>5, <1>6
    <3>3. N[p] >= Len(X[p]) + Num(Q, ValuesAt(p)) + Num(C, {RemoveObserverCall(p)})
      BY ONLY <3>1, <3>2
    <3> QED
      BY <2>2, <3>3 DEF Owed
  <2> QED
    BY <2>1, <2>2
<1> QED
  BY <1>2, <1>3, <1>4, <1>6, <1>7 DEF Observing

LEMMA ObservingAnswered ==
    ASSUME NEW O, NEW W, NEW Q, NEW C, Observing(O, W, Q, C), NEW p \in Path,
           NEW r \in Request, NEW S \in SUBSET Key
    PROVE  Observing([O EXCEPT ![p] = @ + 1], W, Append(Q, Event(p, r, S)), C)
<1>1. PICK e : e = Event(p, r, S)
  OBVIOUS
<1>2. /\ e \in EventOf(Request) \cup Block /\ e \in ValuesAt(p)
      /\ \A q \in Path : q # p => e \notin ValuesAt(q)
  BY <1>1 DEF Event, EventOf, ValuesAt
<1>3. O \in [Path -> Nat] /\ Q \in Seq(EventOf(Request) \cup Block)
      /\ Append(Q, e) \in Seq(EventOf(Request) \cup Block)
  BY <1>2 DEF Observing
<1>4. PICK N : N = [O EXCEPT ![p] = O[p] + 1]
  OBVIOUS
<1>5. N \in [Path -> Nat] /\ N[p] = O[p] + 1 /\ \A q \in Path : q # p => N[q] = O[q]
  BY <1>3, <1>4
<1>6. ASSUME NEW q \in Path PROVE Owed(N, W, Append(Q, e), C, q)
  <2>1. Num(Append(Q, e), ValuesAt(q)) = Num(Q, ValuesAt(q)) + IF e \in ValuesAt(q) THEN 1 ELSE 0
    BY <1>2, <1>3, NumAppend
  <2>2. /\ O[q] \in Nat /\ Len(W[q]) \in Nat
        /\ Num(Q, ValuesAt(q)) \in Nat /\ Num(C, {RemoveObserverCall(q)}) \in Nat
        /\ O[q] >= Len(W[q]) + Num(Q, ValuesAt(q)) + Num(C, {RemoveObserverCall(q)})
    BY ObservingFacts
  <2>3. N[q] = O[q] + IF e \in ValuesAt(q) THEN 1 ELSE 0
    BY <1>2, <1>5, <2>2
  <2>4. N[q] >= Len(W[q]) + Num(Append(Q, e), ValuesAt(q)) + Num(C, {RemoveObserverCall(q)})
    BY ONLY <2>1, <2>2, <2>3
  <2> QED
    BY <2>4 DEF Owed
<1> QED
  BY <1>1, <1>3, <1>4, <1>5, <1>6 DEF Observing

\* The app runs a value event, which calls for its observer to be removed,
LEMMA ObservingValueRun ==
    ASSUME NEW O, NEW W, NEW Q, NEW C, Observing(O, W, Q, C), NEW p \in Path, Q # << >>,
           Head(Q) \in ValuesAt(p), NEW m \in Seq(Block)
    PROVE  Observing(O, W, Tail(Q) \o m, C \o <<RemoveObserverCall(p)>>)
<1>1. PICK c : c = RemoveObserverCall(p)
  OBVIOUS
<1>2. c \in CallOf(Request) /\ \A q \in Path : q # p => c # RemoveObserverCall(q)
  BY <1>1 DEF CallOf, RemoveObserverCall
<1>3. /\ Q \in Seq(EventOf(Request) \cup Block) /\ C \in Seq(CallOf(Request))
      /\ Tail(Q) \in Seq(EventOf(Request) \cup Block) /\ m \in Seq(EventOf(Request) \cup Block)
      /\ Tail(Q) \o m \in Seq(EventOf(Request) \cup Block)
      /\ C \o <<c>> = Append(C, c) /\ Append(C, c) \in Seq(CallOf(Request))
  BY <1>2 DEF Observing
<1>4. ASSUME NEW q \in Path
      PROVE  Num(Tail(Q) \o m, ValuesAt(q)) + Num(Append(C, c), {RemoveObserverCall(q)})
                = Num(Q, ValuesAt(q)) + Num(C, {RemoveObserverCall(q)})
  <2>1. \A i \in DOMAIN m : m[i] \notin ValuesAt(q)
    BY DEF Block, ValuesAt
  <2>2. Num(m, ValuesAt(q)) = 0
    BY <2>1, NumNone
  <2>3. Num(Tail(Q) \o m, ValuesAt(q)) = Num(Tail(Q), ValuesAt(q)) + Num(m, ValuesAt(q))
    <3>1. PICK t \in Seq(EventOf(Request) \cup Block) : t = Tail(Q)
      BY <1>3
    <3>2. Num(t \o m, ValuesAt(q)) = Num(t, ValuesAt(q)) + Num(m, ValuesAt(q))
      BY ONLY <1>3, <3>1, NumConcat, ZenonT(40)
    <3> QED
      BY <3>1, <3>2
  <2>4. Num(Tail(Q), ValuesAt(q)) \in Nat /\ Num(Q, ValuesAt(q)) \in Nat
        /\ Num(C, {RemoveObserverCall(q)}) \in Nat
    BY <1>3, HitsFinite
  <2>5. Num(Append(C, c), {RemoveObserverCall(q)})
           = Num(C, {RemoveObserverCall(q)}) + IF c \in {RemoveObserverCall(q)} THEN 1 ELSE 0
    BY <1>2, <1>3, NumAppend
  <2>6. Num(Tail(Q), ValuesAt(q)) = Num(Q, ValuesAt(q)) - IF Head(Q) \in ValuesAt(q) THEN 1 ELSE 0
    BY <1>3, NumTail
  <2>7. Head(Q) \in ValuesAt(q) <=> c \in {RemoveObserverCall(q)}
    BY <1>1, <1>2 DEF ValuesAt
  <2> QED
    BY ONLY <2>2, <2>3, <2>4, <2>5, <2>6, <2>7
<1>5. PICK R : R = Tail(Q) \o m
  OBVIOUS
<1>6. PICK D : D = Append(C, c)
  OBVIOUS
<1>7. OwedAlike(Q, C, R, D)
  BY <1>3, <1>4, <1>5, <1>6 DEF OwedAlike
<1>8. Observing(O, W, R, D)
  BY <1>7, ObservingLess
<1> QED
  BY <1>1, <1>3, <1>5, <1>6, <1>8

\* or another block.
LEMMA ObservingReloadRun ==
    ASSUME NEW O, NEW W, NEW Q, NEW C, Observing(O, W, Q, C), Q # << >>, Head(Q) \in Block
    PROVE  Observing(O, W, Tail(Q), C)
<1>1. Q \in Seq(EventOf(Request) \cup Block) /\ C \in Seq(CallOf(Request))
      /\ Tail(Q) \in Seq(EventOf(Request) \cup Block)
  BY DEF Observing
<1>2. ASSUME NEW p \in Path
      PROVE  Num(Tail(Q), ValuesAt(p)) = Num(Q, ValuesAt(p))
  <2>1. Head(Q) \notin ValuesAt(p)
    BY DEF ValuesAt, Block
  <2> QED
    BY <1>1, <2>1, NumTailOut
<1> QED
  <2>1. OwedAlike(Q, C, Tail(Q), C)
    BY <1>1, <1>2 DEF OwedAlike
  <2> QED
    BY <2>1, ObservingLess

-----------------------------------------------------------------------------
(***************************************************************************)
(* What is where.  S are the posts that have reached the write tree of the *)
(* phone or the server: what is read, shown or removed is one of them.     *)
(***************************************************************************)
CommentPaths == {CommentsPath(k) : k \in Post}

\* The children a path may have.
HomeOf(S, p) == IF p = PostsPath THEN S ELSE Comment

AppWrite(S) ==
    [op : {"set", "remove"}, path : {PostsPath}, key : S]
      \cup [op : {"set"}, path : CommentPaths, key : Comment]
      \cup [op : {"clear"}, path : {CommentsPath(k) : k \in S}, key : {NoKey}]

\* Others may also clear the comments of any post.
AnyWrite(S) == AppWrite(S) \cup [op : {"clear"}, path : CommentPaths, key : {NoKey}]

\* A queued call may make a post that has reached nothing yet.
AppCall(S) ==
    [call : {"put"}, write : AppWrite(S) \cup [op : {"set"}, path : {PostsPath}, key : Post]]
      \cup [call : {"observe"}, path : Path, request : Request]
      \cup [call : {"removeObserver"}, path : Path]

AppBlock(S) == {e \in EventOf(Request) : e.snap \subseteq HomeOf(S, e.path)} \cup Block

AppDown(S) ==
    [msg : {"ack"}, id : Nat, status : {"ok", "denied"}]
      \cup {m \in [msg : {"listened", "data"}, path : Path, snap : SUBSET Key] :
               m.snap \subseteq HomeOf(S, m.path)}

Shape(S) ==
    /\ S \subseteq Post
    /\ calls[Phone] \in Seq(AppCall(S))
    /\ mainq[Phone] \in Seq(AppBlock(S))
    /\ down[Phone] \in Seq(AppDown(S))
    /\ cache[Phone] \in [Path -> SUBSET Key]
    /\ \A p \in Path : cache[Phone][p] \subseteq HomeOf(S, p)
    /\ \A i \in DOMAIN pending[Phone] : pending[Phone][i].write \in AppWrite(S) /\ i >= 1
    /\ putCounter[Phone] >= 1
    /\ \A p \in Path : server[p] \subseteq HomeOf(S, p)

\* The phone is the one device.
LEMMA OnePhone == Device = {Phone} /\ Phone \in Device
BY DatabaseUse

LEMMA PathFacts ==
    /\ PostsPath \in Path /\ CommentPaths \subseteq Path /\ Path = {PostsPath} \cup CommentPaths
    /\ \A k \in Post : CommentsPath(k) \in CommentPaths
    /\ \A k : CommentsPath(k) # PostsPath
    /\ \A j, k : CommentsPath(j) = CommentsPath(k) => j = k
    /\ Post \subseteq Key /\ Comment \subseteq Key
<1>1. \A k : CommentsPath(k) # PostsPath
  BY DEF CommentsPath, PostsPath
<1>2. \A j, k : CommentsPath(j) = CommentsPath(k) => j = k
  BY DEF CommentsPath
<1> QED
  BY <1>1, <1>2, DatabaseUse DEF CommentPaths

LEMMA HomeFacts ==
    ASSUME NEW S, S \subseteq Post, NEW p \in Path
    PROVE  /\ HomeOf(S, p) \subseteq Key
           /\ \A T : S \subseteq T => HomeOf(S, p) \subseteq HomeOf(T, p)
BY PathFacts DEF HomeOf

LEMMA AppTypes ==
    ASSUME NEW S, S \subseteq Post
    PROVE  /\ AppWrite(S) \subseteq Write /\ AppCall(S) \subseteq CallOf(Request)
           /\ AppBlock(S) \subseteq EventOf(Request) \cup Block /\ AppDown(S) \subseteq DownMsg
           /\ AppWrite(S) \subseteq AnyWrite(S) /\ AnyWrite(S) \subseteq Write
<1>1. {CommentsPath(k) : k \in S} \subseteq CommentPaths
  BY DEF CommentPaths
<1>2. AppWrite(S) \subseteq Write /\ [op : {"set"}, path : {PostsPath}, key : Post] \subseteq Write
  BY <1>1, PathFacts DEF AppWrite, Write
<1>3. AppCall(S) \subseteq CallOf(Request)
  BY <1>2 DEF AppCall, CallOf
<1>4. AppWrite(S) \subseteq AnyWrite(S) /\ AnyWrite(S) \subseteq Write
  BY <1>2, PathFacts DEF AnyWrite, Write
<1> QED
  BY <1>2, <1>3, <1>4 DEF AppBlock, AppDown, DownMsg

LEMMA SeqGrows ==
    ASSUME NEW A, NEW B, A \subseteq B, NEW s \in Seq(A)
    PROVE  s \in Seq(B)
OBVIOUS

LEMMA AppGrows ==
    ASSUME NEW S, NEW T, S \subseteq T, T \subseteq Post
    PROVE  /\ AppWrite(S) \subseteq AppWrite(T) /\ AppCall(S) \subseteq AppCall(T)
           /\ AppBlock(S) \subseteq AppBlock(T) /\ AppDown(S) \subseteq AppDown(T)
<1>1. {CommentsPath(k) : k \in S} \subseteq {CommentsPath(k) : k \in T}
  OBVIOUS
<1>2. AppWrite(S) \subseteq AppWrite(T)
  BY <1>1 DEF AppWrite
<1>3. AppCall(S) \subseteq AppCall(T)
  BY <1>2 DEF AppCall
<1>4. \A p \in Path : HomeOf(S, p) \subseteq HomeOf(T, p)
  BY DEF HomeOf
<1>5. AppBlock(S) \subseteq AppBlock(T)
  BY <1>4 DEF AppBlock, EventOf
<1>6. AppDown(S) \subseteq AppDown(T)
  BY <1>4 DEF AppDown
<1> QED
  BY <1>2, <1>3, <1>5, <1>6

LEMMA ShapeGrows ==
    ASSUME NEW S, NEW T, S \subseteq T, T \subseteq Post, Shape(S)
    PROVE  Shape(T)
<1>1. \A p \in Path : HomeOf(S, p) \subseteq HomeOf(T, p)
  BY DEF HomeOf
<1>2. /\ AppWrite(S) \subseteq AppWrite(T) /\ AppCall(S) \subseteq AppCall(T)
      /\ AppBlock(S) \subseteq AppBlock(T) /\ AppDown(S) \subseteq AppDown(T)
  BY AppGrows
<1>3. /\ calls[Phone] \in Seq(AppCall(T)) /\ mainq[Phone] \in Seq(AppBlock(T))
      /\ down[Phone] \in Seq(AppDown(T))
  BY <1>2, SeqGrows DEF Shape
<1> QED
  BY <1>1, <1>2, <1>3 DEF Shape

\* What a view reports, and what a write leaves, belongs to its path.
LEMMA OverlayHome ==
    ASSUME NEW S, S \subseteq Post, NEW P, NEW p \in Path, NEW X, X \subseteq HomeOf(S, p),
           \A i \in DOMAIN P : P[i].write \in AppWrite(S)
    PROVE  Overlay(P, p, X) \in SUBSET Key /\ Overlay(P, p, X) \subseteq HomeOf(S, p)
<1>1. ASSUME NEW w \in AppWrite(S), NEW k, w.op = "set", Touches(w, p, k)
      PROVE  k \in HomeOf(S, p)
  BY <1>1, PathFacts DEF AppWrite, Touches, HomeOf, CommentPaths
<1> QED
  BY <1>1 DEF Overlay

LEMMA AppliedHome ==
    ASSUME NEW S, S \subseteq Post, NEW w \in AnyWrite(S), NEW X, X \subseteq HomeOf(S, w.path)
    PROVE  Applied(w, X) \subseteq HomeOf(S, w.path)
<1>1. w.op = "set" => w.key \in HomeOf(S, w.path)
  BY PathFacts DEF AnyWrite, AppWrite, HomeOf, CommentPaths
<1>2. w.op \in {"set", "remove", "clear"}
  BY DEF AnyWrite, AppWrite
<1> QED
  BY <1>1, <1>2 DEF Applied

-----------------------------------------------------------------------------
(***************************************************************************)
(* The views of the phone.                                                 *)
(***************************************************************************)

\* A filled view has observers, and none of them waits.
FilledOK(O, W, F) == F \subseteq Path /\ \A p \in F : O[p] > 0 /\ W[p] = << >>

\* A view that the server has to fill has a listen on its way, or the answer to one.
ListensOK(c, O, F, U, V) ==
    c => \A p \in Path :
            O[p] > 0 /\ p \notin F =>
                \/ \E i \in DOMAIN U : U[i] = ListenMsg(p)
                \/ \E i \in DOMAIN V : V[i].msg = "listened" /\ V[i].path = p

\* A fetch of the posts that has not come back to the app.
Fetching(W, Q, C) ==
    \/ \E i \in DOMAIN C : C[i].call = "observe" /\ C[i].path = PostsPath
    \/ W[PostsPath] # << >>
    \/ \E i \in DOMAIN Q : Q[i].block = "value" /\ Q[i].path = PostsPath

FetchingPosts == Fetching(waiting[Phone], mainq[Phone], calls[Phone])

Domains ==
    /\ DOMAIN calls = Device /\ DOMAIN waiting = Device /\ DOMAIN mainq = Device
    /\ DOMAIN observers = Device /\ DOMAIN cache = Device /\ DOMAIN filled = Device

Views ==
    /\ Observing(observers[Phone], waiting[Phone], mainq[Phone], calls[Phone])
    /\ FilledOK(observers[Phone], waiting[Phone], filled[Phone])
    /\ ListensOK(connected[Phone], observers[Phone], filled[Phone], up[Phone], down[Phone])

Core(S) == FlightInv /\ Domains /\ Views /\ Shape(S)

\* What the database does behind the app's back: a block that is on the main queue stays
\* there, and so does a fetch that is under way.
Behind ==
    /\ \A b : Contains(mainq[Phone], b) => Contains(mainq'[Phone], b)
    /\ FetchingPosts => FetchingPosts'

LEMMA AppendNotEmpty ==
    ASSUME NEW T, NEW s \in Seq(T), NEW x \in T
    PROVE  Append(s, x) \in Seq(T) /\ Append(s, x) # << >>
<1>1. Append(s, x) \in Seq(T) /\ Len(s) \in Nat /\ DOMAIN Append(s, x) = 1 .. Len(s) + 1
  BY AppendFacts
<1>2. 1 \in DOMAIN Append(s, x)
  BY <1>1
<1> QED
  BY <1>1, <1>2

LEMMA ContainsMore ==
    ASSUME NEW T, NEW q \in Seq(T), NEW r \in Seq(T), NEW b, Contains(q, b)
    PROVE  Contains(q \o r, b)
BY DEF Contains

LEMMA SentMore ==
    ASSUME NEW c, NEW O, NEW F, NEW U \in Seq(UpMsg), NEW V, ListensOK(c, O, F, U, V), NEW m \in UpMsg
    PROVE  ListensOK(c, O, F, Append(U, m), V)
<1>1. /\ Len(U) \in Nat /\ DOMAIN U = 1 .. Len(U) /\ DOMAIN Append(U, m) = 1 .. Len(U) + 1
      /\ \A i \in 1 .. Len(U) : Append(U, m)[i] = U[i]
  BY AppendFacts
<1>2. \A i \in DOMAIN U : i \in DOMAIN Append(U, m) /\ Append(U, m)[i] = U[i]
  BY <1>1
<1> QED
  BY <1>2 DEF ListensOK

\* The events of the observers that wait for the posts: a fetch goes on.
LEMMA FetchingRaised ==
    ASSUME NEW W, W \in [Path -> Seq(Request)], NEW Q \in Seq(EventOf(Request) \cup Block), NEW C,
           NEW p \in Path, NEW X \in SUBSET Key, Fetching(W, Q, C)
    PROVE  Fetching([W EXCEPT ![p] = << >>], Q \o Events(p, W[p], X), C)
<1>1. PICK E : E = Events(p, W[p], X)
  OBVIOUS
<1>2. W[p] \in Seq(Request)
  OBVIOUS
<1>3. /\ E \in Seq(EventOf(Request) \cup Block)
      /\ DOMAIN E = DOMAIN W[p] /\ \A i \in DOMAIN E : E[i].block = "value" /\ E[i].path = p
  BY <1>1, <1>2, EventsNum DEF Events, Event
<1>4. /\ Len(Q) \in Nat /\ Len(E) \in Nat /\ DOMAIN Q = 1 .. Len(Q) /\ DOMAIN E = 1 .. Len(E)
      /\ DOMAIN (Q \o E) = 1 .. Len(Q) + Len(E)
      /\ \A i \in 1 .. Len(Q) : (Q \o E)[i] = Q[i]
      /\ \A i \in 1 .. Len(E) : (Q \o E)[Len(Q) + i] = E[i]
  BY <1>3, ConcatFacts
<1>5. PICK R : R = Q \o E
  OBVIOUS
<1>6. PICK Y : Y = [W EXCEPT ![p] = << >>]
  OBVIOUS
<1>7. CASE \E i \in DOMAIN C : C[i].call = "observe" /\ C[i].path = PostsPath
  BY <1>7 DEF Fetching
<1>8. CASE \E i \in DOMAIN Q : Q[i].block = "value" /\ Q[i].path = PostsPath
  <2>1. PICK i \in DOMAIN Q : Q[i].block = "value" /\ Q[i].path = PostsPath
    BY <1>8
  <2>2. i \in DOMAIN R /\ R[i] = Q[i]
    BY <1>4, <1>5
  <2> QED
    BY <2>1, <2>2, <1>1, <1>5 DEF Fetching
<1>9. CASE W[PostsPath] # << >>
  <2>1. CASE p # PostsPath
    BY <2>1, <1>9, PathFacts DEF Fetching
  <2>2. CASE p = PostsPath
    <3>1. 1 \in DOMAIN E
      BY <2>2, <1>2, <1>3, <1>9
    <3>2. Len(Q) + 1 \in DOMAIN R /\ R[Len(Q) + 1] = E[1]
      BY <3>1, <1>4, <1>5
    <3>3. R[Len(Q) + 1].block = "value" /\ R[Len(Q) + 1].path = PostsPath
      BY <3>1, <3>2, <2>2, <1>3
    <3> QED
      BY <3>2, <3>3, <1>1, <1>5 DEF Fetching
  <2> QED
    BY <2>1, <2>2
<1> QED
  BY <1>7, <1>8, <1>9 DEF Fetching

\* A call that does not fetch is taken.
LEMMA FetchingCallTaken ==
    ASSUME NEW W, NEW Q, NEW C \in Seq(CallOf(Request)), C # << >>, Fetching(W, Q, C),
           Head(C).call # "observe" \/ Head(C).path # PostsPath
    PROVE  Fetching(W, Q, Tail(C))
<1>1. /\ Len(C) \in Nat /\ Len(C) >= 1
      /\ DOMAIN C = 1 .. Len(C) /\ DOMAIN Tail(C) = 1 .. Len(C) - 1
      /\ \A i \in 1 .. Len(C) - 1 : Tail(C)[i] = C[i + 1]
      /\ Head(C) = C[1]
  BY TailFacts
<1>2. ASSUME NEW i \in DOMAIN C, C[i].call = "observe" /\ C[i].path = PostsPath
      PROVE  \E j \in DOMAIN Tail(C) : Tail(C)[j] = C[i]
  <2>1. i # 1
    BY <1>1, <1>2
  <2>2. i - 1 \in 1 .. Len(C) - 1 /\ (i - 1) + 1 = i
    BY <1>1, <2>1
  <2> QED
    BY <1>1, <2>2
<1> QED
  BY <1>2 DEF Fetching

-----------------------------------------------------------------------------
(***************************************************************************)
(* The client's steps.                                                     *)
(***************************************************************************)
LEMMA CoreFacts ==
    ASSUME NEW S, Core(S)
    PROVE  /\ Device = {Phone} /\ Phone \in Device /\ FlightInv /\ Domains /\ Shape(S) /\ S \subseteq Post
           /\ observers[Phone] \in [Path -> Nat] /\ waiting[Phone] \in [Path -> Seq(Request)]
           /\ mainq[Phone] \in Seq(EventOf(Request) \cup Block) /\ calls[Phone] \in Seq(CallOf(Request))
           /\ connected[Phone] \in BOOLEAN /\ up[Phone] \in Seq(UpMsg) /\ down[Phone] \in Seq(DownMsg)
           /\ CallIsOK(Phone)
<1>1. Device = {Phone} /\ Phone \in Device
  BY OnePhone
<1>2. Observing(observers[Phone], waiting[Phone], mainq[Phone], calls[Phone])
  BY DEF Core, Views
<1>3. /\ observers[Phone] \in [Path -> Nat] /\ waiting[Phone] \in [Path -> Seq(Request)]
      /\ mainq[Phone] \in Seq(EventOf(Request) \cup Block) /\ calls[Phone] \in Seq(CallOf(Request))
  BY <1>2 DEF Observing
<1>4. connected[Phone] \in BOOLEAN /\ up[Phone] \in Seq(UpMsg) /\ down[Phone] \in Seq(DownMsg)
  BY <1>1 DEF Core, FlightInv
<1>5. CallIsOK(Phone)
  <2>1. SUFFICES ASSUME calls[Phone] # << >>
                 PROVE  /\ Head(calls[Phone]).call = "put" => Head(calls[Phone]).write \in Write
                        /\ Head(calls[Phone]).call \in {"observe", "removeObserver"}
                              => Head(calls[Phone]).path \in Path
    BY DEF CallIsOK
  <2>2. Head(calls[Phone]) \in CallOf(Request)
    BY <2>1, <1>3
  <2> QED
    BY <2>2 DEF CallOf
<1> QED
  BY <1>1, <1>3, <1>4, <1>5 DEF Core, Shape

\* The events of a view are blocks the app expects.
LEMMA EventsHome ==
    ASSUME NEW S, S \subseteq Post, NEW p \in Path, NEW r \in Seq(Request), NEW X,
           X \in SUBSET Key, X \subseteq HomeOf(S, p), NEW Q \in Seq(AppBlock(S))
    PROVE  Q \o Events(p, r, X) \in Seq(AppBlock(S))
<1>1. \A x \in Request : Event(p, x, X) \in AppBlock(S)
  BY DEF Event, AppBlock, EventOf
<1>2. Events(p, r, X) \in Seq(AppBlock(S))
  BY <1>1 DEF Events
<1> QED
  BY <1>2

\* A put enters the write tree.
LEMMA RunPutCore ==
    ASSUME NEW S, Core(S), RunPut(Phone), Head(calls[Phone]).write \in AppWrite(S)
    PROVE  Core(S)' /\ Behind
<1>1. PICK w \in AppWrite(S) : w = Head(calls[Phone]).write
  OBVIOUS
<1>2. PICK p : p = w.path
  OBVIOUS
<1>3. w \in Write /\ p \in Path
  BY <1>1, <1>2, CoreFacts, AppTypes, WriteFacts
<1>4. PICK n : n = putCounter[Phone]
  OBVIOUS
<1>5. PICK P : P = WithPut(pending[Phone], n, w)
  OBVIOUS
<1>6. PICK X : X = Overlay(P, p, cache[Phone][p])
  OBVIOUS
<1>7. PICK O, W, Q, C : O = observers[Phone] /\ W = waiting[Phone] /\ Q = mainq[Phone] /\ C = calls[Phone]
  OBVIOUS
<1>8. /\ Phone \in DOMAIN calls /\ Phone \in DOMAIN waiting /\ Phone \in DOMAIN mainq
      /\ Phone \in DOMAIN pending /\ Phone \in DOMAIN putCounter /\ n \in Nat /\ Phone \in DOMAIN up
  BY <1>4, CoreFacts DEF Domains, FlightInv
<1>9. /\ C # << >> /\ Head(C).call = "put"
      /\ calls' = [calls EXCEPT ![Phone] = Tail(C)]
      /\ pending' = [pending EXCEPT ![Phone] = P]
      /\ putCounter' = [putCounter EXCEPT ![Phone] = n + 1]
      /\ mainq' = [mainq EXCEPT ![Phone] =
                     Q \o Events(p, IF w.op = "clear" THEN W[p] ELSE << >>, X)]
      /\ waiting' = [waiting EXCEPT ![Phone][p] = IF w.op = "clear" THEN << >> ELSE @]
      /\ UNCHANGED <<observers, cache, filled, connected, down, server>>
      /\ up' = [up EXCEPT ![Phone] = IF connected[Phone] THEN Append(@, PutMsg(n, w)) ELSE @]
  BY <1>1, <1>2, <1>4, <1>5, <1>6, <1>7 DEF RunPut, Send
<1>10. /\ W \in [Path -> Seq(Request)] /\ Q \in Seq(EventOf(Request) \cup Block)
       /\ C \in Seq(CallOf(Request)) /\ Observing(O, W, Q, C)
       /\ FilledOK(O, W, filled[Phone])
       /\ S \subseteq Post /\ C \in Seq(AppCall(S)) /\ Q \in Seq(AppBlock(S)) /\ up[Phone] \in Seq(UpMsg)
       /\ ListensOK(connected[Phone], O, filled[Phone], up[Phone], down[Phone])
  BY <1>7, CoreFacts DEF Core, Views, Shape
<1>11. /\ \A i \in DOMAIN P : P[i].write \in AppWrite(S) /\ i >= 1
       /\ n + 1 >= 1
  BY <1>1, <1>4, <1>5, <1>8, CoreFacts DEF WithPut, Shape, FlightInv, Connection, IsTable
<1>12. X \in SUBSET Key /\ X \subseteq HomeOf(S, p)
  BY <1>3, <1>6, <1>10, <1>11, CoreFacts, OverlayHome DEF Shape
<1>13. FlightInv'
  BY CoreFacts, RunPutEffect
<1>14. Domains'
  BY <1>9, CoreFacts DEF Domains
<1>15. /\ calls'[Phone] = Tail(C) /\ pending'[Phone] = P /\ putCounter'[Phone] = n + 1
       /\ mainq'[Phone] = Q \o Events(p, IF w.op = "clear" THEN W[p] ELSE << >>, X)
       /\ waiting'[Phone] = [W EXCEPT ![p] = IF w.op = "clear" THEN << >> ELSE @]
       /\ observers'[Phone] = O /\ filled'[Phone] = filled[Phone] /\ cache'[Phone] = cache[Phone]
       /\ connected'[Phone] = connected[Phone] /\ down'[Phone] = down[Phone]
       /\ up'[Phone] = IF connected[Phone] THEN Append(up[Phone], PutMsg(n, w)) ELSE up[Phone]
  BY <1>7, <1>8, <1>9
<1>16. PICK W2, Q2 : W2 = waiting'[Phone] /\ Q2 = mainq'[Phone]
  OBVIOUS
<1>17. /\ Observing(O, W2, Q2, C) /\ FilledOK(O, W2, filled[Phone])
       /\ Q2 \in Seq(AppBlock(S)) /\ (\A b : Contains(Q, b) => Contains(Q2, b))
       /\ (Fetching(W, Q, C) => Fetching(W2, Q2, C))
  <2>1. CASE w.op = "clear"
    <3>1. W2 = [W EXCEPT ![p] = << >>] /\ Q2 = Q \o Events(p, W[p], X) /\ W[p] \in Seq(Request)
      BY <2>1, <1>3, <1>10, <1>15, <1>16
    <3>2. Events(p, W[p], X) \in Seq(EventOf(Request) \cup Block)
      BY <3>1, <1>3, <1>12, EventsNum
    <3>3. Observing(O, W2, Q2, C)
      BY <3>1, <1>3, <1>10, <1>12, ObservingRaised
    <3>4. Q2 \in Seq(AppBlock(S))
      BY <3>1, <1>3, <1>10, <1>12, EventsHome
    <3>5. \A b : Contains(Q, b) => Contains(Q2, b)
      BY <3>1, <3>2, <1>10, ContainsMore
    <3>6. Fetching(W, Q, C) => Fetching(W2, Q2, C)
      BY <3>1, <1>3, <1>10, <1>12, FetchingRaised
    <3>7. FilledOK(O, W2, filled[Phone])
      BY <3>1, <1>3, <1>10 DEF FilledOK
    <3> QED
      BY <3>3, <3>4, <3>5, <3>6, <3>7
  <2>2. CASE w.op # "clear"
    <3>1. Events(p, << >>, X) = << >>
      BY DEF Events
    <3>2. W2 = W /\ Q2 = Q
      BY <2>2, <3>1, <1>3, <1>10, <1>15, <1>16
    <3> QED
      BY <3>2, <1>10
  <2> QED
    BY <2>1, <2>2
<1>18. Observing(O, W2, Q2, Tail(C))
  BY <1>9, <1>17, ObservingCallTaken
<1>19. Fetching(W, Q, C) => Fetching(W2, Q2, Tail(C))
  BY <1>9, <1>10, <1>17, FetchingCallTaken
<1>20. ListensOK(connected[Phone], O, filled[Phone], up'[Phone], down[Phone])
  <2>1. PutMsg(n, w) \in UpMsg
    BY <1>3, <1>8 DEF PutMsg, UpMsg
  <2> QED
    BY <2>1, <1>10, <1>15, SentMore
<1>21. Views'
  BY <1>15, <1>16, <1>17, <1>18, <1>20 DEF Views
<1>22. Shape(S)'
  <2>1. Tail(C) \in Seq(AppCall(S))
    BY <1>9, <1>10
  <2> QED
    BY <2>1, <1>9, <1>11, <1>15, <1>16, <1>17, CoreFacts DEF Shape
<1> QED
  BY <1>7, <1>13, <1>14, <1>15, <1>16, <1>17, <1>19, <1>21, <1>22 DEF Core, Behind, FetchingPosts

\* An observer is added.
LEMMA RunObserveCore ==
    ASSUME NEW S, Core(S), RunObserve(Phone)
    PROVE  Core(S)' /\ Behind
<1>1. PICK p, r : p = Head(calls[Phone]).path /\ r = Head(calls[Phone]).request
  OBVIOUS
<1>2. PICK X : X = View(Phone, p)
  OBVIOUS
<1>3. PICK O, W, Q, C : O = observers[Phone] /\ W = waiting[Phone] /\ Q = mainq[Phone] /\ C = calls[Phone]
  OBVIOUS
<1>4. PICK cleared \in BOOLEAN : cleared <=> IsCleared(pending[Phone], p)
  BY DEF IsCleared
<1>5. /\ Phone \in DOMAIN calls /\ Phone \in DOMAIN waiting /\ Phone \in DOMAIN mainq
      /\ Phone \in DOMAIN observers /\ Phone \in DOMAIN up
  BY CoreFacts DEF Domains, FlightInv
<1>6. /\ C # << >> /\ Head(C).call = "observe" /\ p = Head(C).path
      /\ calls' = [calls EXCEPT ![Phone] = Tail(C)]
      /\ observers' = [observers EXCEPT ![Phone][p] = @ + 1]
      /\ IF cleared \/ (O[p] # 0 /\ p \in filled[Phone])
           THEN mainq' = [mainq EXCEPT ![Phone] = Append(Q, Event(p, r, X))] /\ UNCHANGED waiting
           ELSE waiting' = [waiting EXCEPT ![Phone][p] = Append(@, r)] /\ UNCHANGED mainq
      /\ IF O[p] = 0 THEN Send(Phone, ListenMsg(p)) ELSE UNCHANGED up
      /\ UNCHANGED <<pending, putCounter, cache, filled, connected, down, server>>
  BY <1>1, <1>2, <1>3, <1>4 DEF RunObserve
<1>7. /\ O \in [Path -> Nat] /\ W \in [Path -> Seq(Request)] /\ Q \in Seq(EventOf(Request) \cup Block)
      /\ C \in Seq(CallOf(Request)) /\ Observing(O, W, Q, C)
      /\ FilledOK(O, W, filled[Phone])
      /\ S \subseteq Post /\ C \in Seq(AppCall(S)) /\ Q \in Seq(AppBlock(S)) /\ up[Phone] \in Seq(UpMsg)
      /\ ListensOK(connected[Phone], O, filled[Phone], up[Phone], down[Phone])
  BY <1>3, CoreFacts DEF Core, Views, Shape
<1>8. p \in Path /\ r \in Request
  <2>1. Head(C) \in CallOf(Request) /\ Head(C).call = "observe"
    BY <1>6, <1>7
  <2> QED
    BY <2>1, <1>1, <1>3 DEF CallOf
<1>9. X \in SUBSET Key /\ X \subseteq HomeOf(S, p)
  BY <1>2, <1>7, <1>8, CoreFacts, OverlayHome DEF Shape, View
<1>10. PICK O2, W2, Q2, U2 : /\ O2 = observers'[Phone] /\ W2 = waiting'[Phone]
                             /\ Q2 = mainq'[Phone] /\ U2 = up'[Phone]
  OBVIOUS
<1>11. /\ calls'[Phone] = Tail(C) /\ O2 = [O EXCEPT ![p] = @ + 1]
       /\ IF cleared \/ (O[p] # 0 /\ p \in filled[Phone])
            THEN Q2 = Append(Q, Event(p, r, X)) /\ W2 = W
            ELSE W2 = [W EXCEPT ![p] = Append(@, r)] /\ Q2 = Q
       /\ U2 = IF O[p] = 0 /\ connected[Phone] THEN Append(up[Phone], ListenMsg(p)) ELSE up[Phone]
  BY <1>3, <1>5, <1>6, <1>10 DEF Send
<1>12. FlightInv'
  BY CoreFacts, RunObserveEffect
<1>13. Domains'
  BY <1>6, CoreFacts DEF Domains
<1>14. O2[p] = O[p] + 1 /\ \A q \in Path : q # p => O2[q] = O[q]
  BY <1>7, <1>8, <1>11
<1>15. ListensOK(connected[Phone], O2, filled[Phone], U2, down[Phone])
  <2>1. PICK m \in UpMsg : m = ListenMsg(p)
    BY <1>8 DEF ListenMsg, UpMsg
  <2>2. CASE O[p] = 0 /\ connected[Phone]
    <3>1. U2 = Append(up[Phone], m)
      BY <2>1, <2>2, <1>11
    <3>2. ListensOK(connected[Phone], O, filled[Phone], U2, down[Phone])
      BY <3>1, <1>7, SentMore
    <3>3. \E i \in DOMAIN U2 : U2[i] = ListenMsg(p)
      <4>1. /\ Len(up[Phone]) \in Nat /\ DOMAIN U2 = 1 .. Len(up[Phone]) + 1
            /\ U2[Len(up[Phone]) + 1] = m
        BY <3>1, <1>7, AppendFacts
      <4>2. Len(up[Phone]) + 1 \in DOMAIN U2
        BY <4>1
      <4> QED
        BY <4>1, <4>2, <2>1
    <3> QED
      BY <3>2, <3>3, <1>14 DEF ListensOK
  <2>3. CASE ~connected[Phone]
    BY <2>3 DEF ListensOK
  <2>4. CASE O[p] # 0
    <3>1. U2 = up[Phone] /\ O[p] > 0
      BY <2>4, <1>7, <1>8, <1>11
    <3> QED
      BY <3>1, <1>7, <1>14 DEF ListensOK
  <2> QED
    BY <2>2, <2>3, <2>4
<1>16. /\ Observing(O2, W2, Q2, C) /\ FilledOK(O2, W2, filled[Phone])
       /\ Q2 \in Seq(AppBlock(S)) /\ (\A b : Contains(Q, b) => Contains(Q2, b))
       /\ (Fetching(W, Q, C) => Fetching(W2, Q2, Tail(C)))
  <2>1. \A q \in Path : O[q] > 0 => O2[q] > 0
    <3>1. O[p] \in Nat /\ O2[p] > 0
      BY <1>7, <1>8, <1>14
    <3> QED
      BY <3>1, <1>14
  <2>2. CASE cleared \/ (O[p] # 0 /\ p \in filled[Phone])
    <3>1. W2 = W /\ Q2 = Append(Q, Event(p, r, X)) /\ O2 = [O EXCEPT ![p] = @ + 1]
      BY <2>2, <1>11
    <3>2. Observing(O2, W2, Q2, C)
      BY <3>1, <1>7, <1>8, <1>9, ObservingAnswered
    <3>3. PICK e \in AppBlock(S) : e = Event(p, r, X)
      BY <1>8, <1>9 DEF Event, AppBlock, EventOf
    <3>4. /\ Q2 \in Seq(AppBlock(S)) /\ Len(Q) \in Nat
          /\ DOMAIN Q = 1 .. Len(Q) /\ DOMAIN Q2 = 1 .. Len(Q) + 1
          /\ \A i \in 1 .. Len(Q) : Q2[i] = Q[i]
          /\ Q2[Len(Q) + 1] = e
      BY <3>1, <3>3, <1>7, AppendFacts
    <3>5. \A i \in DOMAIN Q : i \in DOMAIN Q2 /\ Q2[i] = Q[i]
      BY <3>4
    <3>6. \A b : Contains(Q, b) => Contains(Q2, b)
      BY <3>4, <3>5, <1>7 DEF Contains
    <3>7. Fetching(W, Q, C) => Fetching(W2, Q2, Tail(C))
      <4>1. CASE p = PostsPath
        <5>1. Len(Q) + 1 \in DOMAIN Q2
          BY <3>4
        <5>2. e.block = "value" /\ e.path = PostsPath
          BY <4>1, <3>3 DEF Event
        <5> QED
          BY <5>1, <5>2, <3>4 DEF Fetching
      <4>2. CASE p # PostsPath
        <5>1. Fetching(W, Q, C) => Fetching(W2, Q2, C)
          BY <3>1, <3>5 DEF Fetching
        <5> QED
          BY <4>2, <5>1, <1>6, <1>7, FetchingCallTaken
      <4> QED
        BY <4>1, <4>2
    <3>8. FilledOK(O2, W2, filled[Phone])
      BY <2>1, <3>1, <1>7 DEF FilledOK
    <3> QED
      BY <3>2, <3>4, <3>6, <3>7, <3>8
  <2>3. CASE ~(cleared \/ (O[p] # 0 /\ p \in filled[Phone]))
    <3>1. W2 = [W EXCEPT ![p] = Append(@, r)] /\ Q2 = Q /\ O2 = [O EXCEPT ![p] = @ + 1]
      BY <2>3, <1>11
    <3>2. Observing(O2, W2, Q2, C)
      BY <3>1, <1>7, <1>8, ObservingWaits
    <3>3. W2[p] = Append(W[p], r) /\ W2[p] # << >> /\ \A q \in Path : q # p => W2[q] = W[q]
      <4>1. W \in [Path -> Seq(Request)] /\ p \in Path /\ r \in Request
        BY <1>7, <1>8
      <4>2. PICK v \in Seq(Request) : v = Append(W[p], r) /\ v # << >>
        <5>1. W[p] \in Seq(Request) /\ r \in Request
          BY <4>1
        <5> QED
          BY ONLY <5>1, AppendNotEmpty
      <4>3. W2 = [W EXCEPT ![p] = v]
        BY ONLY <3>1, <4>2
      <4> QED
        BY ONLY <4>1, <4>2, <4>3
    <3>4. Fetching(W, Q, C) => Fetching(W2, Q2, Tail(C))
      <4>1. CASE p = PostsPath
        BY <4>1, <3>3 DEF Fetching
      <4>2. CASE p # PostsPath
        <5>1. Fetching(W, Q, C) => Fetching(W2, Q2, C)
          BY <4>2, <3>1, <3>3, PathFacts DEF Fetching
        <5> QED
          BY <4>2, <5>1, <1>6, <1>7, FetchingCallTaken
      <4> QED
        BY <4>1, <4>2
    <3>5. p \notin filled[Phone]
      BY <2>3, <1>7, <1>8 DEF FilledOK
    <3>6. FilledOK(O2, W2, filled[Phone])
      BY <2>1, <3>3, <3>5, <1>7 DEF FilledOK
    <3> QED
      BY <3>1, <3>2, <3>4, <3>6, <1>7
  <2> QED
    BY <2>2, <2>3
<1>17. Observing(O2, W2, Q2, Tail(C))
  BY <1>6, <1>16, ObservingCallTaken
<1>18. Views'
  BY <1>6, <1>10, <1>11, <1>15, <1>16, <1>17 DEF Views
<1>19. Shape(S)'
  <2>1. Tail(C) \in Seq(AppCall(S))
    BY <1>6, <1>7
  <2> QED
    BY <2>1, <1>6, <1>10, <1>11, <1>16, CoreFacts DEF Shape
<1> QED
  BY <1>3, <1>10, <1>11, <1>12, <1>13, <1>16, <1>18, <1>19 DEF Core, Behind, FetchingPosts

\* One is removed.
LEMMA RunRemoveObserverCore ==
    ASSUME NEW S, Core(S), RunRemoveObserver(Phone)
    PROVE  Core(S)' /\ Behind
<1>1. PICK p : p = Head(calls[Phone]).path
  OBVIOUS
<1>2. PICK O, W, Q, C, F, K : /\ O = observers[Phone] /\ W = waiting[Phone] /\ Q = mainq[Phone]
                              /\ C = calls[Phone] /\ F = filled[Phone] /\ K = cache[Phone]
  OBVIOUS
<1>3. /\ Phone \in DOMAIN calls /\ Phone \in DOMAIN observers /\ Phone \in DOMAIN cache
      /\ Phone \in DOMAIN filled /\ Phone \in DOMAIN up
  BY CoreFacts DEF Domains, FlightInv
<1>4. /\ C # << >> /\ Head(C).call = "removeObserver" /\ p = Head(C).path
      /\ calls' = [calls EXCEPT ![Phone] = Tail(C)]
      /\ observers' = [observers EXCEPT ![Phone][p] = @ - 1]
      /\ cache' = [cache EXCEPT ![Phone][p] = IF O[p] = 1 THEN {} ELSE @]
      /\ filled' = [filled EXCEPT ![Phone] = IF O[p] = 1 THEN F \ {p} ELSE F]
      /\ IF O[p] = 1 THEN Send(Phone, UnlistenMsg(p)) ELSE UNCHANGED up
      /\ UNCHANGED <<pending, putCounter, waiting, mainq, connected, down, server>>
  BY <1>1, <1>2 DEF RunRemoveObserver
<1>5. /\ O \in [Path -> Nat] /\ W \in [Path -> Seq(Request)] /\ Q \in Seq(EventOf(Request) \cup Block)
      /\ C \in Seq(CallOf(Request)) /\ Observing(O, W, Q, C) /\ FilledOK(O, W, F)
      /\ S \subseteq Post /\ C \in Seq(AppCall(S)) /\ up[Phone] \in Seq(UpMsg)
      /\ K \in [Path -> SUBSET Key] /\ (\A q \in Path : K[q] \subseteq HomeOf(S, q))
      /\ ListensOK(connected[Phone], O, F, up[Phone], down[Phone])
  BY <1>2, CoreFacts DEF Core, Views, Shape
<1>6. p \in Path /\ Head(C) = RemoveObserverCall(p)
  <2>1. Head(C) \in CallOf(Request) /\ Head(C).call = "removeObserver" /\ p = Head(C).path
    BY <1>4, <1>5
  <2> QED
    BY <2>1 DEF CallOf, RemoveObserverCall
<1>7. PICK O2, F2, K2, U2 : /\ O2 = observers'[Phone] /\ F2 = filled'[Phone] /\ K2 = cache'[Phone]
                            /\ U2 = up'[Phone]
  OBVIOUS
<1>8. /\ calls'[Phone] = Tail(C) /\ O2 = [O EXCEPT ![p] = @ - 1]
      /\ F2 = IF O[p] = 1 THEN F \ {p} ELSE F
      /\ K2 = [K EXCEPT ![p] = IF O[p] = 1 THEN {} ELSE @]
      /\ U2 = IF O[p] = 1 /\ connected[Phone] THEN Append(up[Phone], UnlistenMsg(p)) ELSE up[Phone]
  BY <1>2, <1>3, <1>4, <1>7 DEF Send
<1>9. O[p] >= 1 /\ Observing(O2, W, Q, Tail(C))
  BY <1>4, <1>5, <1>6, <1>8, ObservingRemoved
<1>10. O2[p] = O[p] - 1 /\ \A q \in Path : q # p => O2[q] = O[q]
  BY <1>5, <1>6, <1>8
<1>11. \A q \in Path : O2[q] > 0 <=> O[q] > 0 /\ (q = p => O[p] # 1)
  BY <1>5, <1>6, <1>9, <1>10
<1>12. FilledOK(O2, W, F2)
  BY <1>5, <1>8, <1>11 DEF FilledOK
<1>13. ListensOK(connected[Phone], O2, F2, U2, down[Phone])
  <2>1. UnlistenMsg(p) \in UpMsg
    BY <1>6 DEF UnlistenMsg, UpMsg
  <2>2. ListensOK(connected[Phone], O, F, U2, down[Phone])
    BY <2>1, <1>5, <1>8, SentMore
  <2>3. \A q \in Path : O2[q] > 0 /\ q \notin F2 => O[q] > 0 /\ q \notin F
    BY <1>8, <1>11
  <2> QED
    BY <2>2, <2>3 DEF ListensOK
<1>14. K2 \in [Path -> SUBSET Key] /\ \A q \in Path : K2[q] \subseteq HomeOf(S, q)
  BY <1>5, <1>6, <1>8
<1>15. Fetching(W, Q, C) => Fetching(W, Q, Tail(C))
  BY <1>4, <1>5, FetchingCallTaken
<1>16. FlightInv'
  BY CoreFacts, RunRemoveObserverEffect
<1>17. Domains'
  BY <1>4, CoreFacts DEF Domains
<1>18. Views'
  BY <1>2, <1>4, <1>7, <1>8, <1>9, <1>12, <1>13 DEF Views
<1>19. Shape(S)'
  <2>1. Tail(C) \in Seq(AppCall(S))
    BY <1>4, <1>5
  <2> QED
    BY <2>1, <1>4, <1>7, <1>8, <1>14, CoreFacts DEF Shape
<1> QED
  BY <1>2, <1>4, <1>8, <1>15, <1>16, <1>17, <1>18, <1>19 DEF Core, Behind, FetchingPosts

\* Data of the server fills a view.
LEMMA ReceiveSnapCore ==
    ASSUME NEW S, Core(S), NEW p \in Path, NEW D, D \in SUBSET Key, D \subseteq HomeOf(S, p),
           ReceiveSnap(Phone, p, D), UNCHANGED <<calls, observers>>
    PROVE  /\ Domains' /\ Behind
           /\ Observing(observers[Phone], waiting[Phone], mainq[Phone], calls[Phone])'
           /\ FilledOK(observers[Phone], waiting[Phone], filled[Phone])'
           /\ mainq'[Phone] \in Seq(AppBlock(S))
           /\ cache'[Phone] \in [Path -> SUBSET Key]
           /\ \A q \in Path : cache'[Phone][q] \subseteq HomeOf(S, q)
           /\ filled[Phone] \subseteq filled'[Phone]
           /\ observers[Phone][p] > 0 => p \in filled'[Phone]
<1>1. PICK O, W, Q, C, F, K : /\ O = observers[Phone] /\ W = waiting[Phone] /\ Q = mainq[Phone]
                              /\ C = calls[Phone] /\ F = filled[Phone] /\ K = cache[Phone]
  OBVIOUS
<1>2. /\ O \in [Path -> Nat] /\ W \in [Path -> Seq(Request)] /\ Q \in Seq(EventOf(Request) \cup Block)
      /\ Observing(O, W, Q, C) /\ FilledOK(O, W, F)
      /\ S \subseteq Post /\ Q \in Seq(AppBlock(S))
      /\ K \in [Path -> SUBSET Key] /\ \A q \in Path : K[q] \subseteq HomeOf(S, q)
  BY <1>1, CoreFacts DEF Core, Views, Shape
<1>3. O[p] \in Nat /\ observers'[Phone] = O /\ calls'[Phone] = C
  BY <1>1, <1>2
<1>4. CASE O[p] = 0
  <2>1. UNCHANGED <<cache, filled, waiting, mainq>>
    BY <1>1, <1>4 DEF ReceiveSnap
  <2>2. Domains'
    BY <2>1, CoreFacts DEF Domains
  <2>3. Behind
    BY <2>1 DEF Behind, FetchingPosts
  <2> QED
    BY <2>1, <2>2, <2>3, <1>1, <1>2, <1>3, <1>4
<1>5. CASE O[p] # 0
  <2>1. PICK X : X = Overlay(pending[Phone], p, D)
    OBVIOUS
  <2>2. X \in SUBSET Key /\ X \subseteq HomeOf(S, p)
    BY <2>1, <1>2, CoreFacts, OverlayHome DEF Shape
  <2>3. /\ cache' = [cache EXCEPT ![Phone][p] = D]
        /\ filled' = [filled EXCEPT ![Phone] = F \cup {p}]
        /\ waiting' = [waiting EXCEPT ![Phone][p] = << >>]
        /\ mainq' = [mainq EXCEPT ![Phone] = Q \o Events(p, W[p], X)]
    BY <2>1, <1>1, <1>5 DEF ReceiveSnap
  <2>4. /\ Phone \in DOMAIN cache /\ Phone \in DOMAIN filled /\ Phone \in DOMAIN waiting
        /\ Phone \in DOMAIN mainq
    BY CoreFacts DEF Domains
  <2>5. PICK W2, Q2, F2, K2 : /\ W2 = waiting'[Phone] /\ Q2 = mainq'[Phone]
                              /\ F2 = filled'[Phone] /\ K2 = cache'[Phone]
    OBVIOUS
  <2>6. /\ W2 = [W EXCEPT ![p] = << >>] /\ Q2 = Q \o Events(p, W[p], X)
        /\ F2 = F \cup {p} /\ K2 = [K EXCEPT ![p] = D]
    BY <2>3, <2>4, <2>5, <1>1
  <2>7. W[p] \in Seq(Request)
    BY <1>2
  <2>8. Events(p, W[p], X) \in Seq(EventOf(Request) \cup Block)
    BY <2>2, <2>7, EventsNum
  <2>9. Observing(O, W2, Q2, C)
    BY <2>2, <2>6, <1>2, ObservingRaised
  <2>10. Q2 \in Seq(AppBlock(S))
    BY <2>2, <2>6, <2>7, <1>2, EventsHome
  <2>11. \A b : Contains(Q, b) => Contains(Q2, b)
    BY <2>6, <2>8, <1>2, ContainsMore
  <2>12. Fetching(W, Q, C) => Fetching(W2, Q2, C)
    BY <2>2, <2>6, <1>2, FetchingRaised
  <2>13. FilledOK(O, W2, F2)
    BY <2>6, <1>2, <1>3, <1>5 DEF FilledOK
  <2>14. K2 \in [Path -> SUBSET Key] /\ \A q \in Path : K2[q] \subseteq HomeOf(S, q)
    BY <2>6, <1>2
  <2>15. Domains'
    BY <2>3, CoreFacts DEF Domains
  <2>16. Behind
    BY <2>5, <2>11, <2>12, <1>1, <1>3 DEF Behind, FetchingPosts
  <2>17. /\ Observing(observers[Phone], waiting[Phone], mainq[Phone], calls[Phone])'
         /\ FilledOK(observers[Phone], waiting[Phone], filled[Phone])'
    BY <2>5, <2>9, <2>13, <1>3
  <2> QED
    BY <2>5, <2>6, <2>10, <2>14, <2>15, <2>16, <2>17, <1>1
<1> QED
  BY <1>4, <1>5

\* A message of the server is taken; if it answered a listen, the view is filled or gone.
LEMMA MessageTaken ==
    ASSUME NEW c, NEW O, NEW F, NEW U, NEW V \in Seq(DownMsg), ListensOK(c, O, F, U, V), V # << >>,
           NEW G, F \subseteq G,
           Head(V).msg = "listened" /\ O[Head(V).path] > 0 => Head(V).path \in G
    PROVE  ListensOK(c, O, G, U, Tail(V))
<1>1. /\ Len(V) \in Nat /\ Len(V) >= 1
      /\ DOMAIN V = 1 .. Len(V) /\ DOMAIN Tail(V) = 1 .. Len(V) - 1
      /\ \A i \in 1 .. Len(V) - 1 : Tail(V)[i] = V[i + 1]
      /\ Head(V) = V[1]
  BY TailFacts
<1>2. ASSUME NEW p \in Path, O[p] > 0, p \notin G, NEW i \in DOMAIN V,
             V[i].msg = "listened", V[i].path = p
      PROVE  \E j \in DOMAIN Tail(V) : Tail(V)[j].msg = "listened" /\ Tail(V)[j].path = p
  <2>1. i # 1
    BY <1>1, <1>2
  <2>2. i - 1 \in 1 .. Len(V) - 1 /\ (i - 1) + 1 = i
    BY <1>1, <2>1
  <2>3. i - 1 \in DOMAIN Tail(V) /\ Tail(V)[i - 1] = V[i]
    BY <1>1, <2>2
  <2> QED
    BY <2>3, <1>2
<1> QED
  BY <1>2 DEF ListensOK

LEMMA ReceiveDataCore ==
    ASSUME NEW S, Core(S), ReceiveListened(Phone) \/ ReceiveData(Phone)
    PROVE  Core(S)' /\ Behind
<1>1. PICK V : V = down[Phone]
  OBVIOUS
<1>2. PICK p, D : p = Head(V).path /\ D = Head(V).snap
  OBVIOUS
<1>3. /\ V # << >> /\ Head(V).msg \in {"listened", "data"}
      /\ ReceiveSnap(Phone, p, D)
      /\ down' = [down EXCEPT ![Phone] = Tail(V)]
      /\ \/ pending' = [pending EXCEPT ![Phone] = AckPuts(pending[Phone])]
         \/ pending' = [pending EXCEPT ![Phone] = pending[Phone]]
         \/ UNCHANGED pending
      /\ UNCHANGED <<calls, putCounter, observers, connected, up, server>>
  BY <1>1, <1>2 DEF ReceiveListened, ReceiveData
<1>4. V \in Seq(DownMsg) /\ V \in Seq(AppDown(S)) /\ Phone \in DOMAIN down /\ Phone \in DOMAIN pending
  BY <1>1, CoreFacts DEF Shape, FlightInv
<1>5. p \in Path /\ D \in SUBSET Key /\ D \subseteq HomeOf(S, p)
  <2>1. Head(V) \in AppDown(S) /\ Head(V).msg # "ack"
    BY <1>3, <1>4
  <2> QED
    BY <2>1, <1>2 DEF AppDown
<1>6. /\ Domains' /\ Behind
      /\ Observing(observers[Phone], waiting[Phone], mainq[Phone], calls[Phone])'
      /\ FilledOK(observers[Phone], waiting[Phone], filled[Phone])'
      /\ mainq'[Phone] \in Seq(AppBlock(S))
      /\ cache'[Phone] \in [Path -> SUBSET Key]
      /\ \A q \in Path : cache'[Phone][q] \subseteq HomeOf(S, q)
      /\ filled[Phone] \subseteq filled'[Phone]
      /\ observers[Phone][p] > 0 => p \in filled'[Phone]
  BY <1>3, <1>5, ReceiveSnapCore
<1>7. FlightInv'
  BY CoreFacts, ReceiveListenedEffect, ReceiveDataEffect
<1>8. down'[Phone] = Tail(V) /\ Tail(V) \in Seq(AppDown(S))
  BY <1>3, <1>4
<1>9. ListensOK(connected[Phone], observers[Phone], filled[Phone], up[Phone], down[Phone])'
  <2>1. ListensOK(connected[Phone], observers[Phone], filled[Phone], up[Phone], V)
    BY <1>1 DEF Core, Views
  <2>2. PICK G : G = filled'[Phone]
    OBVIOUS
  <2>3. ListensOK(connected[Phone], observers[Phone], G, up[Phone], Tail(V))
    BY <2>1, <2>2, <1>2, <1>3, <1>4, <1>6, MessageTaken
  <2> QED
    BY <2>2, <2>3, <1>3, <1>8
<1>10. \A i \in DOMAIN pending'[Phone] : /\ i \in DOMAIN pending[Phone]
                                         /\ pending'[Phone][i] = pending[Phone][i]
  BY <1>3, <1>4 DEF AckPuts, Restrict
<1>11. Shape(S)'
  BY <1>3, <1>6, <1>8, <1>10, CoreFacts DEF Shape
<1> QED
  BY <1>6, <1>7, <1>9, <1>11 DEF Core, Views

\* The answer to a put.
LEMMA ReceiveAckCore ==
    ASSUME NEW S, Core(S), ReceiveAck(Phone)
    PROVE  Core(S)' /\ Behind
<1>1. PICK V, P : V = down[Phone] /\ P = pending[Phone]
  OBVIOUS
<1>2. PICK a : a = Head(V)
  OBVIOUS
<1>3. /\ V # << >> /\ Head(V).msg = "ack"
      /\ down' = [down EXCEPT ![Phone] = Tail(V)]
      /\ \/ pending' = [pending EXCEPT ![Phone] = Restrict(P, DOMAIN P \ {a.id})]
         \/ pending' = [pending EXCEPT ![Phone] = [P EXCEPT ![a.id].status = a.status]]
      /\ UNCHANGED <<calls, putCounter, observers, waiting, cache, filled, mainq, connected,
                     up, server>>
  BY <1>1, <1>2 DEF ReceiveAck
<1>4. V \in Seq(DownMsg) /\ V \in Seq(AppDown(S)) /\ Phone \in DOMAIN down /\ Phone \in DOMAIN pending
  BY <1>1, CoreFacts DEF Shape, FlightInv
<1>5. FlightInv'
  BY CoreFacts, ReceiveAckEffect
<1>6. down'[Phone] = Tail(V) /\ Tail(V) \in Seq(AppDown(S))
  BY <1>3, <1>4
<1>7. ListensOK(connected[Phone], observers[Phone], filled[Phone], up[Phone], down[Phone])'
  <2>1. ListensOK(connected[Phone], observers[Phone], filled[Phone], up[Phone], V)
    BY <1>1 DEF Core, Views
  <2>2. ListensOK(connected[Phone], observers[Phone], filled[Phone], up[Phone], Tail(V))
    BY <2>1, <1>3, <1>4, MessageTaken
  <2> QED
    BY <2>2, <1>3, <1>6
<1>8. IsTable(P)
  BY <1>1, CoreFacts DEF FlightInv, Connection
<1>9. \A i \in DOMAIN pending'[Phone] : /\ i \in DOMAIN P
                                        /\ pending'[Phone][i].write = P[i].write
  <2>1. CASE pending' = [pending EXCEPT ![Phone] = Restrict(P, DOMAIN P \ {a.id})]
    BY <2>1, <1>4 DEF Restrict
  <2>2. CASE pending' = [pending EXCEPT ![Phone] = [P EXCEPT ![a.id].status = a.status]]
    <3>1. pending'[Phone] = [P EXCEPT ![a.id].status = a.status]
      BY <2>2, <1>4
    <3>2. \A i \in DOMAIN P : P[i] \in Entry
      BY <1>8 DEF IsTable
    <3> QED
      BY <3>1, <3>2 DEF Entry
  <2> QED
    BY <2>1, <2>2, <1>3
<1>10. Shape(S)'
  BY <1>1, <1>3, <1>6, <1>9, CoreFacts DEF Shape
<1>11. Domains' /\ Behind
  BY <1>3, CoreFacts DEF Domains, Behind, FetchingPosts
<1>12. Views'
  BY <1>3, <1>7 DEF Views, Core
<1> QED
  BY <1>5, <1>10, <1>11, <1>12 DEF Core

-----------------------------------------------------------------------------
(***************************************************************************)
(* The connection and the server.                                          *)
(***************************************************************************)

LEMMA OneMore ==
    ASSUME NEW T, NEW s \in Seq(T), NEW x \in T
    PROVE  <<x>> \in Seq(T) /\ Append(s, x) = s \o <<x>>
<1>1. <<x>> \in Seq(T)
  OBVIOUS
<1> QED
  BY ONLY <1>1, s \in Seq(T), x \in T

LEMMA ShortSeq ==
    ASSUME NEW T
    PROVE  << >> \in Seq(T) /\ \A x \in T : <<x>> \in Seq(T)
OBVIOUS

LEMMA NoMore ==
    ASSUME NEW T, NEW s \in Seq(T)
    PROVE  << >> \in Seq(T) /\ s \o << >> = s
OBVIOUS

LEMMA JoinTwice ==
    ASSUME NEW T, NEW r \in Seq(T), NEW s \in Seq(T), NEW t \in Seq(T)
    PROVE  r \o s \o t = r \o (s \o t) /\ s \o t \in Seq(T)
OBVIOUS

\* Steps that the client does not notice.
LEMMA NetCore ==
    ASSUME NEW S, Core(S), FlightInv', UNCHANGED clientVars,
           down'[Phone] \in Seq(AppDown(S)), \A p \in Path : server'[p] \subseteq HomeOf(S, p),
           ListensOK(connected'[Phone], observers[Phone], filled[Phone], up'[Phone], down'[Phone])
    PROVE  Core(S)' /\ Behind
<1>1. UNCHANGED <<calls, pending, putCounter, observers, waiting, cache, filled, mainq>>
  BY DEF clientVars
<1>2. Domains' /\ Behind
  BY <1>1, CoreFacts DEF Domains, Behind, FetchingPosts
<1>3. Views'
  BY <1>1 DEF Views, Core
<1>4. Shape(S)'
  BY <1>1, CoreFacts DEF Shape
<1> QED
  BY <1>2, <1>3, <1>4 DEF Core

\* The server adds x to what it sends,
LEMMA ListensPushed ==
    ASSUME NEW c, NEW O, NEW F, NEW U, NEW V \in Seq(DownMsg), ListensOK(c, O, F, U, V),
           NEW x \in Seq(DownMsg)
    PROVE  ListensOK(c, O, F, U, V \o x)
<1>1. /\ Len(V) \in Nat /\ Len(x) \in Nat /\ DOMAIN V = 1 .. Len(V)
      /\ DOMAIN (V \o x) = 1 .. Len(V) + Len(x)
      /\ \A i \in 1 .. Len(V) : (V \o x)[i] = V[i]
  BY ConcatFacts
<1>2. \A i \in DOMAIN V : i \in DOMAIN (V \o x) /\ (V \o x)[i] = V[i]
  BY <1>1
<1> QED
  BY <1>2 DEF ListensOK

\* and takes a request, which, if it is a listen, has been answered.
LEMMA ListensServed ==
    ASSUME NEW c, NEW O, NEW F, NEW U \in Seq(UpMsg), NEW V, ListensOK(c, O, F, U, V), U # << >>,
           \A p \in Path : Head(U) = ListenMsg(p) =>
               \E i \in DOMAIN V : V[i].msg = "listened" /\ V[i].path = p
    PROVE  ListensOK(c, O, F, Tail(U), V)
<1>1. /\ Len(U) \in Nat /\ Len(U) >= 1
      /\ DOMAIN U = 1 .. Len(U) /\ DOMAIN Tail(U) = 1 .. Len(U) - 1
      /\ \A i \in 1 .. Len(U) - 1 : Tail(U)[i] = U[i + 1]
      /\ Head(U) = U[1]
  BY TailFacts
<1>2. ASSUME NEW i \in DOMAIN U, i # 1
      PROVE  \E j \in DOMAIN Tail(U) : Tail(U)[j] = U[i]
  <2>1. i - 1 \in 1 .. Len(U) - 1 /\ (i - 1) + 1 = i
    BY <1>1, <1>2
  <2> QED
    BY <1>1, <2>1
<1> QED
  BY <1>1, <1>2 DEF ListensOK

LEMMA DisconnectCore ==
    ASSUME NEW S, Core(S), Disconnect(Phone)
    PROVE  Core(S)' /\ Behind
<1>1. Phone \in DOMAIN connected /\ Phone \in DOMAIN down
  BY CoreFacts DEF FlightInv
<1>2. connected'[Phone] = FALSE /\ down'[Phone] = << >> /\ UNCHANGED <<clientVars, server>>
  BY <1>1 DEF Disconnect
<1>3. FlightInv'
  BY CoreFacts, DisconnectEffect
<1>4. ListensOK(connected'[Phone], observers[Phone], filled[Phone], up'[Phone], down'[Phone])
  BY <1>2 DEF ListensOK
<1>5. down'[Phone] \in Seq(AppDown(S)) /\ \A p \in Path : server'[p] \subseteq HomeOf(S, p)
  BY <1>2, CoreFacts DEF Shape
<1> QED
  BY <1>2, <1>3, <1>4, <1>5, NetCore

\* All elements of a finite set are in a sequence of them without repetition.
LEMMA SetToSeqsAll ==
    ASSUME NEW T, IsFiniteSet(T), NEW l \in SetToSeqs(T)
    PROVE  l \in Seq(T) /\ \A t \in T : \E i \in DOMAIN l : l[i] = t
<1>1. PICK n \in Nat : n = Cardinality(T)
  BY FS_CardinalityType
<1>2. l \in [1 .. n -> T] /\ \A i, j \in 1 .. n : i # j => l[i] # l[j]
  BY <1>1 DEF SetToSeqs
<1>3. ASSUME NEW t \in T, \A i \in 1 .. n : l[i] # t
      PROVE  FALSE
  <2>1. l \in [1 .. n -> T \ {t}]
    BY <1>2, <1>3
  <2>2. IsFiniteSet(T \ {t}) /\ Cardinality(T \ {t}) = n - 1
    BY <1>1, FS_RemoveElement
  <2>3. IsFiniteSet(1 .. n) /\ Cardinality(1 .. n) = n
    BY FS_Interval
  <2>4. Cardinality(T \ {t}) < Cardinality(1 .. n)
    BY <2>2, <2>3
  <2>5. \E x, y \in 1 .. n : x # y /\ l[x] = l[y]
    BY ONLY <2>1, <2>2, <2>3, <2>4, FS_PigeonHole
  <2> QED
    BY <2>5, <1>2
<1>4. l \in Seq(T) /\ DOMAIN l = 1 .. n
  BY <1>2
<1> QED
  BY <1>3, <1>4

LEMMA ReconnectCore ==
    ASSUME NEW S, Core(S), Reconnect(Phone)
    PROVE  Core(S)' /\ Behind
<1>1. PICK l \in Listens(Phone), t \in Resent(Phone) : up' = [up EXCEPT ![Phone] = l \o t]
  BY DEF Reconnect
<1>2. UNCHANGED clientVars /\ UNCHANGED <<down, server>>
  BY DEF Reconnect
<1>3. FlightInv'
  BY CoreFacts, ReconnectEffect
<1>4. up'[Phone] = l \o t
  BY <1>1, CoreFacts DEF FlightInv
<1>5. PICK R : R = {q \in Path : observers[Phone][q] > 0}
  OBVIOUS
<1>6. PICK T : T = {ListenMsg(p) : p \in R}
  OBVIOUS
<1>7. IsFiniteSet(T)
  <2>1. R \in SUBSET Path
    BY <1>5
  <2>2. IsFiniteSet(R)
    BY ONLY <2>1, PathAssumption, FS_Subset
  <2>3. [q \in R |-> ListenMsg(q)] \in Surjection(R, T)
    BY <1>6 DEF Surjection
  <2> QED
    BY ONLY <2>2, <2>3, FS_Surjection
<1>8. l \in SetToSeqs(T)
  BY <1>5, <1>6 DEF Listens
<1>9. \A p \in R : \E i \in DOMAIN l : l[i] = ListenMsg(p)
  <2>1. \A m \in T : \E i \in DOMAIN l : l[i] = m
    BY <1>7, <1>8, SetToSeqsAll
  <2> QED
    BY <2>1, <1>6
<1>10. l \in Seq(UpMsg)
  BY CoreFacts, ListensFacts
<1>11. t \in Seq(UpMsg)
  <2>1. PICK P : P = pending[Phone]
    OBVIOUS
  <2>2. IsTable(P) /\ putCounter[Phone] \in Nat /\ \A i \in DOMAIN P : i < putCounter[Phone]
    BY <2>1, CoreFacts DEF FlightInv, Connection
  <2>3. PICK U : U = OutstandingPuts(Phone)
    OBVIOUS
  <2>4. U \in SUBSET Nat /\ \A i \in U : i <= putCounter[Phone] /\ P[i].write \in Write
    BY <2>1, <2>2, <2>3 DEF OutstandingPuts, IsTable, Entry
  <2>5. IsFiniteSet(U)
    BY ONLY <2>2, <2>4, FS_BoundedSetOfNaturals
  <2>6. PICK n \in Nat : n = Cardinality(U)
    BY <2>5, FS_CardinalityType
  <2>7. PICK s \in Ascending(U) : t = [i \in DOMAIN s |-> PutMsg(s[i], P[s[i]].write)]
    BY <2>1, <2>3 DEF Resent
  <2>8. s \in [1 .. n -> U]
    BY <2>6, <2>7 DEF Ascending
  <2>9. \A i \in 1 .. n : PutMsg(s[i], P[s[i]].write) \in UpMsg
    BY <2>4, <2>8 DEF PutMsg, UpMsg
  <2> QED
    BY <2>7, <2>8, <2>9
<1>12. \A i \in DOMAIN l : i \in DOMAIN (l \o t) /\ (l \o t)[i] = l[i]
  BY <1>10, <1>11, ConcatFacts
<1>13. ListensOK(connected'[Phone], observers[Phone], filled[Phone], up'[Phone], down'[Phone])
  BY <1>4, <1>5, <1>9, <1>12 DEF ListensOK
<1>14. down'[Phone] \in Seq(AppDown(S)) /\ \A p \in Path : server'[p] \subseteq HomeOf(S, p)
  BY <1>2, CoreFacts DEF Shape
<1> QED
  BY <1>2, <1>3, <1>13, <1>14, NetCore

\* The server takes a request and sends x.
Serving(S, x) ==
    /\ Core(S) /\ FlightInv' /\ UNCHANGED <<clientVars, connected>>
    /\ up[Phone] # << >> /\ up'[Phone] = Tail(up[Phone])
    /\ x \in Seq(AppDown(S)) /\ down'[Phone] = down[Phone] \o x
    /\ \A p \in Path : server'[p] \subseteq HomeOf(S, p)
    /\ \A p \in Path : Head(up[Phone]) = ListenMsg(p) =>
          \E i \in DOMAIN x : x[i].msg = "listened" /\ x[i].path = p

LEMMA ServeCore ==
    ASSUME NEW S, NEW x, Serving(S, x)
    PROVE  Core(S)' /\ Behind
<1> USE DEF Serving
<1>1. PICK U, V : U = up[Phone] /\ V = down[Phone]
  OBVIOUS
<1>2. /\ U \in Seq(UpMsg) /\ V \in Seq(DownMsg) /\ V \in Seq(AppDown(S)) /\ x \in Seq(DownMsg)
  <2>1. AppDown(S) \subseteq DownMsg
    BY CoreFacts, AppTypes
  <2>2. x \in Seq(DownMsg)
    BY <2>1, SeqGrows
  <2> QED
    BY <2>2, <1>1, CoreFacts DEF Shape
<1>3. ListensOK(connected[Phone], observers[Phone], filled[Phone], U, V \o x)
  BY <1>1, <1>2, ListensPushed DEF Core, Views
<1>4. ASSUME NEW p \in Path, Head(U) = ListenMsg(p)
      PROVE  \E i \in DOMAIN (V \o x) : (V \o x)[i].msg = "listened" /\ (V \o x)[i].path = p
  <2>1. PICK i \in DOMAIN x : x[i].msg = "listened" /\ x[i].path = p
    BY <1>1, <1>4
  <2>2. Len(V) + i \in DOMAIN (V \o x) /\ (V \o x)[Len(V) + i] = x[i]
    BY <1>2, ConcatFacts
  <2> QED
    BY <2>1, <2>2
<1>5. ListensOK(connected[Phone], observers[Phone], filled[Phone], Tail(U), V \o x)
  BY <1>1, <1>2, <1>3, <1>4, ListensServed
<1>6. V \o x \in Seq(AppDown(S))
  BY <1>2
<1> QED
  BY <1>1, <1>5, <1>6, NetCore

LEMMA ServerListenCore ==
    ASSUME NEW S, Core(S), ServerListen(Phone)
    PROVE  Core(S)' /\ Behind
<1>1. PICK p : p = Head(up[Phone]).path
  OBVIOUS
<1>2. PICK m : m = [msg |-> "listened", path |-> p, snap |-> server[p]]
  OBVIOUS
<1>3. Phone \in DOMAIN up /\ Phone \in DOMAIN down
  BY CoreFacts DEF FlightInv
<1>4. /\ up[Phone] # << >> /\ Head(up[Phone]).msg = "listen"
      /\ up'[Phone] = Tail(up[Phone]) /\ down'[Phone] = Append(down[Phone], m)
      /\ UNCHANGED <<clientVars, connected, server>>
  BY <1>1, <1>2, <1>3 DEF ServerListen
<1>5. p \in Path
  <2>1. Head(up[Phone]) \in UpMsg /\ Head(up[Phone]).msg = "listen"
    BY <1>4, CoreFacts
  <2> QED
    BY <2>1, <1>1 DEF UpMsg
<1>6. m \in AppDown(S)
  <2>1. server[p] \in SUBSET Key /\ server[p] \subseteq HomeOf(S, p)
    BY <1>5, CoreFacts DEF Shape, FlightInv
  <2> QED
    BY <2>1, <1>2, <1>5 DEF AppDown
<1>7. PICK x : x \in Seq(AppDown(S)) /\ x = <<m>>
  BY <1>6, CoreFacts, OneMore DEF Shape
<1>8. 1 \in DOMAIN x /\ x[1].msg = "listened" /\ x[1].path = p
  BY <1>2, <1>7
<1>9. down'[Phone] = down[Phone] \o x
  BY <1>4, <1>6, <1>7, CoreFacts, OneMore DEF Shape
<1>10. \A q \in Path : Head(up[Phone]) = ListenMsg(q) => q = p
  BY <1>1 DEF ListenMsg
<1>11. FlightInv' /\ \A q \in Path : server'[q] \subseteq HomeOf(S, q)
  BY <1>4, CoreFacts, ServerListenEffect DEF Shape
<1> QED
  <2>1. Serving(S, x)
    BY <1>4, <1>7, <1>8, <1>9, <1>10, <1>11 DEF Serving
  <2> QED
    BY ONLY <2>1, ServeCore

LEMMA ServerUnlistenCore ==
    ASSUME NEW S, Core(S), ServerUnlisten(Phone)
    PROVE  Core(S)' /\ Behind
<1>1. Phone \in DOMAIN up
  BY CoreFacts DEF FlightInv
<1>2. /\ up[Phone] # << >> /\ Head(up[Phone]).msg = "unlisten"
      /\ up'[Phone] = Tail(up[Phone])
      /\ UNCHANGED <<clientVars, connected, server, down>>
  BY <1>1 DEF ServerUnlisten
<1>3. PICK x : x \in Seq(AppDown(S)) /\ x = << >>
  BY CoreFacts, NoMore DEF Shape
<1>4. down'[Phone] = down[Phone] \o x
  BY <1>2, <1>3, CoreFacts, NoMore DEF Shape
<1>5. FlightInv' /\ \A q \in Path : server'[q] \subseteq HomeOf(S, q)
  BY <1>2, CoreFacts, ServerUnlistenEffect DEF Shape
<1>6. \A q \in Path : Head(up[Phone]) # ListenMsg(q)
  BY <1>2 DEF ListenMsg
<1> QED
  <2>1. Serving(S, x)
    BY <1>2, <1>3, <1>4, <1>5, <1>6 DEF Serving
  <2> QED
    BY ONLY <2>1, ServeCore

\* A put on its way up is in the write tree.
LEMMA PutComing ==
    ASSUME NEW S, Core(S), up[Phone] # << >>, Head(up[Phone]).msg = "put"
    PROVE  Head(up[Phone]).write \in AppWrite(S) /\ Head(up[Phone]).id \in Nat
<1>1. PICK P, u : P = pending[Phone] /\ u = up[Phone]
  OBVIOUS
<1>2. InFlight(P, TRUE, u, down[Phone]) /\ u \in Seq(UpMsg) /\ u # << >>
  BY <1>1, CoreFacts, Connected
<1>3. Head(u) = u[1] /\ 1 \in DOMAIN u /\ Head(u) \in UpMsg
  BY <1>2, TailFacts
<1>4. 1 \in PutsIn(u)
  BY <1>1, <1>3 DEF PutsIn
<1>5. u[1].id \in Out(P) /\ u[1].write = P[u[1].id].write
  BY <1>2, <1>4 DEF InFlight
<1>6. P[u[1].id].write \in AppWrite(S)
  BY <1>1, <1>5, CoreFacts DEF Shape, Out
<1> QED
  BY <1>1, <1>3, <1>5, <1>6 DEF UpMsg

LEMMA ServerDenyCore ==
    ASSUME NEW S, Core(S), ServerDeny(Phone)
    PROVE  Core(S)' /\ Behind
<1>1. PICK m : m = AckMsg(Head(up[Phone]).id, "denied")
  OBVIOUS
<1>2. Phone \in DOMAIN up /\ Phone \in DOMAIN down
  BY CoreFacts DEF FlightInv
<1>3. /\ up[Phone] # << >> /\ Head(up[Phone]).msg = "put"
      /\ up'[Phone] = Tail(up[Phone]) /\ down'[Phone] = Append(down[Phone], m)
      /\ UNCHANGED <<clientVars, connected, server>>
  BY <1>1, <1>2 DEF ServerDeny
<1>4. m \in AppDown(S)
  BY <1>1, <1>3, PutComing DEF AckMsg, AppDown
<1>5. PICK x : x \in Seq(AppDown(S)) /\ x = <<m>>
  BY <1>4, CoreFacts, OneMore DEF Shape
<1>6. down'[Phone] = down[Phone] \o x
  BY <1>3, <1>4, <1>5, CoreFacts, OneMore DEF Shape
<1>7. FlightInv' /\ \A q \in Path : server'[q] \subseteq HomeOf(S, q)
  BY <1>3, CoreFacts, ServerDenyEffect DEF Shape
<1>8. \A q \in Path : Head(up[Phone]) # ListenMsg(q)
  BY <1>3 DEF ListenMsg
<1> QED
  <2>1. Serving(S, x)
    BY <1>3, <1>5, <1>6, <1>7, <1>8 DEF Serving
  <2> QED
    BY ONLY <2>1, ServeCore

\* What the server pushes after a write.
LEMMA PushHome ==
    ASSUME NEW S, Core(S), NEW w \in AnyWrite(S), NEW D, D = Applied(w, server[w.path])
    PROVE  /\ w \in Write /\ w.path \in Path /\ D \in SUBSET Key /\ D \subseteq HomeOf(S, w.path)
           /\ Push(w.path, D)[Phone] \in Seq(AppDown(S))
           /\ \A i \in DOMAIN Push(w.path, D)[Phone] : Push(w.path, D)[Phone][i].msg = "data"
           /\ \A X : X = [server EXCEPT ![w.path] = D] => \A q \in Path : X[q] \subseteq HomeOf(S, q)
<1>1. w \in Write /\ w.path \in Path
  BY CoreFacts, AppTypes, WriteFacts
<1>2. server \in [Path -> SUBSET Key] /\ \A q \in Path : server[q] \subseteq HomeOf(S, q)
  BY CoreFacts DEF Shape, FlightInv
<1>3. D \in SUBSET Key /\ D \subseteq HomeOf(S, w.path)
  BY <1>1, <1>2, CoreFacts, AppliedHome, WriteFacts
<1>4. PICK m : m = [msg |-> "data", path |-> w.path, snap |-> D]
  OBVIOUS
<1>5. m \in AppDown(S) /\ m.msg = "data"
  BY <1>1, <1>3, <1>4 DEF AppDown
<1>6. Push(w.path, D)[Phone] = IF Phone \in listeners[w.path] THEN <<m>> ELSE << >>
  BY <1>4, CoreFacts DEF Push
<1>7. \A X : X = [server EXCEPT ![w.path] = D] => \A q \in Path : X[q] \subseteq HomeOf(S, q)
  BY <1>1, <1>2, <1>3
<1> QED
  BY <1>1, <1>3, <1>5, <1>6, <1>7

LEMMA ServerPutCore ==
    ASSUME NEW S, Core(S), ServerPut(Phone)
    PROVE  Core(S)' /\ Behind
<1>1. PICK w : w = Head(up[Phone]).write
  OBVIOUS
<1>2. PICK D : D = Applied(w, server[w.path])
  OBVIOUS
<1>3. PICK y : y = Push(w.path, D)[Phone]
  OBVIOUS
<1>4. PICK m : m = AckMsg(Head(up[Phone]).id, "ok")
  OBVIOUS
<1>5. /\ up[Phone] # << >> /\ Head(up[Phone]).msg = "put"
      /\ up' = [up EXCEPT ![Phone] = Tail(@)]
      /\ server' = [server EXCEPT ![w.path] = D]
      /\ down' = [e \in Device |-> down[e] \o Push(w.path, D)[e] \o
                     IF e = Phone THEN <<m>> ELSE << >>]
      /\ UNCHANGED <<clientVars, connected>>
  BY <1>1, <1>2, <1>4 DEF ServerPut
<1>6. w \in AppWrite(S) /\ m \in AppDown(S)
  BY <1>1, <1>4, <1>5, PutComing DEF AckMsg, AppDown
<1>7. /\ y \in Seq(AppDown(S)) /\ \A q \in Path : server'[q] \subseteq HomeOf(S, q)
  BY <1>2, <1>3, <1>5, <1>6, CoreFacts, AppTypes, PushHome
<1>8. up'[Phone] = Tail(up[Phone]) /\ down'[Phone] = down[Phone] \o y \o <<m>>
  BY <1>3, <1>5, CoreFacts DEF FlightInv
<1>9. PICK x : x = y \o <<m>>
  OBVIOUS
<1>10. x \in Seq(AppDown(S)) /\ down'[Phone] = down[Phone] \o x
  <2>1. PICK z, V : z = <<m>> /\ V = down[Phone]
    OBVIOUS
  <2>2. V \in Seq(AppDown(S)) /\ z \in Seq(AppDown(S))
    BY <2>1, <1>6, CoreFacts, OneMore DEF Shape
  <2>3. V \o y \o z = V \o (y \o z) /\ y \o z \in Seq(AppDown(S))
    BY ONLY <2>2, <1>7, JoinTwice
  <2>4. x = y \o z /\ down'[Phone] = V \o y \o z
    BY <2>1, <1>8, <1>9
  <2> QED
    BY ONLY <2>1, <2>3, <2>4
<1>11. FlightInv'
  BY CoreFacts, ServerPutEffect
<1>12. \A q \in Path : Head(up[Phone]) # ListenMsg(q)
  BY <1>5 DEF ListenMsg
<1> QED
  <2>1. Serving(S, x)
    BY <1>5, <1>7, <1>8, <1>10, <1>11, <1>12 DEF Serving
  <2> QED
    BY ONLY <2>1, ServeCore

LEMMA ServerRemoteCore ==
    ASSUME NEW S, Core(S), NEW w \in AnyWrite(S), ServerRemote(w)
    PROVE  Core(S)' /\ Behind
<1>1. PICK D : D = Applied(w, server[w.path])
  OBVIOUS
<1>2. PICK y : y = Push(w.path, D)[Phone]
  OBVIOUS
<1>3. /\ server' = [server EXCEPT ![w.path] = D]
      /\ down' = [e \in Device |-> down[e] \o Push(w.path, D)[e]]
      /\ UNCHANGED <<clientVars, connected, up>>
  BY <1>1 DEF ServerRemote
<1>4. /\ y \in Seq(AppDown(S)) /\ \A q \in Path : server'[q] \subseteq HomeOf(S, q)
  BY <1>1, <1>2, <1>3, PushHome
<1>5. down'[Phone] = down[Phone] \o y
  BY <1>2, <1>3, CoreFacts
<1>6. FlightInv'
  BY <1>1, CoreFacts, AppTypes, ServerRemoteEffect
<1>7. y \in Seq(DownMsg)
  BY <1>4, CoreFacts, AppTypes, SeqGrows
<1>8. ListensOK(connected[Phone], observers[Phone], filled[Phone], up[Phone], down'[Phone])
  BY <1>5, <1>7, CoreFacts, ListensPushed DEF Core, Views
<1>9. down'[Phone] \in Seq(AppDown(S))
  BY <1>4, <1>5, CoreFacts DEF Shape
<1> QED
  BY <1>3, <1>4, <1>6, <1>8, <1>9, NetCore

-----------------------------------------------------------------------------
(***************************************************************************)
(* What the app does to the database client.                               *)
(***************************************************************************)

\* A new process.
LEMMA KilledCore ==
    ASSUME NEW S, Core(S), Killed(Phone)
    PROVE  Core(S)'
<1>1. PICK Z, E, N : Z = << >> /\ E = [p \in Path |-> << >>] /\ N = [p \in Path |-> 0]
  OBVIOUS
<1>2. /\ Z \in Seq(EventOf(Request) \cup Block) /\ Z \in Seq(CallOf(Request))
      /\ Z \in Seq(AppCall(S)) /\ Z \in Seq(AppBlock(S)) /\ Z \in Seq(AppDown(S)) /\ DOMAIN Z = {}
  BY <1>1
<1>3. FlightInv'
  BY CoreFacts, KilledEffect
<1>4. /\ calls'[Phone] = Z /\ mainq'[Phone] = Z /\ down'[Phone] = Z /\ waiting'[Phone] = E
      /\ observers'[Phone] = N /\ pending'[Phone] = << >> /\ putCounter'[Phone] = 1
      /\ cache'[Phone] = [p \in Path |-> {}] /\ filled'[Phone] = {} /\ connected'[Phone] = FALSE
      /\ Domains' /\ UNCHANGED server
  BY <1>1, CoreFacts DEF Killed, Domains, FlightInv
<1>5. Observing(N, E, Z, Z)
  <2>1. \A p \in Path : Num(Z, ValuesAt(p)) = 0 /\ Num(Z, {RemoveObserverCall(p)}) = 0
    BY <1>1, NumEmpty
  <2>2. \A p \in Path : N[p] = 0 /\ E[p] = << >> /\ Len(E[p]) = 0
    BY <1>1
  <2>3. N \in [Path -> Nat] /\ E \in [Path -> Seq(Request)]
    BY <1>1
  <2> QED
    BY <1>2, <2>1, <2>2, <2>3 DEF Observing, Owed
<1>6. FilledOK(N, E, {}) /\ ListensOK(FALSE, N, {}, up'[Phone], Z)
  BY DEF FilledOK, ListensOK
<1>7. Views'
  BY <1>4, <1>5, <1>6 DEF Views
<1>8. Shape(S)'
  BY <1>2, <1>4, CoreFacts DEF Shape
<1> QED
  BY <1>3, <1>4, <1>7, <1>8 DEF Core

LEMMA NothingCore ==
    ASSUME NEW S, Core(S), UNCHANGED dbVars
    PROVE  Core(S)' /\ Behind
<1>1. UNCHANGED clientVars /\ UNCHANGED netVars /\ UNCHANGED <<mine, gone>>
  BY DEF dbVars
<1>2. FlightInv'
  BY <1>1, CoreFacts, NoEffect DEF clientVars, netVars
<1>3. down'[Phone] \in Seq(AppDown(S)) /\ \A p \in Path : server'[p] \subseteq HomeOf(S, p)
  BY <1>1, CoreFacts DEF Shape, netVars
<1>4. ListensOK(connected'[Phone], observers[Phone], filled[Phone], up'[Phone], down'[Phone])
  BY <1>1 DEF Core, Views, netVars
<1> QED
  BY <1>1, <1>2, <1>3, <1>4, NetCore

\* The app makes calls C' and takes or adds blocks of its main queue.
AppMoves(S, Q, C) ==
    /\ mainq'[Phone] = Q /\ calls'[Phone] = C
    /\ DOMAIN mainq' = DOMAIN mainq /\ DOMAIN calls' = DOMAIN calls
    /\ UNCHANGED clientRest
    /\ Q \in Seq(AppBlock(S)) /\ C \in Seq(AppCall(S))
    /\ Observing(observers[Phone], waiting[Phone], Q, C)

LEMMA AppMovesCore ==
    ASSUME NEW S, Core(S), NEW Q, NEW C, AppMoves(S, Q, C)
    PROVE  /\ Core(S)' /\ mainq'[Phone] = Q /\ calls'[Phone] = C
           /\ (Fetching(waiting[Phone], Q, C) => FetchingPosts')
<1>1. UNCHANGED netVars /\ UNCHANGED <<mine, gone, pending, putCounter, observers, waiting, cache, filled>>
  BY DEF AppMoves, clientRest
<1>2. FlightInv'
  BY <1>1, CoreFacts, NoEffect DEF netVars
<1>3. mainq'[Phone] = Q /\ calls'[Phone] = C /\ Domains'
  BY <1>1, CoreFacts DEF AppMoves, Domains
<1>4. Views'
  BY <1>1, <1>3 DEF AppMoves, Core, Views, netVars
<1>5. Shape(S)'
  BY <1>1, <1>3, CoreFacts DEF AppMoves, Shape, netVars
<1> QED
  BY <1>1, <1>2, <1>3, <1>4, <1>5 DEF Core, FetchingPosts

\* Calls that remove no observer.
Asks(S, cs) == cs \in Seq(AppCall(S)) /\ \A i \in DOMAIN cs : cs[i].call # "removeObserver"
FetchesPosts(cs) == \E i \in DOMAIN cs : cs[i].call = "observe" /\ cs[i].path = PostsPath

LEMMA FetchingCalls ==
    ASSUME NEW W, NEW Q, NEW A, NEW C \in Seq(A), NEW x \in Seq(A)
    PROVE  /\ Fetching(W, Q, C) => Fetching(W, Q, C \o x)
           /\ FetchesPosts(x) => Fetching(W, Q, C \o x)
<1>1. /\ Len(C) \in Nat /\ Len(x) \in Nat /\ DOMAIN C = 1 .. Len(C) /\ DOMAIN x = 1 .. Len(x)
      /\ DOMAIN (C \o x) = 1 .. Len(C) + Len(x)
      /\ \A i \in 1 .. Len(C) : (C \o x)[i] = C[i]
      /\ \A i \in 1 .. Len(x) : (C \o x)[Len(C) + i] = x[i]
  BY ConcatFacts
<1>2. PICK y : y = C \o x
  OBVIOUS
<1>3. \A i \in DOMAIN C : i \in DOMAIN y /\ y[i] = C[i]
  BY <1>1, <1>2
<1>4. \A i \in DOMAIN x : Len(C) + i \in DOMAIN y /\ y[Len(C) + i] = x[i]
  BY <1>1, <1>2
<1>5. (Fetching(W, Q, C) => Fetching(W, Q, y)) /\ (FetchesPosts(x) => Fetching(W, Q, y))
  BY <1>3, <1>4 DEF Fetching, FetchesPosts
<1> QED
  BY <1>2, <1>5

LEMMA CallingCore ==
    ASSUME NEW S, Core(S), NEW cs, Asks(S, cs), Calling(cs)
    PROVE  Core(S)' /\ Behind /\ (FetchesPosts(cs) => FetchingPosts')
<1>1. PICK Q, C : Q = mainq[Phone] /\ C = calls[Phone]
  OBVIOUS
<1>2. /\ C \in Seq(AppCall(S)) /\ cs \in Seq(AppCall(S)) /\ Q \in Seq(AppBlock(S))
      /\ cs \in Seq(CallOf(Request))
  <2>1. AppCall(S) \subseteq CallOf(Request)
    BY CoreFacts, AppTypes
  <2>2. cs \in Seq(AppCall(S))
    BY DEF Asks
  <2> QED
    BY <1>1, <2>1, <2>2, SeqGrows, CoreFacts DEF Shape
<1>3. PICK D : D = C \o cs
  OBVIOUS
<1>4. D \in Seq(AppCall(S))
  BY <1>2, <1>3
<1>5. Observing(observers[Phone], waiting[Phone], Q, D)
  BY <1>1, <1>2, <1>3, ObservingCalls DEF Core, Views, Asks
<1>6. AppMoves(S, Q, D)
  <2>1. mainq' = mainq /\ calls' = [calls EXCEPT ![Phone] = D] /\ UNCHANGED clientRest
    BY <1>1, <1>3, CoreFacts DEF Calling, Domains
  <2>2. mainq'[Phone] = Q /\ calls'[Phone] = D /\ DOMAIN mainq' = DOMAIN mainq /\ DOMAIN calls' = DOMAIN calls
    BY <1>1, <2>1, CoreFacts DEF Domains
  <2> QED
    BY <1>1, <1>2, <1>4, <1>5, <2>1, <2>2 DEF AppMoves
<1>7. /\ Core(S)' /\ mainq'[Phone] = Q /\ calls'[Phone] = D
      /\ (Fetching(waiting[Phone], Q, D) => FetchingPosts')
  BY ONLY Core(S), <1>6, AppMovesCore
<1>8. /\ Fetching(waiting[Phone], Q, C) => Fetching(waiting[Phone], Q, D)
      /\ FetchesPosts(cs) => Fetching(waiting[Phone], Q, D)
  BY <1>2, <1>3, FetchingCalls
<1> QED
  BY <1>1, <1>7, <1>8 DEF Behind, FetchingPosts

LEMMA ContainsTail ==
    ASSUME NEW T, NEW q \in Seq(T), q # << >>, NEW b, Head(q) # b, Contains(q, b)
    PROVE  Contains(Tail(q), b)
<1>1. /\ Tail(q) \in Seq(T) /\ Len(q) \in Nat /\ Len(q) >= 1 /\ Head(q) = q[1]
      /\ DOMAIN Tail(q) = 1 .. Len(q) - 1
      /\ \A i \in 1 .. Len(q) - 1 : Tail(q)[i] = q[i + 1]
  BY TailFacts
<1>2. PICK i \in 1 .. Len(q) : q[i] = b
  BY DEF Contains
<1>3. i - 1 \in 1 .. Len(q) - 1 /\ (i - 1) + 1 = i
  BY <1>1, <1>2
<1>4. Tail(q)[i - 1] = b /\ Len(Tail(q)) = Len(q) - 1
  BY <1>1, <1>2, <1>3
<1> QED
  BY <1>3, <1>4 DEF Contains

LEMMA ContainsLast ==
    ASSUME NEW T, NEW q \in Seq(T), NEW b \in T
    PROVE  Contains(q \o <<b>>, b)
<1>1. /\ Append(q, b) \in Seq(T) /\ Len(q) \in Nat
      /\ DOMAIN Append(q, b) = 1 .. Len(q) + 1 /\ Append(q, b)[Len(q) + 1] = b
  BY AppendFacts
<1>2. Append(q, b) = q \o <<b>>
  BY OneMore
<1>3. Len(Append(q, b)) = Len(q) + 1
  BY <1>1
<1> QED
  BY <1>1, <1>2, <1>3 DEF Contains

\* A block at the head of the main queue that is no answer to a fetch of the posts leaves the
\* fetches of the posts.
LEMMA FetchingBlockTaken ==
    ASSUME NEW W, NEW T, NEW Q \in Seq(T), Q # << >>, NEW m \in Seq(T), NEW C, Fetching(W, Q, C),
           Head(Q).block # "value" \/ Head(Q).path # PostsPath
    PROVE  Fetching(W, Tail(Q) \o m, C)
<1>1. /\ Len(Q) \in Nat /\ Len(Q) >= 1 /\ Tail(Q) \in Seq(T)
      /\ DOMAIN Q = 1 .. Len(Q) /\ DOMAIN Tail(Q) = 1 .. Len(Q) - 1
      /\ \A i \in 1 .. Len(Q) - 1 : Tail(Q)[i] = Q[i + 1]
      /\ Head(Q) = Q[1]
  BY TailFacts
<1>2. PICK R : R = Tail(Q)
  OBVIOUS
<1>3. R \in Seq(T) /\ DOMAIN R = 1 .. Len(Q) - 1 /\ Len(R) = Len(Q) - 1
  BY <1>1, <1>2
<1>4. PICK y : y = R \o m
  OBVIOUS
<1>5. \A i \in DOMAIN R : i \in DOMAIN y /\ y[i] = R[i]
  BY <1>3, <1>4, ConcatFacts
<1>6. ASSUME NEW i \in DOMAIN Q, Q[i].block = "value" /\ Q[i].path = PostsPath
      PROVE  \E j \in DOMAIN y : y[j] = Q[i]
  <2>1. i # 1
    BY <1>1, <1>6
  <2>2. i - 1 \in 1 .. Len(Q) - 1 /\ (i - 1) + 1 = i
    BY <1>1, <2>1
  <2>3. R[i - 1] = Q[i]
    BY <1>1, <1>2, <2>2
  <2> QED
    BY <1>3, <1>5, <2>2, <2>3
<1>7. Fetching(W, y, C)
  BY <1>6 DEF Fetching
<1> QED
  BY <1>2, <1>4, <1>7

\* The head of the main queue is the answer to a fetch.
LEMMA ArrivedFacts ==
    ASSUME NEW S, Core(S), NEW p \in Path, NEW r, Arrived(p, r)
    PROVE  /\ mainq[Phone] # << >> /\ Head(mainq[Phone]) \in ValuesAt(p)
           /\ Snap \subseteq HomeOf(S, p) /\ Snap \in SUBSET Key
<1>1. PICK e : e = Head(mainq[Phone])
  OBVIOUS
<1>2. mainq[Phone] # << >> /\ e.block = "value" /\ e.path = p
  BY <1>1 DEF Arrived
<1>3. e \in AppBlock(S)
  BY <1>1, <1>2, CoreFacts DEF Shape
<1>4. e \in EventOf(Request) /\ e.snap \subseteq HomeOf(S, p)
  BY <1>2, <1>3 DEF AppBlock, Block
<1>5. e \in ValuesAt(p) /\ e.snap \in SUBSET Key
  BY <1>2, <1>4 DEF EventOf, ValuesAt
<1> QED
  BY <1>1, <1>2, <1>4, <1>5 DEF Snap

\* The app runs a value event and adds the blocks m.
LEMMA ValueRanCore ==
    ASSUME NEW S, Core(S), NEW p \in Path, mainq[Phone] # << >>, Head(mainq[Phone]) \in ValuesAt(p),
           NEW m \in Seq(Block), Ran(<<RemoveObserverCall(p)>>, m)
    PROVE  /\ Core(S)' /\ mainq'[Phone] = Tail(mainq[Phone]) \o m
           /\ (p # PostsPath /\ FetchingPosts => FetchingPosts')
<1>1. PICK Q, C : Q = mainq[Phone] /\ C = calls[Phone]
  OBVIOUS
<1>2. PICK R, D : R = Tail(Q) \o m /\ D = C \o <<RemoveObserverCall(p)>>
  OBVIOUS
<1>3. Q \in Seq(AppBlock(S)) /\ C \in Seq(AppCall(S)) /\ Q # << >>
  BY <1>1, CoreFacts DEF Shape
<1>4. m \in Seq(AppBlock(S))
  BY SeqGrows DEF AppBlock
<1>5. RemoveObserverCall(p) \in AppCall(S)
  BY DEF AppCall, RemoveObserverCall
<1>6. PICK x : x = <<RemoveObserverCall(p)>>
  OBVIOUS
<1>7. x \in Seq(AppCall(S))
  BY <1>3, <1>5, <1>6, OneMore
<1>8. R \in Seq(AppBlock(S)) /\ D \in Seq(AppCall(S))
  <2>1. Tail(Q) \in Seq(AppBlock(S))
    BY <1>3, TailFacts
  <2> QED
    BY <2>1, <1>2, <1>3, <1>4, <1>6, <1>7
<1>9. Observing(observers[Phone], waiting[Phone], R, D)
  <2>1. Observing(observers[Phone], waiting[Phone], Q, C) /\ Head(Q) \in ValuesAt(p)
    BY <1>1 DEF Core, Views
  <2>2. Observing(observers[Phone], waiting[Phone], Tail(Q) \o m, C \o <<RemoveObserverCall(p)>>)
    BY <1>3, <2>1, ObservingValueRun
  <2> QED
    BY <1>2, <2>2
<1>10. AppMoves(S, R, D)
  BY <1>1, <1>2, <1>8, <1>9, CoreFacts DEF AppMoves, Ran, Domains
<1>11. /\ Core(S)' /\ mainq'[Phone] = R /\ calls'[Phone] = D
       /\ (Fetching(waiting[Phone], R, D) => FetchingPosts')
  BY ONLY Core(S), <1>10, AppMovesCore
<1>12. ASSUME p # PostsPath, FetchingPosts PROVE FetchingPosts'
  <2>1. Head(Q).path # PostsPath
    BY <1>1, <1>12 DEF ValuesAt
  <2>2. Fetching(waiting[Phone], R, C)
    BY <2>1, <1>1, <1>2, <1>3, <1>4, <1>12, FetchingBlockTaken DEF FetchingPosts
  <2>3. Fetching(waiting[Phone], R, C \o x)
    BY <2>2, <1>3, <1>7, FetchingCalls
  <2> QED
    BY <2>3, <1>2, <1>6, <1>11
<1> QED
  BY <1>1, <1>2, <1>11, <1>12

\* The app runs a block that reloads a table.
LEMMA ReloadRanCore ==
    ASSUME NEW S, Core(S), mainq[Phone] # << >>, Head(mainq[Phone]) \in Block, Ran(<< >>, << >>)
    PROVE  /\ Core(S)' /\ mainq'[Phone] = Tail(mainq[Phone])
           /\ (FetchingPosts => FetchingPosts')
<1>1. PICK Q, C : Q = mainq[Phone] /\ C = calls[Phone]
  OBVIOUS
<1>2. PICK R : R = Tail(Q)
  OBVIOUS
<1>3. Q \in Seq(AppBlock(S)) /\ C \in Seq(AppCall(S)) /\ Q # << >> /\ R \in Seq(AppBlock(S))
  BY <1>1, <1>2, CoreFacts, TailFacts DEF Shape
<1>4. R \o << >> = R /\ C \o << >> = C /\ << >> \in Seq(AppBlock(S))
  BY <1>3, NoMore
<1>5. Observing(observers[Phone], waiting[Phone], R, C)
  BY <1>1, <1>2, <1>3, ObservingReloadRun DEF Core, Views
<1>6. AppMoves(S, R, C)
  BY <1>1, <1>2, <1>3, <1>4, <1>5, CoreFacts DEF AppMoves, Ran, Domains
<1>7. /\ Core(S)' /\ mainq'[Phone] = R /\ calls'[Phone] = C
      /\ (Fetching(waiting[Phone], R, C) => FetchingPosts')
  BY ONLY Core(S), <1>6, AppMovesCore
<1>8. FetchingPosts => Fetching(waiting[Phone], R, C)
  <2>1. Head(Q).block # "value"
    BY <1>1 DEF Block
  <2>2. PICK z \in Seq(AppBlock(S)) : z = << >>
    BY <1>4
  <2>3. FetchingPosts => Fetching(waiting[Phone], Tail(Q) \o z, C)
    BY <2>1, <2>2, <1>1, <1>3, FetchingBlockTaken DEF FetchingPosts
  <2> QED
    BY <2>2, <2>3, <1>2, <1>4
<1> QED
  BY <1>1, <1>2, <1>7, <1>8

-----------------------------------------------------------------------------
(***************************************************************************)
(* The app.                                                                *)
(***************************************************************************)

\* What the app keeps of posts is in S.
AppOK(S) ==
    /\ scope \in Scopes
    /\ user \in Optional(Account) /\ posts \subseteq S /\ detached \in BOOLEAN /\ tab \in Tab
    /\ localPosts \in Seq(S) /\ usersPosts \in Seq(S)
    /\ boardRows \in Seq(S) /\ activityRows \in Seq(S)
    /\ deletionObservers \in Nat /\ deletionObservers >= 1
    /\ detail \in Optional(S) /\ comments \subseteq Comment /\ commentRows \subseteq Comment
    /\ opened \in Nat /\ crashed \in BOOLEAN
    /\ lastSnap \subseteq S /\ boardSnap \subseteq S /\ deleted \subseteq S

\* The shared array is what the last fetch brought, or another fetch is under way.
FetchOK == crashed \/ lastSnap = {} \/ posts = Readable(lastSnap) \/ FetchingPosts

BoardInv(S) == Core(S) /\ AppOK(S) /\ TablesInSync /\ FetchOK

LEMMA OptionalFacts ==
    ASSUME NEW S
    PROVE  /\ << >> \in Optional(S)
           /\ \A x \in S : <<x>> \in Optional(S)
           /\ \A d \in Optional(S) : d # << >> => d[1] \in S
<1>1. \A x \in S : <<x>> \in [1 .. 1 -> S]
  OBVIOUS
<1> QED
  BY <1>1 DEF Optional

\* The posts are finitely many, and so are the results of ordering some of them.
LEMMA PostFinite == IsFiniteSet(Post)
<1>1. PICK f : f = [p \in CommentPaths |-> p[2]]
  OBVIOUS
<1>2. \A k \in Post : CommentsPath(k)[2] = k
  BY DEF CommentsPath
<1>3. f \in Surjection(CommentPaths, Post)
  <2>1. f \in [CommentPaths -> Post]
    BY <1>1, <1>2 DEF CommentPaths
  <2>2. \A k \in Post : \E p \in CommentPaths : f[p] = k
    BY <1>1, <1>2, PathFacts
  <2> QED
    BY <2>1, <2>2 DEF Surjection
<1>4. IsFiniteSet(CommentPaths)
  BY PathAssumption, PathFacts, FS_Subset
<1> QED
  BY ONLY <1>3, <1>4, FS_Surjection

LEMMA OrderedPosts ==
    ASSUME NEW S, S \subseteq Post, NEW X, X \subseteq S, NEW l \in orderPostsByDate(X)
    PROVE  l \in Seq(S)
<1>1. IsFiniteSet(X)
  BY PostFinite, FS_Subset
<1>2. l \in SetToSeqs(X)
  BY DEF orderPostsByDate
<1>3. l \in Seq(X)
  BY ONLY <1>1, <1>2, SetToSeqsAll
<1> QED
  BY <1>3, SeqGrows

LEMMA KeptPosts ==
    ASSUME NEW X
    PROVE  /\ Readable(X) \subseteq X
           /\ \A lat, long : PostsInArea(X, lat, long) \subseteq X
           /\ \A name : PostsByUser(X, name) \subseteq X
BY DEF Readable, PostsInArea, PostsByUser

LEMMA RemovedAt ==
    ASSUME NEW S, NEW s \in Seq(S), NEW i \in DOMAIN s
    PROVE  RemoveAt(s, i) \in Seq(S)
<1>1. Len(s) \in Nat /\ DOMAIN s = 1 .. Len(s) /\ i \in Nat /\ 1 <= i /\ i <= Len(s)
      /\ \A j \in 1 .. Len(s) : s[j] \in S
  OBVIOUS
<1>2. SubSeq(s, 1, i - 1) \in Seq(S)
  BY <1>1, SubSeqProperties
<1>3. SubSeq(s, i + 1, Len(s)) \in Seq(S)
  BY <1>1, SubSeqProperties
<1> QED
  BY <1>2, <1>3 DEF RemoveAt

\* Calls the app makes.
LEMMA AsksBoth ==
    ASSUME NEW S, NEW a, NEW b, Asks(S, a), Asks(S, b)
    PROVE  /\ Asks(S, a \o b)
           /\ FetchesPosts(a) \/ FetchesPosts(b) => FetchesPosts(a \o b)
<1>1. a \in Seq(AppCall(S)) /\ b \in Seq(AppCall(S)) /\ a \o b \in Seq(AppCall(S))
  BY DEF Asks
<1>2. PICK y : y = a \o b
  OBVIOUS
<1>3. /\ Len(a) \in Nat /\ Len(b) \in Nat /\ DOMAIN a = 1 .. Len(a) /\ DOMAIN b = 1 .. Len(b)
      /\ DOMAIN y = 1 .. Len(a) + Len(b)
      /\ \A i \in 1 .. Len(a) : y[i] = a[i]
      /\ \A i \in 1 .. Len(b) : y[Len(a) + i] = b[i]
  BY <1>1, <1>2, ConcatFacts
<1>4. ASSUME NEW i \in DOMAIN y PROVE y[i].call # "removeObserver"
  <2>1. CASE i \in 1 .. Len(a)
    BY <2>1, <1>3 DEF Asks
  <2>2. CASE i \notin 1 .. Len(a)
    <3>1. i - Len(a) \in 1 .. Len(b) /\ Len(a) + (i - Len(a)) = i
      BY <2>2, <1>3
    <3>2. y[i] = b[i - Len(a)]
      BY <3>1, <1>3
    <3> QED
      BY <3>1, <3>2, <1>3 DEF Asks
  <2> QED
    BY <2>1, <2>2
<1>5. \A i \in DOMAIN a : i \in DOMAIN y /\ y[i] = a[i]
  BY <1>3
<1>6. \A i \in DOMAIN b : Len(a) + i \in DOMAIN y /\ y[Len(a) + i] = b[i]
  BY <1>3
<1>7. FetchesPosts(a) \/ FetchesPosts(b) => FetchesPosts(y)
  BY <1>5, <1>6 DEF FetchesPosts
<1> QED
  BY <1>1, <1>2, <1>4, <1>7 DEF Asks

LEMMA AsksOne ==
    ASSUME NEW S, NEW c \in AppCall(S), c.call # "removeObserver"
    PROVE  /\ Asks(S, <<c>>)
           /\ c.call = "observe" /\ c.path = PostsPath => FetchesPosts(<<c>>)
<1>1. PICK x : x = <<c>>
  OBVIOUS
<1>2. x \in Seq(AppCall(S)) /\ DOMAIN x = {1} /\ x[1] = c
  BY <1>1
<1>3. Asks(S, x) /\ (c.call = "observe" /\ c.path = PostsPath => FetchesPosts(x))
  BY <1>2 DEF Asks, FetchesPosts
<1> QED
  BY <1>1, <1>3

LEMMA AsksOfTheApp ==
    ASSUME NEW S, S \subseteq Post
    PROVE  /\ \A kind \in {"board", "created", "activity"} :
                 Asks(S, FetchPosts(kind)) /\ FetchesPosts(FetchPosts(kind))
           /\ \A k \in Post : Asks(S, CreatePostCall(k))
           /\ \A k \in S : \A c \in Comment : Asks(S, CreateCommentCall(k, c))
           /\ \A k \in S : \A n \in Nat : Asks(S, FetchComments(k, n))
           /\ \A k \in S : Asks(S, DeletePostandItsComments(k))
<1>1. ASSUME NEW kind \in {"board", "created", "activity"}
      PROVE  Asks(S, FetchPosts(kind)) /\ FetchesPosts(FetchPosts(kind))
  <2>1. PICK c : c = ObserveCall(PostsPath, kind)
    OBVIOUS
  <2>2. c \in AppCall(S) /\ c.call = "observe" /\ c.path = PostsPath
    BY <2>1, PathFacts DEF ObserveCall, AppCall, Request
  <2> QED
    BY <2>1, <2>2, AsksOne DEF FetchPosts
<1>2. ASSUME NEW k \in Post PROVE Asks(S, CreatePostCall(k))
  <2>1. PICK c : c = PutCall(SetValue(PostsPath, k))
    OBVIOUS
  <2>2. c \in AppCall(S) /\ c.call = "put"
    BY <2>1 DEF PutCall, SetValue, AppCall
  <2> QED
    BY <2>1, <2>2, AsksOne DEF CreatePostCall
<1>3. ASSUME NEW k \in S, NEW e \in Comment PROVE Asks(S, CreateCommentCall(k, e))
  <2>1. PICK c : c = PutCall(SetValue(CommentsPath(k), e))
    OBVIOUS
  <2>2. c \in AppCall(S) /\ c.call = "put"
    BY <2>1, PathFacts DEF PutCall, SetValue, AppCall, AppWrite
  <2> QED
    BY <2>1, <2>2, AsksOne DEF CreateCommentCall
<1>4. ASSUME NEW k \in S, NEW n \in Nat PROVE Asks(S, FetchComments(k, n))
  <2>1. PICK c : c = ObserveCall(CommentsPath(k), n)
    OBVIOUS
  <2>2. c \in AppCall(S) /\ c.call = "observe"
    BY <2>1, PathFacts DEF ObserveCall, AppCall, Request
  <2> QED
    BY <2>1, <2>2, AsksOne DEF FetchComments
<1>5. ASSUME NEW k \in S PROVE Asks(S, DeletePostandItsComments(k))
  <2>1. PICK c, e : c = PutCall(RemoveValue(PostsPath, k)) /\ e = PutCall(ClearPath(CommentsPath(k)))
    OBVIOUS
  <2>2. c \in AppCall(S) /\ c.call = "put" /\ e \in AppCall(S) /\ e.call = "put"
    BY <2>1 DEF PutCall, RemoveValue, ClearPath, AppCall, AppWrite
  <2>3. <<c, e>> \in Seq(AppCall(S)) /\ \A i \in DOMAIN <<c, e>> : <<c, e>>[i].call # "removeObserver"
    BY <2>2
  <2> QED
    BY <2>1, <2>3 DEF DeletePostandItsComments, Asks
<1> QED
  BY <1>1, <1>2, <1>3, <1>4, <1>5

LEMMA DeletionAsks ==
    ASSUME NEW S, deletionObservers \in Nat, deletionObservers >= 1
    PROVE  Asks(S, PostDeletion) /\ FetchesPosts(PostDeletion)
<1>1. PICK c : c = ObserveCall(PostsPath, "board")
  OBVIOUS
<1>2. c \in AppCall(S) /\ c.call = "observe" /\ c.path = PostsPath
  BY <1>1, PathFacts DEF ObserveCall, AppCall, Request
<1>3. PICK x, n : x = PostDeletion /\ n = deletionObservers
  OBVIOUS
<1>4. x = [i \in 1 .. n |-> c] /\ n \in Nat /\ n >= 1
  BY <1>1, <1>3 DEF PostDeletion
<1>5. x \in Seq(AppCall(S)) /\ DOMAIN x = 1 .. n /\ \A i \in 1 .. n : x[i] = c
  BY <1>2, <1>4
<1>6. 1 \in DOMAIN x
  BY <1>4, <1>5
<1> QED
  BY <1>2, <1>3, <1>5, <1>6 DEF Asks, FetchesPosts

-----------------------------------------------------------------------------
\* The database moves and the app does not.
LEMMA BehindInv ==
    ASSUME NEW S, BoardInv(S), Core(S)', Behind, UNCHANGED <<appVars, scope, historyVars>>
    PROVE  BoardInv(S)'
<1> USE DEF appVars, controllerVars, boardVars, activityVars, detailVars, historyVars
<1>1. AppOK(S)'
  BY DEF BoardInv, AppOK
<1>2. TablesInSync'
  BY DEF BoardInv, TablesInSync, Behind
<1>3. FetchOK'
  BY DEF BoardInv, FetchOK, Behind
<1> QED
  BY <1>1, <1>2, <1>3 DEF BoardInv

\* The app moves without its tables,
LEMMA TablesKept ==
    ASSUME TablesInSync, Behind, UNCHANGED <<boardRows, localPosts, activityRows, usersPosts>>
    PROVE  TablesInSync'
BY DEF TablesInSync, Behind

\* and without the shared array, or starting to fetch the posts.
LEMMA FetchKept ==
    ASSUME FetchOK, Behind, UNCHANGED <<crashed, lastSnap>>, UNCHANGED posts \/ FetchingPosts'
    PROVE  FetchOK'
BY DEF FetchOK, Behind

LEMMA LogInInv ==
    ASSUME NEW S, BoardInv(S), NEW a \in Account, LogIn(a)
    PROVE  BoardInv(S)'
<1> USE DEF controllerVars, boardVars, activityVars, detailVars
<1>1. Core(S) /\ AppOK(S) /\ TablesInSync /\ FetchOK
  BY DEF BoardInv
<1>2. Core(S)' /\ Behind /\ FetchingPosts'
  BY <1>1, CoreFacts, AsksOfTheApp, CallingCore DEF LogIn
<1>3. AppOK(S)'
  BY <1>1, OptionalFacts DEF LogIn, LoggedIn, AppOK
<1>4. TablesInSync' /\ FetchOK'
  BY <1>1, <1>2, TablesKept, FetchKept DEF LogIn
<1> QED
  BY <1>2, <1>3, <1>4 DEF BoardInv

LEMMA LogInDetachedInv ==
    ASSUME NEW S, BoardInv(S), LogInDetached
    PROVE  BoardInv(S)'
<1> USE DEF controllerVars, boardVars, activityVars, detailVars, historyVars
<1>1. Core(S) /\ AppOK(S) /\ TablesInSync /\ FetchOK
  BY DEF BoardInv
<1>2. Core(S)' /\ Behind /\ FetchingPosts'
  BY <1>1, CoreFacts, AsksOfTheApp, CallingCore DEF LogInDetached
<1>3. AppOK(S)'
  BY <1>1 DEF LogInDetached, LoggedIn, AppOK
<1>4. TablesInSync' /\ FetchOK'
  BY <1>1, <1>2, TablesKept, FetchKept DEF LogInDetached
<1> QED
  BY <1>2, <1>3, <1>4 DEF BoardInv

\* The taps that leave the database alone.
LEMMA QuietTapsInv ==
    ASSUME NEW S, BoardInv(S),
           SignOut \/ SelectBoard \/ SelectProfile \/ TapStaleRow \/ CloseDetail
    PROVE  BoardInv(S)'
<1> USE DEF controllerVars, boardVars, activityVars, detailVars, historyVars
<1>1. Core(S) /\ AppOK(S) /\ TablesInSync /\ FetchOK
  BY DEF BoardInv
<1>2. UNCHANGED dbVars
  BY DEF SignOut, SelectBoard, SelectProfile, TapStaleRow, CloseDetail
<1>3. Core(S)' /\ Behind
  BY <1>1, <1>2, NothingCore
<1>4. AppOK(S)'
  <2>1. CASE SignOut
    BY <2>1, <1>1, OptionalFacts DEF SignOut, Tap, AppOK
  <2>2. CASE SelectBoard
    BY <2>2, <1>1 DEF SelectBoard, Tap, AppOK, Tab
  <2>3. CASE SelectProfile
    BY <2>3, <1>1 DEF SelectProfile, Tap, AppOK, Tab
  <2>4. CASE TapStaleRow
    BY <2>4, <1>1 DEF TapStaleRow, Tap, AppOK
  <2>5. CASE CloseDetail
    BY <2>5, <1>1, OptionalFacts DEF CloseDetail, Tap, AppOK
  <2> QED
    BY <2>1, <2>2, <2>3, <2>4, <2>5
<1>5. TablesInSync'
  <2>1. UNCHANGED <<boardRows, localPosts, activityRows, usersPosts>>
    BY DEF SignOut, SelectBoard, SelectProfile, TapStaleRow, CloseDetail
  <2> QED
    BY <2>1, <1>1, <1>3, TablesKept
<1>6. FetchOK'
  <2>1. UNCHANGED <<posts, lastSnap>> /\ (crashed' = crashed \/ crashed')
    BY DEF SignOut, SelectBoard, SelectProfile, TapStaleRow, CloseDetail
  <2> QED
    BY <2>1, <1>1, <1>3 DEF FetchOK, Behind
<1> QED
  BY <1>3, <1>4, <1>5, <1>6 DEF BoardInv

LEMMA SelectActivityInv ==
    ASSUME NEW S, BoardInv(S), SelectActivity
    PROVE  BoardInv(S)'
<1> USE DEF controllerVars, boardVars, activityVars, detailVars, historyVars
<1>1. Core(S) /\ AppOK(S) /\ TablesInSync /\ FetchOK
  BY DEF BoardInv
<1>2. Core(S)' /\ Behind /\ FetchingPosts'
  BY <1>1, CoreFacts, AsksOfTheApp, CallingCore DEF SelectActivity
<1>3. AppOK(S)'
  BY <1>1 DEF SelectActivity, Tap, AppOK, Tab
<1>4. TablesInSync' /\ FetchOK'
  BY <1>1, <1>2, TablesKept, FetchKept DEF SelectActivity
<1> QED
  BY <1>2, <1>3, <1>4 DEF BoardInv

LEMMA PostMessageBoardInv ==
    ASSUME NEW S, BoardInv(S), NEW k \in Post, PostMessageBoard(k)
    PROVE  BoardInv(S)'
<1> USE DEF controllerVars, boardVars, activityVars, detailVars, historyVars
<1>1. Core(S) /\ AppOK(S) /\ TablesInSync /\ FetchOK
  BY DEF BoardInv
<1>2. PICK cs : cs = CreatePostCall(k) \o FetchPosts("created")
  OBVIOUS
<1>3. Asks(S, cs) /\ FetchesPosts(cs)
  BY <1>1, <1>2, CoreFacts, AsksOfTheApp, AsksBoth
<1>4. Core(S)' /\ Behind /\ FetchingPosts'
  BY <1>1, <1>2, <1>3, CallingCore DEF PostMessageBoard
<1>5. AppOK(S)'
  BY <1>1 DEF PostMessageBoard, Tap, AppOK
<1>6. TablesInSync' /\ FetchOK'
  BY <1>1, <1>4, TablesKept, FetchKept DEF PostMessageBoard
<1> QED
  BY <1>4, <1>5, <1>6 DEF BoardInv

LEMMA DeleteRowInv ==
    ASSUME NEW S, BoardInv(S), NEW i, DeleteRow(i)
    PROVE  BoardInv(S)'
<1> USE DEF controllerVars, boardVars, activityVars, detailVars, historyVars
<1>1. Core(S) /\ AppOK(S) /\ TablesInSync /\ FetchOK
  BY DEF BoardInv
<1>2. PICK k, rest : k = usersPosts[i] /\ rest = RemoveAt(usersPosts, i)
  OBVIOUS
<1>3. PICK cs : cs = DeletePostandItsComments(k) \o PostDeletion
  OBVIOUS
<1>4. /\ i \in DOMAIN usersPosts /\ usersPosts' = rest /\ activityRows' = rest /\ Calling(cs)
      /\ deleted' = deleted \cup {k} /\ posts' = {}
      /\ UNCHANGED <<user, detached, tab, boardVars, detailVars, crashed, lastSnap, boardSnap>>
      /\ UNCHANGED scope
  BY <1>2, <1>3 DEF DeleteRow, Tap
<1>5. k \in S /\ rest \in Seq(S)
  <2>1. usersPosts \in Seq(S)
    BY <1>1 DEF AppOK
  <2> QED
    BY <2>1, <1>2, <1>4, RemovedAt
<1>6. Asks(S, cs) /\ FetchesPosts(cs)
  <2>1. Asks(S, PostDeletion) /\ FetchesPosts(PostDeletion)
    BY <1>1, DeletionAsks DEF AppOK
  <2>2. Asks(S, DeletePostandItsComments(k))
    BY <1>1, <1>5, CoreFacts, AsksOfTheApp
  <2> QED
    BY <2>1, <2>2, <1>3, AsksBoth
<1>7. Core(S)' /\ Behind /\ FetchingPosts'
  BY <1>1, <1>4, <1>6, CallingCore
<1>8. AppOK(S)'
  BY <1>1, <1>4, <1>5 DEF AppOK
<1>9. TablesInSync'
  BY <1>1, <1>4, <1>7 DEF TablesInSync, Behind
<1>10. FetchOK'
  BY <1>1, <1>4, <1>7, FetchKept
<1> QED
  BY <1>7, <1>8, <1>9, <1>10 DEF BoardInv

LEMMA OpenDetailInv ==
    ASSUME NEW S, BoardInv(S), NEW i, OpenDetail(i)
    PROVE  BoardInv(S)'
<1> USE DEF controllerVars, boardVars, activityVars, detailVars, historyVars
<1>1. Core(S) /\ AppOK(S) /\ TablesInSync /\ FetchOK
  BY DEF BoardInv
<1>2. PICK k, n : k = localPosts[i] /\ n = opened + 1
  OBVIOUS
<1>3. /\ i \in DOMAIN localPosts /\ detail' = <<k>> /\ comments' = {} /\ commentRows' = {}
      /\ opened' = n /\ Calling(FetchComments(k, n))
      /\ UNCHANGED <<controllerVars, tab, boardVars, activityVars, crashed, historyVars>>
      /\ UNCHANGED scope
  BY <1>2 DEF OpenDetail, Tap
<1>4. k \in S /\ n \in Nat
  <2>1. localPosts \in Seq(S) /\ opened \in Nat
    BY <1>1 DEF AppOK
  <2> QED
    BY <2>1, <1>2, <1>3
<1>5. Core(S)' /\ Behind
  BY <1>1, <1>3, <1>4, CoreFacts, AsksOfTheApp, CallingCore
<1>6. AppOK(S)'
  BY <1>1, <1>3, <1>4, OptionalFacts DEF AppOK
<1>7. TablesInSync' /\ FetchOK'
  BY <1>1, <1>3, <1>5, TablesKept, FetchKept
<1> QED
  BY <1>5, <1>6, <1>7 DEF BoardInv

LEMMA PostCommentInv ==
    ASSUME NEW S, BoardInv(S), NEW c \in Comment, PostComment(c)
    PROVE  BoardInv(S)'
<1>1. Core(S) /\ AppOK(S) /\ TablesInSync /\ FetchOK
  BY DEF BoardInv
<1>2. PICK k, n : k = detail[1] /\ n = opened
  OBVIOUS
<1>3. PICK cs : cs = CreateCommentCall(k, c) \o FetchComments(k, n)
  OBVIOUS
<1>4. detail # << >> /\ Calling(cs) /\ UNCHANGED <<appVars, historyVars>> /\ UNCHANGED scope
  BY <1>2, <1>3 DEF PostComment, Tap
<1>5. k \in S /\ n \in Nat
  BY <1>1, <1>2, <1>4, OptionalFacts DEF AppOK
<1>6. Asks(S, cs)
  BY <1>1, <1>3, <1>5, CoreFacts, AsksOfTheApp, AsksBoth
<1>7. Core(S)' /\ Behind
  BY <1>1, <1>4, <1>6, CallingCore
<1> QED
  BY <1>4, <1>7, BehindInv

-----------------------------------------------------------------------------
\* A block leaves the main queue and m is added: the blocks that remain, and those of m.
LEMMA BlocksLeft ==
    ASSUME NEW S, Core(S), mainq[Phone] # << >>, NEW m \in Seq(Block),
           mainq'[Phone] = Tail(mainq[Phone]) \o m
    PROVE  \A b : Contains(mainq[Phone], b) /\ Head(mainq[Phone]) # b => Contains(mainq'[Phone], b)
<1>1. PICK Q : Q = mainq[Phone]
  OBVIOUS
<1>2. Q \in Seq(AppBlock(S)) /\ Q # << >> /\ Tail(Q) \in Seq(AppBlock(S)) /\ m \in Seq(AppBlock(S))
  <2>1. m \in Seq(AppBlock(S))
    BY SeqGrows DEF AppBlock
  <2>2. Q \in Seq(AppBlock(S)) /\ Q # << >>
    BY <1>1, CoreFacts DEF Shape
  <2> QED
    BY <2>1, <2>2, TailFacts
<1>3. PICK R : R = Tail(Q)
  OBVIOUS
<1>4. ASSUME NEW b, Contains(Q, b), Head(Q) # b PROVE Contains(R \o m, b)
  <2>1. Contains(R, b)
    BY <1>2, <1>3, <1>4, ContainsTail
  <2> QED
    BY <2>1, <1>2, <1>3, ContainsMore
<1> QED
  BY <1>1, <1>3, <1>4

LEMMA ReloadQueued ==
    ASSUME NEW S, Core(S), mainq[Phone] # << >>, NEW b \in Block,
           mainq'[Phone] = Tail(mainq[Phone]) \o <<b>>
    PROVE  Contains(mainq'[Phone], b)
<1>1. PICK R : R = Tail(mainq[Phone])
  OBVIOUS
<1>2. R \in Seq(AppBlock(S))
  BY <1>1, CoreFacts, TailFacts DEF Shape
<1>3. Contains(R \o <<b>>, b)
  BY <1>2, ContainsLast DEF AppBlock
<1> QED
  BY <1>1, <1>3

LEMMA Reloads ==
    /\ Reload("board") \in Block /\ Reload("activity") \in Block
    /\ \A n \in Nat : ReloadComments(n) \in Block
    /\ Reload("board") # Reload("activity")
    /\ \A p : \A e \in ValuesAt(p) : e # Reload("board") /\ e # Reload("activity")
BY DEF Reload, ReloadComments, Block, ValuesAt

LEMMA NoPostsArrivedInv ==
    ASSUME NEW S, BoardInv(S), NoPostsArrived
    PROVE  BoardInv(S)'
<1> USE DEF appVars, controllerVars, boardVars, activityVars, detailVars, historyVars, boundVars
<1>1. Core(S) /\ AppOK(S) /\ TablesInSync /\ FetchOK
  BY DEF BoardInv
<1>2. PICK m : m \in Seq(Block) /\ m = << >>
  BY ShortSeq
<1>3. mainq[Phone] # << >> /\ Head(mainq[Phone]) \in ValuesAt(PostsPath)
  BY <1>1, PathFacts, ArrivedFacts DEF NoPostsArrived
<1>4. Core(S)' /\ mainq'[Phone] = Tail(mainq[Phone]) \o m
  BY <1>1, <1>2, <1>3, PathFacts, ValueRanCore DEF NoPostsArrived
<1>5. AppOK(S)'
  BY <1>1 DEF NoPostsArrived, AppOK
<1>6. TablesInSync'
  <2>1. UNCHANGED <<boardRows, localPosts, activityRows, usersPosts>>
    BY DEF NoPostsArrived
  <2> QED
    BY <1>1, <1>2, <1>3, <1>4, <2>1, BlocksLeft, Reloads DEF TablesInSync
<1>7. FetchOK'
  BY DEF NoPostsArrived, FetchOK
<1> QED
  BY <1>4, <1>5, <1>6, <1>7 DEF BoardInv

\* The posts arrive for one of the tables, whose reload b is queued.
LEMMA PostsArrivedCore ==
    ASSUME NEW S, Core(S), NEW kind, PostsArrived(kind), NEW b \in Block,
           Ran(<<RemoveObserverCall(PostsPath)>>, <<b>>)
    PROVE  /\ Core(S)' /\ Contains(mainq'[Phone], b)
           /\ Contains(mainq[Phone], Reload("board")) => Contains(mainq'[Phone], Reload("board"))
           /\ Contains(mainq[Phone], Reload("activity")) => Contains(mainq'[Phone], Reload("activity"))
           /\ lastSnap' \subseteq S /\ posts' \subseteq S /\ posts' = Readable(lastSnap')
           /\ (boardSnap' = boardSnap \/ boardSnap' \subseteq S)
<1>1. PICK m : m \in Seq(Block) /\ m = <<b>>
  BY ShortSeq
<1>2. Arrived(PostsPath, kind)
  BY DEF PostsArrived
<1>3. /\ mainq[Phone] # << >> /\ Head(mainq[Phone]) \in ValuesAt(PostsPath)
      /\ Snap \subseteq S
  <2>1. HomeOf(S, PostsPath) = S
    BY DEF HomeOf
  <2> QED
    BY <1>2, <2>1, PathFacts, ArrivedFacts
<1>4. Core(S)' /\ mainq'[Phone] = Tail(mainq[Phone]) \o m
  BY <1>1, <1>3, PathFacts, ValueRanCore
<1>5. Contains(mainq'[Phone], b)
  BY <1>1, <1>3, <1>4, ReloadQueued
<1>6. \A c : Contains(mainq[Phone], c) /\ Head(mainq[Phone]) # c => Contains(mainq'[Phone], c)
  BY <1>1, <1>3, <1>4, BlocksLeft
<1>7. Head(mainq[Phone]) # Reload("board") /\ Head(mainq[Phone]) # Reload("activity")
  BY <1>3, Reloads
<1>8. /\ lastSnap' = Snap /\ posts' = Readable(Snap) /\ (boardSnap' = boardSnap \/ boardSnap' = Snap)
  BY DEF PostsArrived
<1>9. posts' \subseteq S /\ posts' = Readable(lastSnap')
  BY <1>3, <1>8, KeptPosts
<1> QED
  BY <1>3, <1>4, <1>5, <1>6, <1>7, <1>8, <1>9

LEMMA BoardFilledInv ==
    ASSUME NEW S, BoardInv(S), BoardArrived \/ CreatedArrived
    PROVE  BoardInv(S)'
<1> USE DEF appVars, controllerVars, boardVars, activityVars, detailVars, historyVars, boundVars
<1>1. Core(S) /\ AppOK(S) /\ TablesInSync /\ FetchOK
  BY DEF BoardInv
<1>2. PICK kind, b : PostsArrived(kind) /\ b = Reload("board")
  BY DEF BoardArrived, CreatedArrived
<1>3. /\ Ran(<<RemoveObserverCall(PostsPath)>>, <<b>>)
      /\ UNCHANGED <<user, detached, tab, deletionObservers, boardRows, activityVars, detailVars,
                     crashed, scope, deleted>>
      /\ \E lat, long : localPosts' \in orderPostsByDate(PostsInArea(posts', lat, long))
  BY <1>2 DEF BoardArrived, CreatedArrived
<1>4. /\ Core(S)' /\ Contains(mainq'[Phone], Reload("board"))
      /\ Contains(mainq[Phone], Reload("activity")) => Contains(mainq'[Phone], Reload("activity"))
      /\ lastSnap' \subseteq S /\ posts' \subseteq S /\ posts' = Readable(lastSnap')
      /\ (boardSnap' = boardSnap \/ boardSnap' \subseteq S)
  BY <1>1, <1>2, <1>3, Reloads, PostsArrivedCore
<1>5. localPosts' \in Seq(S)
  <2>1. PICK X : X \subseteq S /\ localPosts' \in orderPostsByDate(X)
    BY <1>3, <1>4, KeptPosts
  <2> QED
    BY <2>1, <1>1, CoreFacts, OrderedPosts
<1>6. AppOK(S)'
  BY <1>1, <1>3, <1>4, <1>5 DEF AppOK
<1>7. TablesInSync' /\ FetchOK'
  BY <1>1, <1>3, <1>4 DEF TablesInSync, FetchOK
<1> QED
  BY <1>4, <1>6, <1>7 DEF BoardInv

LEMMA ActivityArrivedInv ==
    ASSUME NEW S, BoardInv(S), ActivityArrived
    PROVE  BoardInv(S)'
<1> USE DEF appVars, controllerVars, boardVars, activityVars, detailVars, historyVars, boundVars
<1>1. Core(S) /\ AppOK(S) /\ TablesInSync /\ FetchOK
  BY DEF BoardInv
<1>2. PICK b : b = Reload("activity")
  OBVIOUS
<1>3. /\ PostsArrived("activity") /\ Ran(<<RemoveObserverCall(PostsPath)>>, <<b>>)
      /\ UNCHANGED <<user, detached, tab, boardVars, activityRows, detailVars, crashed, scope, deleted>>
      /\ \E name : usersPosts' \in orderPostsByDate(PostsByUser(posts', name))
  BY <1>2 DEF ActivityArrived
<1>4. /\ Core(S)' /\ Contains(mainq'[Phone], Reload("activity"))
      /\ Contains(mainq[Phone], Reload("board")) => Contains(mainq'[Phone], Reload("board"))
      /\ lastSnap' \subseteq S /\ posts' \subseteq S /\ posts' = Readable(lastSnap')
      /\ (boardSnap' = boardSnap \/ boardSnap' \subseteq S)
  BY <1>1, <1>2, <1>3, Reloads, PostsArrivedCore
<1>5. usersPosts' \in Seq(S)
  <2>1. PICK X : X \subseteq S /\ usersPosts' \in orderPostsByDate(X)
    BY <1>3, <1>4, KeptPosts
  <2> QED
    BY <2>1, <1>1, CoreFacts, OrderedPosts
<1>6. AppOK(S)'
  BY <1>1, <1>3, <1>4, <1>5 DEF AppOK
<1>7. TablesInSync' /\ FetchOK'
  BY <1>1, <1>3, <1>4 DEF TablesInSync, FetchOK
<1> QED
  BY <1>4, <1>6, <1>7 DEF BoardInv

LEMMA OrderingTrapsInv ==
    ASSUME NEW S, BoardInv(S), OrderingTraps
    PROVE  BoardInv(S)'
<1> USE DEF controllerVars, boardVars, activityVars, detailVars, historyVars, boundVars
<1>1. Core(S) /\ AppOK(S) /\ TablesInSync /\ FetchOK
  BY DEF BoardInv
<1>2. /\ UNCHANGED dbVars /\ crashed' = TRUE
      /\ UNCHANGED <<controllerVars, tab, boardVars, activityVars, detailVars, boundVars, historyVars>>
  BY DEF OrderingTraps
<1>3. Core(S)' /\ Behind
  BY <1>1, <1>2, NothingCore
<1>4. AppOK(S)'
  BY <1>1, <1>2 DEF AppOK
<1>5. TablesInSync' /\ FetchOK'
  BY <1>1, <1>2, <1>3, TablesKept DEF FetchOK
<1> QED
  BY <1>3, <1>4, <1>5 DEF BoardInv

LEMMA CommentsArrivedInv ==
    ASSUME NEW S, BoardInv(S), CommentsArrived
    PROVE  BoardInv(S)'
<1> USE DEF controllerVars, boardVars, activityVars, detailVars, historyVars, boundVars
<1>1. Core(S) /\ AppOK(S) /\ TablesInSync /\ FetchOK
  BY DEF BoardInv
<1>2. PICK k \in Post, n \in 1 .. opened :
         /\ Arrived(CommentsPath(k), n)
         /\ comments' = IF OnScreen(n) /\ Snap # {} THEN Snap ELSE comments
         /\ Ran(<<RemoveObserverCall(CommentsPath(k))>>,
                IF Snap # {} THEN <<ReloadComments(n)>> ELSE << >>)
         /\ UNCHANGED <<controllerVars, tab, boardVars, activityVars, detail, commentRows, opened,
                        crashed, boundVars, historyVars>>
  BY DEF CommentsArrived
<1>3. PICK p : p = CommentsPath(k)
  OBVIOUS
<1>4. p \in Path /\ p # PostsPath
  BY <1>3, PathFacts
<1>5. PICK m : m = IF Snap # {} THEN <<ReloadComments(n)>> ELSE << >>
  OBVIOUS
<1>6. m \in Seq(Block)
  <2>1. n \in Nat
    BY <1>1 DEF AppOK
  <2> QED
    BY <2>1, <1>5, Reloads, ShortSeq
<1>7. /\ mainq[Phone] # << >> /\ Head(mainq[Phone]) \in ValuesAt(p) /\ Snap \subseteq Comment
  <2>1. HomeOf(S, p) = Comment
    BY <1>4 DEF HomeOf
  <2> QED
    BY <1>1, <1>2, <1>3, <1>4, <2>1, ArrivedFacts
<1>8. /\ Core(S)' /\ mainq'[Phone] = Tail(mainq[Phone]) \o m
      /\ (FetchingPosts => FetchingPosts')
  BY <1>1, <1>2, <1>3, <1>4, <1>5, <1>6, <1>7, ValueRanCore
<1>9. AppOK(S)'
  BY <1>1, <1>2, <1>7 DEF AppOK
<1>10. TablesInSync'
  BY <1>1, <1>2, <1>6, <1>7, <1>8, BlocksLeft, Reloads DEF TablesInSync
<1>11. FetchOK'
  BY <1>1, <1>2, <1>8 DEF FetchOK
<1> QED
  BY <1>8, <1>9, <1>10, <1>11 DEF BoardInv

\* A block that reloads a table is one of the app's.
LEMMA ReloadHead ==
    ASSUME NEW S, Core(S), mainq[Phone] # << >>,
           Head(mainq[Phone]).block \in {"reload", "reloadComments"}
    PROVE  /\ Head(mainq[Phone]) \in Block
           /\ Head(mainq[Phone]).block = "reloadComments" =>
                 Head(mainq[Phone]) # Reload("board") /\ Head(mainq[Phone]) # Reload("activity")
           /\ Head(mainq[Phone]).block = "reload" =>
                 Head(mainq[Phone]) = Reload(IF Head(mainq[Phone]).table = "board" THEN "board" ELSE "activity")
<1>1. PICK e : e = Head(mainq[Phone])
  OBVIOUS
<1>2. e \in AppBlock(S) /\ e.block \in {"reload", "reloadComments"}
  BY <1>1, CoreFacts DEF Shape
<1>3. e \in Block
  BY <1>2 DEF AppBlock, EventOf
<1>4. e.block = "reloadComments" => e # Reload("board") /\ e # Reload("activity")
  BY DEF Reload
<1>5. e.block = "reload" => e = Reload(IF e.table = "board" THEN "board" ELSE "activity")
  BY <1>3 DEF Block, Reload
<1> QED
  BY <1>1, <1>3, <1>4, <1>5

LEMMA RunReloadInv ==
    ASSUME NEW S, BoardInv(S), RunReload \/ RunReloadComments
    PROVE  BoardInv(S)'
<1> USE DEF controllerVars, boardVars, activityVars, detailVars, historyVars, boundVars
<1>1. Core(S) /\ AppOK(S) /\ TablesInSync /\ FetchOK
  BY DEF BoardInv
<1>2. PICK m : m \in Seq(Block) /\ m = << >>
  BY ShortSeq
<1>3. /\ mainq[Phone] # << >> /\ Head(mainq[Phone]).block \in {"reload", "reloadComments"}
      /\ Ran(<< >>, << >>)
      /\ UNCHANGED <<controllerVars, tab, usersLat, usersLong, localPosts, deletionObservers,
                     usersPosts, detail, comments, opened, crashed, boundVars, historyVars>>
  BY DEF RunReload, RunReloadComments
<1>4. Head(mainq[Phone]) \in Block
  BY <1>1, <1>3, ReloadHead
<1>5. /\ Core(S)' /\ mainq'[Phone] = Tail(mainq[Phone])
      /\ (FetchingPosts => FetchingPosts')
  BY <1>1, <1>3, <1>4, ReloadRanCore
<1>6. \A b : Contains(mainq[Phone], b) /\ Head(mainq[Phone]) # b => Contains(mainq'[Phone], b)
  BY <1>1, <1>3, <1>5, CoreFacts, ContainsTail
<1>7. FetchOK'
  BY <1>1, <1>3, <1>5 DEF FetchOK
<1>8. CASE RunReloadComments
  <2>1. UNCHANGED <<boardRows, activityRows>> /\ (commentRows' = commentRows \/ commentRows' = comments)
    BY <1>8 DEF RunReloadComments
  <2>2. Head(mainq[Phone]) # Reload("board") /\ Head(mainq[Phone]) # Reload("activity")
    BY <1>1, <1>3, <1>8, ReloadHead DEF RunReloadComments
  <2>3. AppOK(S)'
    BY <1>1, <1>3, <2>1 DEF AppOK
  <2>4. TablesInSync'
    BY <1>1, <1>3, <1>6, <2>1, <2>2 DEF TablesInSync
  <2> QED
    BY <1>5, <1>7, <2>3, <2>4 DEF BoardInv
<1>9. CASE RunReload
  <2>1. /\ UNCHANGED commentRows
        /\ Head(mainq[Phone]) = Reload(IF Head(mainq[Phone]).table = "board" THEN "board" ELSE "activity")
    BY <1>1, <1>3, <1>9, ReloadHead DEF RunReload
  <2>2. \/ Head(mainq[Phone]) = Reload("board") /\ boardRows' = localPosts /\ UNCHANGED activityRows
        \/ Head(mainq[Phone]) = Reload("activity") /\ activityRows' = usersPosts /\ UNCHANGED boardRows
    BY <1>9, <2>1 DEF RunReload
  <2>3. AppOK(S)'
    BY <1>1, <1>3, <2>1, <2>2 DEF AppOK
  <2>4. TablesInSync'
    BY <1>1, <1>3, <1>6, <2>2, Reloads DEF TablesInSync
  <2> QED
    BY <1>5, <1>7, <2>3, <2>4 DEF BoardInv
<1> QED
  BY <1>3, <1>8, <1>9

-----------------------------------------------------------------------------
\* The posts that reach the write tree or the server are in S.
WritesIn(S) ==
    /\ RunPut(Phone) => Head(calls[Phone]).write \in AppWrite(S)
    /\ \A k \in Post : RemotePost(k) => k \in S

LEMMA ScopeFacts ==
    ASSUME NEW S, AppOK(S)
    PROVE  scope.posts \subseteq Post /\ scope.comments \subseteq Comment
BY ScopesAssumption DEF AppOK

LEMMA RemoteInv ==
    ASSUME NEW S, BoardInv(S), NEW w \in AnyWrite(S), Remote(w)
    PROVE  BoardInv(S)'
<1>1. Core(S) /\ ServerRemote(w) /\ UNCHANGED <<appVars, scope, historyVars>>
  BY DEF BoardInv, Remote
<1>2. Core(S)' /\ Behind
  BY <1>1, ServerRemoteCore
<1> QED
  BY <1>1, <1>2, BehindInv

LEMMA OthersInv ==
    ASSUME NEW S, BoardInv(S), Others, WritesIn(S)
    PROVE  BoardInv(S)'
<1>1. Core(S) /\ AppOK(S) /\ scope.posts \subseteq Post /\ scope.comments \subseteq Comment
  BY ScopeFacts DEF BoardInv
<1>2. ASSUME NEW k \in Post, RemotePost(k) PROVE BoardInv(S)'
  <2>1. PICK w : w = SetValue(PostsPath, k)
    OBVIOUS
  <2>2. k \in S
    BY <1>2 DEF WritesIn
  <2>3. w \in AnyWrite(S)
    BY <2>1, <2>2 DEF SetValue, AnyWrite, AppWrite
  <2> QED
    BY <1>2, <2>1, <2>3, RemoteInv DEF RemotePost
<1>3. ASSUME NEW k \in Post, RemoteDelete(k) PROVE BoardInv(S)'
  <2>1. PICK w : w = RemoveValue(PostsPath, k)
    OBVIOUS
  <2>2. server[PostsPath] \subseteq S
    BY <1>1, CoreFacts, PathFacts DEF Shape, HomeOf
  <2>3. w \in AnyWrite(S)
    BY <1>3, <2>1, <2>2 DEF RemoteDelete, RemoveValue, AnyWrite, AppWrite
  <2> QED
    BY <1>3, <2>1, <2>3, RemoteInv DEF RemoteDelete
<1>4. ASSUME NEW k \in Post, RemoteClear(k) PROVE BoardInv(S)'
  <2>1. PICK w : w = ClearPath(CommentsPath(k))
    OBVIOUS
  <2>2. w \in AnyWrite(S)
    BY <2>1, PathFacts DEF ClearPath, AnyWrite
  <2> QED
    BY <1>4, <2>1, <2>2, RemoteInv DEF RemoteClear
<1>5. ASSUME NEW k \in Post, NEW c \in Comment, RemoteComment(k, c) PROVE BoardInv(S)'
  <2>1. PICK w : w = SetValue(CommentsPath(k), c)
    OBVIOUS
  <2>2. w \in AnyWrite(S)
    BY <2>1, PathFacts DEF SetValue, AnyWrite, AppWrite
  <2> QED
    BY <1>5, <2>1, <2>2, RemoteInv DEF RemoteComment
<1> QED
  BY <1>1, <1>2, <1>3, <1>4, <1>5 DEF Others

LEMMA DatabaseInv ==
    ASSUME NEW S, BoardInv(S), Client \/ Server \/ Restore \/ Drop, WritesIn(S)
    PROVE  BoardInv(S)'
<1>1. Core(S)
  BY DEF BoardInv
<1>2. UNCHANGED <<appVars, scope, historyVars>>
  BY DEF Client, Server, Restore, Drop, boundVars
<1>3. Core(S)' /\ Behind
  <2>1. CASE RunPut(Phone)
    BY <2>1, <1>1, RunPutCore DEF WritesIn
  <2>2. CASE RunObserve(Phone)
    BY <2>2, <1>1, RunObserveCore
  <2>3. CASE RunRemoveObserver(Phone)
    BY <2>3, <1>1, RunRemoveObserverCore
  <2>4. CASE ReceiveListened(Phone) \/ ReceiveData(Phone)
    BY <2>4, <1>1, ReceiveDataCore
  <2>5. CASE ReceiveAck(Phone)
    BY <2>5, <1>1, ReceiveAckCore
  <2>6. CASE ServerListen(Phone)
    BY <2>6, <1>1, ServerListenCore
  <2>7. CASE ServerUnlisten(Phone)
    BY <2>7, <1>1, ServerUnlistenCore
  <2>8. CASE ServerPut(Phone)
    BY <2>8, <1>1, ServerPutCore
  <2>9. CASE ServerDeny(Phone)
    BY <2>9, <1>1, ServerDenyCore
  <2>10. CASE Reconnect(Phone)
    BY <2>10, <1>1, ReconnectCore
  <2>11. CASE Disconnect(Phone)
    BY <2>11, <1>1, DisconnectCore
  <2> QED
    BY <2>1, <2>2, <2>3, <2>4, <2>5, <2>6, <2>7, <2>8, <2>9, <2>10, <2>11
       DEF Client, ClientStep, Server, ServerStep, Restore, Drop
<1> QED
  BY <1>2, <1>3, BehindInv

LEMMA KillInv ==
    ASSUME NEW S, BoardInv(S), Kill
    PROVE  BoardInv(S)'
<1>1. Core(S) /\ AppOK(S)
  BY DEF BoardInv
<1>2. Core(S)'
  BY <1>1, KilledCore DEF Kill
<1>3. Relaunched /\ UNCHANGED scope
  BY DEF Kill
<1>4. << >> \in Seq(S) /\ << >> \in Optional(S) /\ << >> \in Optional(Account)
  BY ShortSeq, OptionalFacts
<1>5. AppOK(S)'
  <2>1. PICK z : z = << >>
    OBVIOUS
  <2>2. z \in Seq(S) /\ z \in Optional(S) /\ z \in Optional(Account)
    BY <1>4, <2>1
  <2>3. /\ user' = z /\ posts' = {} /\ tab' = "board" /\ localPosts' = z
        /\ usersPosts' = z /\ boardRows' = z /\ activityRows' = z /\ deletionObservers' = 1
        /\ detail' = z /\ comments' = {} /\ commentRows' = {} /\ opened' = 0
        /\ lastSnap' = {} /\ boardSnap' = {} /\ deleted' = {} /\ scope' = scope
    BY <1>3, <2>1 DEF Relaunched
  <2>4. detached' \in BOOLEAN /\ crashed' \in BOOLEAN
    BY <1>3 DEF Relaunched
  <2>5. scope \in Scopes
    BY <1>1 DEF AppOK
  <2> QED
    BY ONLY <2>2, <2>3, <2>4, <2>5 DEF AppOK, Tab
<1>6. TablesInSync' /\ FetchOK'
  BY <1>3 DEF Relaunched, TablesInSync, FetchOK
<1> QED
  BY <1>2, <1>5, <1>6 DEF BoardInv

LEMMA UserInv ==
    ASSUME NEW S, BoardInv(S), User
    PROVE  BoardInv(S)'
<1>1. scope.posts \subseteq Post /\ scope.comments \subseteq Comment
  BY ScopeFacts DEF BoardInv
<1>2. CASE \E a \in Account : LogIn(a)
  BY <1>2, LogInInv
<1>3. CASE SignOut \/ SelectBoard \/ SelectProfile \/ TapStaleRow \/ CloseDetail
  BY <1>3, QuietTapsInv
<1>4. CASE LogInDetached
  BY <1>4, LogInDetachedInv
<1>5. CASE SelectActivity
  BY <1>5, SelectActivityInv
<1>6. CASE \E k \in scope.posts : PostMessageBoard(k)
  BY <1>1, <1>6, PostMessageBoardInv
<1>7. CASE \E i \in 1 .. Cardinality(Post) : DeleteRow(i) \/ OpenDetail(i)
  BY <1>7, DeleteRowInv, OpenDetailInv
<1>8. CASE \E c \in scope.comments : PostComment(c)
  BY <1>1, <1>8, PostCommentInv
<1> QED
  BY <1>2, <1>3, <1>4, <1>5, <1>6, <1>7, <1>8 DEF User

LEMMA RunMainInv ==
    ASSUME NEW S, BoardInv(S), RunMain
    PROVE  BoardInv(S)'
BY NoPostsArrivedInv, BoardFilledInv, ActivityArrivedInv, OrderingTrapsInv, CommentsArrivedInv,
   RunReloadInv DEF RunMain

LEMMA NextInv ==
    ASSUME NEW S, BoardInv(S), [Next]_vars, WritesIn(S)
    PROVE  BoardInv(S)'
<1>1. CASE Next
  BY <1>1, UserInv, RunMainInv, OthersInv, DatabaseInv, KillInv DEF Next
<1>2. CASE UNCHANGED vars
  <2>1. UNCHANGED dbVars /\ UNCHANGED <<appVars, scope, historyVars>>
    BY <1>2 DEF vars, boundVars
  <2>2. Core(S)' /\ Behind
    BY <2>1, NothingCore DEF BoardInv
  <2> QED
    BY <2>1, <2>2, BehindInv
<1> QED
  BY <1>1, <1>2

-----------------------------------------------------------------------------
LEMMA InitCore ==
    ASSUME NEW S, S \subseteq Post,
           DBInit([p \in Path |-> IF p = PostsPath THEN S ELSE {}])
    PROVE  Core(S)
<1>1. PICK Z, E, N : Z = << >> /\ E = [p \in Path |-> << >>] /\ N = [p \in Path |-> 0]
  OBVIOUS
<1>2. /\ Z \in Seq(EventOf(Request) \cup Block) /\ Z \in Seq(CallOf(Request))
      /\ Z \in Seq(AppCall(S)) /\ Z \in Seq(AppBlock(S)) /\ Z \in Seq(AppDown(S)) /\ DOMAIN Z = {}
  BY <1>1
<1>3. /\ calls[Phone] = Z /\ mainq[Phone] = Z /\ down[Phone] = Z /\ waiting[Phone] = E
      /\ observers[Phone] = N /\ pending[Phone] = << >> /\ putCounter[Phone] = 1
      /\ cache[Phone] = [p \in Path |-> {}] /\ filled[Phone] = {} /\ connected[Phone] = FALSE
      /\ up[Phone] = << >> /\ Domains
      /\ server = [p \in Path |-> IF p = PostsPath THEN S ELSE {}]
  BY <1>1, OnePhone DEF DBInit, Domains
<1>4. FlightInv
  <2>1. Connection(Phone)
    <3>1. IsTable(pending[Phone]) /\ \A i \in DOMAIN pending[Phone] : i < putCounter[Phone]
      BY <1>3 DEF IsTable
    <3>2. OutstandingPuts(Phone) = {}
      BY <1>3 DEF OutstandingPuts
    <3>3. InFlight(pending[Phone], connected[Phone], up[Phone], down[Phone])
      BY <1>1, <1>3, NothingInFlight
    <3>4. \A p \in Path : Phone \notin listeners[p]
      BY DEF DBInit
    <3> QED
      BY <3>1, <3>3, <3>4 DEF Connection
  <2>2. << >> \in Seq(UpMsg) /\ << >> \in Seq(DownMsg)
    BY ShortSeq
  <2>3. server \in [Path -> SUBSET Key]
    BY <1>3, PathFacts
  <2> QED
    BY <2>1, <2>2, <2>3, OnePhone DEF DBInit, FlightInv
<1>5. Observing(N, E, Z, Z)
  <2>1. \A p \in Path : Num(Z, ValuesAt(p)) = 0 /\ Num(Z, {RemoveObserverCall(p)}) = 0
    BY <1>1, NumEmpty
  <2>2. \A p \in Path : N[p] = 0 /\ E[p] = << >> /\ Len(E[p]) = 0
    BY <1>1
  <2>3. N \in [Path -> Nat] /\ E \in [Path -> Seq(Request)]
    BY <1>1
  <2> QED
    <3>1. ASSUME NEW p \in Path PROVE Owed(N, E, Z, Z, p)
      <4>1. N[p] = 0 /\ Len(E[p]) = 0 /\ Num(Z, ValuesAt(p)) = 0 /\ Num(Z, {RemoveObserverCall(p)}) = 0
        BY <2>1, <2>2
      <4> QED
        BY ONLY <4>1 DEF Owed
    <3> QED
      BY ONLY <1>2, <2>3, <3>1 DEF Observing
<1>6. Views
  BY <1>3, <1>5 DEF Views, FilledOK, ListensOK
<1>7. Shape(S)
  BY <1>2, <1>3 DEF Shape, HomeOf
<1> QED
  BY <1>3, <1>4, <1>6, <1>7 DEF Core

LEMMA InitInv ==
    ASSUME NEW S, Init, DBInit([p \in Path |-> IF p = PostsPath THEN S ELSE {}]), S \subseteq Post
    PROVE  BoardInv(S)
<1>1. Core(S)
  BY InitCore
<1>2. PICK z : z = << >>
  OBVIOUS
<1>3. z \in Seq(S) /\ z \in Optional(S) /\ z \in Optional(Account)
  BY <1>2, ShortSeq, OptionalFacts
<1>4. /\ user = z /\ posts = {} /\ tab = "board" /\ localPosts = z
      /\ usersPosts = z /\ boardRows = z /\ activityRows = z /\ deletionObservers = 1
      /\ detail = z /\ comments = {} /\ commentRows = {} /\ opened = 0
      /\ lastSnap = {} /\ boardSnap = {} /\ deleted = {} /\ scope \in Scopes
  BY <1>2 DEF Init, Launched
<1>5. detached \in BOOLEAN /\ crashed \in BOOLEAN
  BY DEF Init, Launched
<1>6. AppOK(S)
  BY ONLY <1>3, <1>4, <1>5 DEF AppOK, Tab
<1>7. TablesInSync /\ FetchOK
  BY <1>4 DEF TablesInSync, FetchOK
<1> QED
  BY <1>1, <1>6, <1>7 DEF BoardInv

LEMMA AnyPost == ASSUME BoardInv(Post) PROVE WritesIn(Post)
<1>1. SUFFICES ASSUME RunPut(Phone) PROVE Head(calls[Phone]).write \in AppWrite(Post)
  BY DEF WritesIn
<1>2. calls[Phone] # << >> /\ Head(calls[Phone]).call = "put"
  BY <1>1 DEF RunPut
<1>3. Head(calls[Phone]) \in AppCall(Post)
  BY <1>2, CoreFacts DEF BoardInv, Shape
<1> QED
  BY <1>2, <1>3 DEF AppCall, AppWrite

LEMMA BoardGrows ==
    ASSUME NEW S, NEW T, S \subseteq T, T \subseteq Post, BoardInv(S)
    PROVE  BoardInv(T)
<1>1. Core(T)
  BY ShapeGrows DEF BoardInv, Core
<1>2. AppOK(T)
  <2>1. Optional(S) \subseteq Optional(T)
    BY DEF Optional
  <2>2. localPosts \in Seq(T) /\ usersPosts \in Seq(T)
        /\ boardRows \in Seq(T) /\ activityRows \in Seq(T)
    BY SeqGrows DEF BoardInv, AppOK
  <2> QED
    BY <2>1, <2>2 DEF BoardInv, AppOK
<1> QED
  BY <1>1, <1>2 DEF BoardInv

\* The invariant for any post.
LEMMA BoardIsSound == Spec => []BoardInv(Post)
<1>1. Init => BoardInv(Post)
  <2>1. SUFFICES ASSUME Init PROVE BoardInv(Post)
    OBVIOUS
  <2>2. PICK S \in SUBSET scope.posts : DBInit([p \in Path |-> IF p = PostsPath THEN S ELSE {}])
    BY <2>1 DEF Init
  <2>3. S \subseteq Post
    BY <2>1, <2>2, ScopesAssumption DEF Init
  <2> QED
    BY <2>1, <2>2, <2>3, InitInv, BoardGrows
<1>2. BoardInv(Post) /\ [Next]_vars => BoardInv(Post)'
  BY AnyPost, NextInv
<1> QED
  BY <1>1, <1>2, PTL DEF Spec

-----------------------------------------------------------------------------
LEMMA TypesFollow == ASSUME BoardInv(Post) PROVE TypeOK
<1>1. Core(Post) /\ AppOK(Post) /\ Shape(Post) /\ FlightInv
  BY CoreFacts DEF BoardInv
<1>2. PICK P : P = pending[Phone]
  OBVIOUS
<1>3. /\ IsTable(P) /\ \A i \in DOMAIN P : i < putCounter[Phone]
      /\ putCounter[Phone] \in Nat
  BY <1>1, <1>2, OnePhone DEF FlightInv, Connection
<1>4. \A i \in DOMAIN P : i \in Nat /\ i >= 1
  BY <1>1, <1>2, <1>3 DEF Shape, IsTable
<1>5. DOMAIN P \subseteq 1 .. putCounter[Phone] - 1
  BY <1>3, <1>4
<1>6. \A i \in DOMAIN P : P[i].write \in Write /\ P[i].status \in {"sent", "ok", "denied"}
  BY <1>3 DEF IsTable, Entry
<1>7. \A p \in Path : /\ observers[Phone][p] \in Nat
                      /\ Len(waiting[Phone][p]) <= observers[Phone][p]
  <2>1. Observing(observers[Phone], waiting[Phone], mainq[Phone], calls[Phone])
    BY <1>1 DEF Core, Views
  <2>2. TAKE p \in Path
  <2>3. /\ observers[Phone][p] \in Nat /\ Len(waiting[Phone][p]) \in Nat
        /\ observers[Phone][p] >= Len(waiting[Phone][p])
    BY <2>1, ObservingFacts
  <2> QED
    BY ONLY <2>3
<1>8. \A p \in Path : cache[Phone][p] \in SUBSET Key
  BY <1>1 DEF Shape
<1>9. filled[Phone] \in SUBSET Path
  BY <1>1 DEF Core, Views, FilledOK
<1>10. DBTypeOK
  BY <1>1, <1>2, <1>5, <1>6, <1>7, <1>8, <1>9, OnePhone DEF DBTypeOK, FlightInv
<1> QED
  BY <1>1, <1>10 DEF TypeOK, AppOK, Rows

LEMMA ArraysFollow == ASSUME BoardInv(Post) PROVE ArraysInSync
<1>1. Core(Post) /\ TablesInSync /\ FetchOK /\ Views
  BY DEF BoardInv, Core
<1>2. SUFFICES ASSUME Quiescent, lastSnap # {}, posts # Readable(lastSnap)
               PROVE  FALSE
  BY <1>1 DEF ArraysInSync, PostsMatchLastFetch
<1>3. /\ calls[Phone] = << >> /\ mainq[Phone] = << >> /\ connected[Phone]
      /\ up[Phone] = << >> /\ down[Phone] = << >> /\ ~crashed
  BY <1>2 DEF Quiescent
<1>4. waiting[Phone][PostsPath] # << >>
  BY <1>1, <1>2, <1>3 DEF FetchOK, FetchingPosts, Fetching
<1>5. observers[Phone][PostsPath] > 0
  <2>1. /\ waiting[Phone][PostsPath] \in Seq(Request)
        /\ observers[Phone][PostsPath] \in Nat
        /\ observers[Phone][PostsPath] >= Len(waiting[Phone][PostsPath])
    BY <1>1, PathFacts, ObservingFacts DEF Views
  <2>2. Len(waiting[Phone][PostsPath]) \in Nat /\ Len(waiting[Phone][PostsPath]) # 0
    BY <1>4, <2>1
  <2> QED
    BY ONLY <2>1, <2>2
<1>6. PostsPath \notin filled[Phone]
  BY <1>1, <1>4 DEF Views, FilledOK
<1> QED
  BY <1>1, <1>3, <1>5, <1>6, PathFacts DEF Views, ListensOK

\* The state of the app and of its database client keeps its types, whatever is tapped,
\* answered, lost or ended: a put that is answered is in outstandingPuts under a number that
\* was given, and no more observers of a view wait for data than are registered.
THEOREM BoardTypes == Spec => []TypeOK
BY BoardIsSound, TypesFollow, PTL

\* A table whose rows are not its array has a reloadData coming, and once everything has settled
\* the shared posts array is what the last fetch delivered, although fetchPosts empties it
\* whenever another fetch starts: no fetch that emptied it is ever left without an answer.
THEOREM TablesFollowArrays == Spec => []ArraysInSync
BY BoardIsSound, ArraysFollow, PTL

-----------------------------------------------------------------------------
(***************************************************************************)
(* The comments of a post go after the post.                               *)
(***************************************************************************)

MakeCall(k) == PutCall(SetValue(PostsPath, k))
DropCall(k) == PutCall(RemoveValue(PostsPath, k))
ClearCall(k) == PutCall(ClearPath(CommentsPath(k)))

\* Post k goes, or stays away, when the puts in B have reached the server: an outstanding put
\* that makes it is followed by one in B that removes it, and if it is on the server one in
\* B that removes it has yet to get there.
Doomed(k, B) ==
    /\ \A i \in OutstandingPuts(Phone) :
          pending[Phone][i].write = SetValue(PostsPath, k) =>
              \E j \in OutstandingPuts(Phone) \cap B :
                  i < j /\ Removes(pending[Phone][j].write, PostsPath, k)
    /\ k \in server[PostsPath] =>
          \E j \in ToGo(Phone) \cap B : Removes(pending[Phone][j].write, PostsPath, k)

\* A put that clears the comments of k comes after the removal of k,
PutsClear(k) ==
    \A n \in OutstandingPuts(Phone) :
        pending[Phone][n].write = ClearPath(CommentsPath(k)) => Doomed(k, 0 .. n - 1)

\* and so does a call that is still queued.
Follows(q, i, k) == \E j \in DOMAIN q : j < i /\ q[j] = DropCall(k)

CallsClear(k) ==
    \A i \in DOMAIN calls[Phone] :
        calls[Phone][i] = ClearCall(k) => Doomed(k, Nat) \/ Follows(calls[Phone], i, k)

\* No comments of k are about to be cleared.
NoClear(k) ==
    /\ \A n \in OutstandingPuts(Phone) : pending[Phone][n].write # ClearPath(CommentsPath(k))
    /\ \A i \in DOMAIN calls[Phone] : calls[Phone][i] # ClearCall(k)

LEMMA DoomedUnmoved ==
    ASSUME NEW k, NEW B, Doomed(k, B), Unmoved(Phone), ToGo(Phone) \subseteq OutstandingPuts(Phone),
           k \in server'[PostsPath] => k \in server[PostsPath]
    PROVE  Doomed(k, B)'
BY DEF Doomed, Unmoved

LEMMA DoomedOver ==
    ASSUME NEW k, NEW B, Doomed(k, B), StartsOver(Phone), UNCHANGED server,
           ToGo(Phone) \subseteq OutstandingPuts(Phone)
    PROVE  Doomed(k, B)'
BY DEF Doomed, StartsOver

LEMMA DoomedAnswered ==
    ASSUME FlightInv, NEW k, NEW B, Doomed(k, B), Answered(Phone), UNCHANGED server
    PROVE  Doomed(k, B)'
<1>1. /\ OutstandingPuts(Phone) \subseteq Nat /\ ToGo(Phone) \subseteq OutstandingPuts(Phone)
  BY PutsInOrder, OnePhone
<1>2. PICK n \in OutstandingPuts(Phone) \ ToGo(Phone) :
        /\ \A i \in OutstandingPuts(Phone) : n <= i
        /\ OutstandingPuts(Phone)' = OutstandingPuts(Phone) \ {n}
        /\ ToGo(Phone)' = ToGo(Phone)
        /\ \A i \in OutstandingPuts(Phone) \ {n} :
              pending'[Phone][i].write = pending[Phone][i].write
  BY DEF Answered
<1>3. \A i, j \in OutstandingPuts(Phone) : i < j => j # n
  BY <1>1, <1>2
<1> QED
  BY <1>1, <1>2, <1>3 DEF Doomed

\* Another put enters; if it removes k, k is doomed.
LEMMA DoomedEntered ==
    ASSUME FlightInv, NEW k \in Post, NEW B, NEW w \in Write, Entered(Phone, w), UNCHANGED server
    PROVE  /\ Doomed(k, B) /\ w # SetValue(PostsPath, k) => Doomed(k, B)'
           /\ Removes(w, PostsPath, k) => Doomed(k, Nat)'
<1>1. /\ OutstandingPuts(Phone) \subseteq Nat /\ ToGo(Phone) \subseteq OutstandingPuts(Phone)
  BY PutsInOrder, OnePhone
<1>2. PICK n \in Nat :
        /\ \A i \in OutstandingPuts(Phone) : i < n
        /\ OutstandingPuts(Phone)' = OutstandingPuts(Phone) \cup {n}
        /\ ToGo(Phone)' = ToGo(Phone) \cup {n}
        /\ pending'[Phone][n].write = w
        /\ \A i \in OutstandingPuts(Phone) : pending'[Phone][i].write = pending[Phone][i].write
  BY DEF Entered
<1>3. Removes(w, PostsPath, k) => w # SetValue(PostsPath, k)
  BY DEF Removes, SetValue
<1>4. ASSUME Doomed(k, B), w # SetValue(PostsPath, k) PROVE Doomed(k, B)'
  BY <1>1, <1>2, <1>4 DEF Doomed
<1>5. ASSUME Removes(w, PostsPath, k) PROVE Doomed(k, Nat)'
  <2>1. \A i \in OutstandingPuts(Phone)' : pending'[Phone][i].write = SetValue(PostsPath, k) => i < n
    BY <1>2, <1>3, <1>5
  <2>2. n \in OutstandingPuts(Phone)' \cap Nat /\ n \in ToGo(Phone)' \cap Nat
        /\ Removes(pending'[Phone][n].write, PostsPath, k)
    BY <1>2, <1>5
  <2> QED
    BY <2>1, <2>2 DEF Doomed
<1> QED
  BY <1>4, <1>5

\* The oldest put that is to go reaches the server.
LEMMA DoomedHandled ==
    ASSUME FlightInv, NEW k \in Post, NEW B, Doomed(k, B), NEW w \in Write, Handled(Phone, w),
           server' = [server EXCEPT ![w.path] = Applied(w, server[w.path])]
    PROVE  Doomed(k, B)'
<1>1. /\ OutstandingPuts(Phone) \subseteq Nat /\ ToGo(Phone) \subseteq OutstandingPuts(Phone)
      /\ \A i \in OutstandingPuts(Phone) \ ToGo(Phone) : \A j \in ToGo(Phone) : i < j
  BY PutsInOrder, OnePhone
<1>2. PICK n \in ToGo(Phone) :
        /\ \A i \in ToGo(Phone) : n <= i
        /\ pending[Phone][n].write = w
        /\ OutstandingPuts(Phone)' = OutstandingPuts(Phone)
        /\ ToGo(Phone)' = ToGo(Phone) \ {n}
        /\ \A i \in OutstandingPuts(Phone) : pending'[Phone][i].write = pending[Phone][i].write
  BY DEF Handled
<1>3. \A i \in OutstandingPuts(Phone) :
          pending[Phone][i].write = SetValue(PostsPath, k) =>
              \E j \in OutstandingPuts(Phone) \cap B :
                  i < j /\ Removes(pending[Phone][j].write, PostsPath, k)
  BY DEF Doomed
<1>4. PostsPath \in Path /\ k \in Key /\ server \in [Path -> SUBSET Key]
  BY PathFacts DEF FlightInv
<1>5. k \in server'[PostsPath] =>
          \E j \in (ToGo(Phone) \ {n}) \cap B : Removes(pending[Phone][j].write, PostsPath, k)
  <2>1. CASE w = SetValue(PostsPath, k)
    <3>1. PICK j \in OutstandingPuts(Phone) \cap B :
            n < j /\ Removes(pending[Phone][j].write, PostsPath, k)
      BY <1>1, <1>2, <1>3, <2>1
    <3>2. j \in ToGo(Phone) /\ j # n
      BY <1>1, <3>1
    <3> QED
      BY <3>1, <3>2
  <2>2. CASE Removes(w, PostsPath, k)
    BY <1>4, <2>2, ServerWrites
  <2>3. CASE ~Removes(w, PostsPath, k) /\ w # SetValue(PostsPath, k)
    <3>1. k \in server'[PostsPath] <=> k \in server[PostsPath]
      BY <1>4, <2>3, ServerWrites
    <3> QED
      BY <1>2, <2>3, <3>1 DEF Doomed
  <2> QED
    BY <2>1, <2>2, <2>3
<1> QED
  BY <1>1, <1>2, <1>3, <1>5 DEF Doomed

-----------------------------------------------------------------------------
\* Puts that leave the write tree, or stay in it, leave the others in order.
LEMMA PutsClearKept ==
    ASSUME NEW k, PutsClear(k),
           OutstandingPuts(Phone)' \subseteq OutstandingPuts(Phone),
           \A i \in OutstandingPuts(Phone)' : pending'[Phone][i].write = pending[Phone][i].write,
           \A B : Doomed(k, B) => Doomed(k, B)'
    PROVE  PutsClear(k)'
<1>1. SUFFICES ASSUME NEW n \in OutstandingPuts(Phone)',
                      pending'[Phone][n].write = ClearPath(CommentsPath(k))
               PROVE  Doomed(k, 0 .. n - 1)'
  BY DEF PutsClear
<1>2. Doomed(k, 0 .. n - 1)
  BY <1>1 DEF PutsClear
<1> QED
  BY <1>2

\* Only posts in S have their comments cleared.
LEMMA ClearsIn ==
    ASSUME NEW S, Shape(S), NEW k \in Post, k \notin S
    PROVE  NoClear(k)
<1>1. \A w \in AppWrite(S) : w # ClearPath(CommentsPath(k))
  <2>1. SUFFICES ASSUME NEW w \in AppWrite(S), w = ClearPath(CommentsPath(k)) PROVE FALSE
    OBVIOUS
  <2>2. w.op = "clear" /\ w.path = CommentsPath(k)
    BY <2>1 DEF ClearPath
  <2>3. w \in [op : {"clear"}, path : {CommentsPath(j) : j \in S}, key : {NoKey}]
    BY <2>1, <2>2 DEF AppWrite
  <2>4. PICK j \in S : w.path = CommentsPath(j)
    BY <2>3
  <2> QED
    BY <2>2, <2>4, PathFacts
<1>2. \A n \in OutstandingPuts(Phone) : pending[Phone][n].write \in AppWrite(S)
  BY DEF Shape, OutstandingPuts
<1>3. ASSUME NEW c \in AppCall(S) PROVE c # ClearCall(k)
  <2>1. SUFFICES ASSUME c = ClearCall(k) PROVE FALSE
    OBVIOUS
  <2>2. c.call = "put" /\ c.write = ClearPath(CommentsPath(k)) /\ c.write.op = "clear"
    BY <2>1 DEF ClearCall, PutCall, ClearPath
  <2>3. c.write \in AppWrite(S)
    BY <2>2 DEF AppCall
  <2> QED
    BY <1>1, <2>2, <2>3
<1>4. \A i \in DOMAIN calls[Phone] : calls[Phone][i] \in AppCall(S)
  BY DEF Shape
<1> QED
  BY <1>1, <1>2, <1>3, <1>4 DEF NoClear

-----------------------------------------------------------------------------
\* Calls that clear the comments of a post only after the post.
Orderly(cs) == \A k \in Post : \A i \in DOMAIN cs : cs[i] = ClearCall(k) => Follows(cs, i, k)

LEMMA OrderlyBoth ==
    ASSUME NEW T, NEW a \in Seq(T), NEW b \in Seq(T), Orderly(a), Orderly(b)
    PROVE  Orderly(a \o b)
<1>1. PICK y : y = a \o b
  OBVIOUS
<1>2. /\ Len(a) \in Nat /\ Len(b) \in Nat /\ DOMAIN a = 1 .. Len(a) /\ DOMAIN b = 1 .. Len(b)
      /\ DOMAIN y = 1 .. Len(a) + Len(b)
      /\ \A i \in 1 .. Len(a) : y[i] = a[i]
      /\ \A i \in 1 .. Len(b) : y[Len(a) + i] = b[i]
  BY <1>1, ConcatFacts
<1>3. ASSUME NEW k \in Post, NEW i \in DOMAIN y, y[i] = ClearCall(k)
      PROVE  Follows(y, i, k)
  <2>1. CASE i <= Len(a)
    <3>1. i \in DOMAIN a /\ a[i] = ClearCall(k)
      BY <1>2, <1>3, <2>1
    <3>2. PICK j \in DOMAIN a : j < i /\ a[j] = DropCall(k)
      BY <3>1 DEF Orderly, Follows
    <3>3. j \in DOMAIN y /\ y[j] = DropCall(k)
      BY <1>2, <3>2
    <3> QED
      BY <3>2, <3>3 DEF Follows
  <2>2. CASE i > Len(a)
    <3>1. PICK h \in 1 .. Len(b) : i = Len(a) + h
      <4>1. i - Len(a) \in 1 .. Len(b) /\ i = Len(a) + (i - Len(a))
        BY <1>2, <2>2
      <4> QED
        BY <4>1
    <3>2. h \in DOMAIN b /\ b[h] = ClearCall(k)
      BY <1>2, <1>3, <3>1
    <3>3. PICK j \in DOMAIN b : j < h /\ b[j] = DropCall(k)
      BY <3>2 DEF Orderly, Follows
    <3>4. Len(a) + j \in DOMAIN y /\ y[Len(a) + j] = DropCall(k) /\ Len(a) + j < i
      BY <1>2, <3>1, <3>3
    <3> QED
      BY <3>4 DEF Follows
  <2> QED
    BY <1>2, <2>1, <2>2
<1> QED
  BY <1>1, <1>3 DEF Orderly

\* The app appends to the queue,
LEMMA ClearsCalled ==
    ASSUME NEW T, calls[Phone] \in Seq(T), NEW cs \in Seq(T), Orderly(cs), NEW k \in Post,
           CallsClear(k), calls'[Phone] = calls[Phone] \o cs, Doomed(k, Nat) => Doomed(k, Nat)'
    PROVE  CallsClear(k)'
<1>1. PICK q, y : q = calls[Phone] /\ y = q \o cs
  OBVIOUS
<1>2. /\ Len(q) \in Nat /\ Len(cs) \in Nat /\ DOMAIN q = 1 .. Len(q) /\ DOMAIN cs = 1 .. Len(cs)
      /\ DOMAIN y = 1 .. Len(q) + Len(cs)
      /\ \A i \in 1 .. Len(q) : y[i] = q[i]
      /\ \A i \in 1 .. Len(cs) : y[Len(q) + i] = cs[i]
  BY <1>1, ConcatFacts
<1>3. ASSUME NEW i \in DOMAIN y, y[i] = ClearCall(k)
      PROVE  Doomed(k, Nat)' \/ Follows(y, i, k)
  <2>1. CASE i <= Len(q)
    <3>1. i \in DOMAIN q /\ q[i] = ClearCall(k)
      BY <1>2, <1>3, <2>1
    <3>2. Doomed(k, Nat) \/ Follows(q, i, k)
      BY <1>1, <3>1 DEF CallsClear
    <3>3. ASSUME NEW j \in DOMAIN q, j < i, q[j] = DropCall(k) PROVE Follows(y, i, k)
      <4>1. j \in DOMAIN y /\ y[j] = DropCall(k)
        BY <1>2, <3>3
      <4> QED
        BY <3>3, <4>1 DEF Follows
    <3> QED
      BY <3>2, <3>3 DEF Follows
  <2>2. CASE i > Len(q)
    <3>1. PICK h \in 1 .. Len(cs) : i = Len(q) + h
      <4>1. i - Len(q) \in 1 .. Len(cs) /\ i = Len(q) + (i - Len(q))
        BY <1>2, <2>2
      <4> QED
        BY <4>1
    <3>2. h \in DOMAIN cs /\ cs[h] = ClearCall(k)
      BY <1>2, <1>3, <3>1
    <3>3. PICK j \in DOMAIN cs : j < h /\ cs[j] = DropCall(k)
      BY <3>2 DEF Orderly, Follows
    <3>4. Len(q) + j \in DOMAIN y /\ y[Len(q) + j] = DropCall(k) /\ Len(q) + j < i
      BY <1>2, <3>1, <3>3
    <3> QED
      BY <3>4 DEF Follows
  <2> QED
    BY <1>2, <2>1, <2>2
<1>4. calls'[Phone] = y
  BY <1>1
<1> QED
  BY <1>3, <1>4 DEF CallsClear

\* and the client takes the call at its head.
LEMMA ClearsTaken ==
    ASSUME NEW T, calls[Phone] \in Seq(T), calls[Phone] # << >>, NEW k,
           CallsClear(k), calls'[Phone] = Tail(calls[Phone]), Doomed(k, Nat) => Doomed(k, Nat)',
           Head(calls[Phone]) = DropCall(k) => Doomed(k, Nat)'
    PROVE  CallsClear(k)'
<1>1. PICK q, y : q = calls[Phone] /\ y = Tail(q)
  OBVIOUS
<1>2. /\ Len(q) \in Nat /\ Len(q) >= 1 /\ DOMAIN q = 1 .. Len(q) /\ DOMAIN y = 1 .. Len(q) - 1
      /\ \A i \in 1 .. Len(q) - 1 : y[i] = q[i + 1]
      /\ Head(q) = q[1]
  BY <1>1, TailFacts
<1>3. ASSUME NEW i \in DOMAIN y, y[i] = ClearCall(k), ~Doomed(k, Nat)'
      PROVE  Follows(y, i, k)
  <2>1. i + 1 \in DOMAIN q /\ q[i + 1] = ClearCall(k)
    BY <1>2, <1>3
  <2>2. PICK j \in DOMAIN q : j < i + 1 /\ q[j] = DropCall(k)
    BY <1>1, <1>3, <2>1 DEF CallsClear, Follows
  <2>3. j # 1
    BY <1>1, <1>2, <1>3, <2>2
  <2>4. j - 1 \in DOMAIN y /\ y[j - 1] = q[j] /\ j - 1 < i
    <3>1. j - 1 \in 1 .. Len(q) - 1 /\ (j - 1) + 1 = j /\ j - 1 < i
      BY <1>2, <2>2, <2>3
    <3> QED
      BY <1>2, <3>1
  <2> QED
    BY <2>2, <2>4 DEF Follows
<1>4. calls'[Phone] = y
  BY <1>1
<1> QED
  BY <1>3, <1>4 DEF CallsClear

-----------------------------------------------------------------------------
\* The calls cs of the app make a post only with an id that was just drawn.
Fresh(cs) ==
    \A k \in Post : \/ Num(cs, {MakeCall(k)}) = 0
                    \/ Num(cs, {MakeCall(k)}) = 1 /\ k \in used' \ used

\* A step of the app as the database client sees it.
Called(cs) ==
    /\ cs \in Seq(AppCall(Post)) /\ Orderly(cs) /\ Fresh(cs)
    /\ calls'[Phone] = calls[Phone] \o cs
    /\ UNCHANGED <<pending, connected, up, server>>
    /\ used \subseteq used'

Quiet(cs) == \A i \in DOMAIN cs : \A k \in Post : cs[i] # MakeCall(k) /\ cs[i] # ClearCall(k)

LEMMA QuietCalls ==
    ASSUME NEW cs, Quiet(cs)
    PROVE  /\ Orderly(cs) /\ Fresh(cs)
           /\ \A k \in Post : Num(cs, {MakeCall(k)}) = 0
<1>1. \A k \in Post : Num(cs, {MakeCall(k)}) = 0
  BY NumNone DEF Quiet
<1> QED
  BY <1>1 DEF Quiet, Orderly, Fresh

LEMMA QuietBoth ==
    ASSUME NEW T, NEW a \in Seq(T), NEW b \in Seq(T), Quiet(a), Quiet(b)
    PROVE  Quiet(a \o b)
<1>1. PICK y : y = a \o b
  OBVIOUS
<1>2. /\ Len(a) \in Nat /\ Len(b) \in Nat /\ DOMAIN a = 1 .. Len(a) /\ DOMAIN b = 1 .. Len(b)
      /\ DOMAIN y = 1 .. Len(a) + Len(b)
      /\ \A i \in 1 .. Len(a) : y[i] = a[i]
      /\ \A i \in 1 .. Len(b) : y[Len(a) + i] = b[i]
  BY <1>1, ConcatFacts
<1>3. ASSUME NEW i \in DOMAIN y
      PROVE  (\E j \in DOMAIN a : y[i] = a[j]) \/ (\E j \in DOMAIN b : y[i] = b[j])
  <2>1. CASE i <= Len(a)
    BY <1>2, <2>1
  <2>2. CASE i > Len(a)
    <3>1. i - Len(a) \in 1 .. Len(b) /\ i = Len(a) + (i - Len(a))
      BY <1>2, <2>2
    <3> QED
      BY <1>2, <3>1
  <2> QED
    BY <1>2, <2>1, <2>2
<1> QED
  BY <1>1, <1>3 DEF Quiet

LEMMA CallKinds ==
    ASSUME NEW k \in Post
    PROVE  /\ MakeCall(k).call = "put" /\ MakeCall(k).write.path = PostsPath
           /\ ClearCall(k).call = "put" /\ ClearCall(k).write.op = "clear"
           /\ DropCall(k).call = "put" /\ DropCall(k).write = RemoveValue(PostsPath, k)
           /\ MakeCall(k).write = SetValue(PostsPath, k)
           /\ MakeCall(k).write.op = "set" /\ DropCall(k).write.op = "remove"
           /\ ClearCall(k).write = ClearPath(CommentsPath(k))
           /\ \A j \in Post : MakeCall(j) = MakeCall(k) => j = k
           /\ \A j \in Post : ClearCall(j) = ClearCall(k) => j = k
<1>1. /\ MakeCall(k).write = SetValue(PostsPath, k) /\ DropCall(k).write = RemoveValue(PostsPath, k)
      /\ ClearCall(k).write = ClearPath(CommentsPath(k))
      /\ MakeCall(k).call = "put" /\ ClearCall(k).call = "put" /\ DropCall(k).call = "put"
  BY DEF MakeCall, DropCall, ClearCall, PutCall
<1>2. ASSUME NEW j \in Post, MakeCall(j) = MakeCall(k) PROVE j = k
  <2>1. SetValue(PostsPath, j) = SetValue(PostsPath, k)
    BY <1>2 DEF MakeCall, PutCall
  <2> QED
    BY <2>1 DEF SetValue
<1>3. ASSUME NEW j \in Post, ClearCall(j) = ClearCall(k) PROVE j = k
  <2>1. ClearPath(CommentsPath(j)) = ClearPath(CommentsPath(k))
    BY <1>3 DEF ClearCall, PutCall
  <2>2. CommentsPath(j) = CommentsPath(k)
    BY <2>1 DEF ClearPath
  <2> QED
    BY <2>2, PathFacts
<1> QED
  BY <1>1, <1>2, <1>3 DEF SetValue, RemoveValue, ClearPath

LEMMA QuietOne ==
    ASSUME NEW c, c.call # "put" \/ (c.write.op = "set" /\ c.write.path # PostsPath)
    PROVE  Quiet(<<c>>)
<1>1. PICK x : x = <<c>>
  OBVIOUS
<1>2. DOMAIN x = {1} /\ x[1] = c
  BY <1>1
<1>3. Quiet(x)
  BY <1>2, CallKinds DEF Quiet
<1> QED
  BY <1>1, <1>3

LEMMA QuietOfTheApp ==
    /\ Quiet(<< >>) /\ << >> \in Seq(AppCall(Post))
    /\ \A kind \in {"board", "created", "activity"} : Quiet(FetchPosts(kind))
    /\ \A k \in Post : \A n \in Nat : Quiet(FetchComments(k, n))
    /\ \A k \in Post : \A c \in Comment : Quiet(CreateCommentCall(k, c))
    /\ \A p \in Path : Quiet(<<RemoveObserverCall(p)>>)
    /\ \A p \in Path : <<RemoveObserverCall(p)>> \in Seq(AppCall(Post))
<1>1. Quiet(<< >>) /\ << >> \in Seq(AppCall(Post))
  BY ShortSeq DEF Quiet
<1>2. ASSUME NEW kind \in {"board", "created", "activity"} PROVE Quiet(FetchPosts(kind))
  <2>1. ObserveCall(PostsPath, kind).call # "put"
    BY DEF ObserveCall
  <2> QED
    BY <2>1, QuietOne DEF FetchPosts
<1>3. ASSUME NEW k \in Post, NEW n \in Nat PROVE Quiet(FetchComments(k, n))
  <2>1. ObserveCall(CommentsPath(k), n).call # "put"
    BY DEF ObserveCall
  <2> QED
    BY <2>1, QuietOne DEF FetchComments
<1>4. ASSUME NEW k \in Post, NEW c \in Comment PROVE Quiet(CreateCommentCall(k, c))
  <2>1. PICK e : e = PutCall(SetValue(CommentsPath(k), c))
    OBVIOUS
  <2>2. e.write.op = "set" /\ e.write.path # PostsPath
    BY <2>1, PathFacts DEF PutCall, SetValue
  <2> QED
    BY <2>1, <2>2, QuietOne DEF CreateCommentCall
<1>5. ASSUME NEW p \in Path
      PROVE  Quiet(<<RemoveObserverCall(p)>>) /\ <<RemoveObserverCall(p)>> \in Seq(AppCall(Post))
  <2>1. PICK e : e = RemoveObserverCall(p)
    OBVIOUS
  <2>2. e.call # "put" /\ e \in AppCall(Post)
    BY <2>1 DEF RemoveObserverCall, AppCall
  <2> QED
    BY <2>1, <2>2, QuietOne, ShortSeq
<1> QED
  BY <1>1, <1>2, <1>3, <1>4, <1>5

\* deletePostandItsComments is in order,
LEMMA DeletionOrderly ==
    ASSUME NEW k \in Post
    PROVE  /\ Orderly(DeletePostandItsComments(k))
           /\ \A j \in Post : Num(DeletePostandItsComments(k), {MakeCall(j)}) = 0
<1>1. PICK a, b, x : a = DropCall(k) /\ b = ClearCall(k) /\ x = <<a, b>>
  OBVIOUS
<1>2. DOMAIN x = {1, 2} /\ x[1] = a /\ x[2] = b
  BY <1>1
<1>3. \A j \in Post : a # ClearCall(j) /\ a # MakeCall(j) /\ b # MakeCall(j)
  BY <1>1, CallKinds
<1>4. \A j \in Post : b = ClearCall(j) => j = k
  BY <1>1, CallKinds
<1>5. Orderly(x)
  <2>1. SUFFICES ASSUME NEW j \in Post, NEW i \in DOMAIN x, x[i] = ClearCall(j)
                 PROVE  Follows(x, i, j)
    BY DEF Orderly
  <2>2. i = 2 /\ j = k
    BY <1>2, <1>3, <1>4, <2>1
  <2>3. 1 \in DOMAIN x /\ 1 < 2 /\ x[1] = DropCall(k)
    BY <1>1, <1>2
  <2> QED
    BY <2>2, <2>3 DEF Follows
<1>6. ASSUME NEW j \in Post PROVE Num(x, {MakeCall(j)}) = 0
  <2>1. \A i \in DOMAIN x : x[i] \notin {MakeCall(j)}
    BY <1>2, <1>3
  <2> QED
    BY <2>1, NumNone
<1>7. x = DeletePostandItsComments(k)
  BY <1>1 DEF DeletePostandItsComments, DropCall, ClearCall
<1> QED
  BY <1>5, <1>6, <1>7

\* and so is the notification that follows it.
LEMMA DeletionQuiet ==
    ASSUME deletionObservers \in Nat
    PROVE  Quiet(PostDeletion)
<1>1. PICK x, n, c : x = PostDeletion /\ n = deletionObservers /\ c = ObserveCall(PostsPath, "board")
  OBVIOUS
<1>2. DOMAIN x = 1 .. n /\ \A i \in 1 .. n : x[i] = c
  BY <1>1 DEF PostDeletion
<1>3. c.call # "put"
  BY <1>1 DEF ObserveCall
<1>4. Quiet(x)
  BY <1>2, <1>3, CallKinds DEF Quiet
<1> QED
  BY <1>1, <1>4

\* createPost makes its post once.
LEMMA CreationMakes ==
    ASSUME NEW k \in Post
    PROVE  /\ Orderly(CreatePostCall(k))
           /\ \A j \in Post : Num(CreatePostCall(k), {MakeCall(j)}) = IF j = k THEN 1 ELSE 0
<1>1. PICK a, x : a = MakeCall(k) /\ x = <<a>>
  OBVIOUS
<1>2. DOMAIN x = {1} /\ x[1] = a /\ Len(x) = 1 /\ x \in Seq({a})
  BY <1>1
<1>3. \A j \in Post : a # ClearCall(j) /\ (a = MakeCall(j) => j = k)
  BY <1>1, CallKinds
<1>4. Orderly(x)
  BY <1>2, <1>3 DEF Orderly
<1>5. ASSUME NEW j \in Post PROVE Num(x, {MakeCall(j)}) = IF j = k THEN 1 ELSE 0
  <2>1. CASE j = k
    <3>1. \A i \in DOMAIN x : x[i] \in {MakeCall(j)}
      BY <1>1, <1>2, <2>1
    <3>2. Num(x, {MakeCall(j)}) = Len(x)
      BY <1>2, <3>1, NumAll
    <3> QED
      BY <1>2, <2>1, <3>2
  <2>2. CASE j # k
    <3>1. \A i \in DOMAIN x : x[i] \notin {MakeCall(j)}
      BY <1>2, <1>3, <2>2
    <3> QED
      BY <2>2, <3>1, NumNone
  <2> QED
    BY <2>1, <2>2
<1>6. x = CreatePostCall(k)
  BY <1>1 DEF CreatePostCall, MakeCall
<1> QED
  BY <1>4, <1>5, <1>6

LEMMA CalledBy ==
    ASSUME NEW S, Core(S), NEW cs \in Seq(AppCall(Post)), Orderly(cs), Fresh(cs),
           used \subseteq used', Calling(cs) \/ \E more : Ran(cs, more)
    PROVE  Called(cs)
<1>1. calls' = [calls EXCEPT ![Phone] = @ \o cs] /\ UNCHANGED clientRest
  BY DEF Calling, Ran
<1>2. Phone \in DOMAIN calls
  BY CoreFacts DEF Domains
<1>3. calls'[Phone] = calls[Phone] \o cs
  BY <1>1, <1>2
<1>4. UNCHANGED <<pending, connected, up, server>>
  BY <1>1 DEF clientRest, netVars
<1> QED
  BY <1>3, <1>4 DEF Called

LEMMA QuietCalled ==
    ASSUME NEW S, Core(S), NEW cs \in Seq(AppCall(Post)), Quiet(cs),
           used \subseteq used', Calling(cs) \/ \E more : Ran(cs, more)
    PROVE  Called(cs)
BY QuietCalls, CalledBy

LEMMA NothingCalled ==
    ASSUME NEW S, Core(S), UNCHANGED dbVars, used \subseteq used'
    PROVE  Called(<< >>)
<1>1. PICK z : z = << >>
  OBVIOUS
<1>2. z \in Seq(AppCall(Post)) /\ Orderly(z) /\ Fresh(z)
  BY <1>1, QuietOfTheApp, QuietCalls
<1>3. calls[Phone] \o z = calls[Phone]
  BY <1>1, CoreFacts, NoMore
<1>4. calls'[Phone] = calls[Phone] \o z /\ UNCHANGED <<pending, connected, up, server>>
  BY <1>3 DEF dbVars, clientVars, netVars
<1> QED
  BY <1>1, <1>2, <1>4 DEF Called

LEMMA UserCalls ==
    ASSUME BoardInv(Post), User
    PROVE  \E cs : Called(cs)
<1>1. Core(Post) /\ AppOK(Post) /\ scope.posts \subseteq Post /\ scope.comments \subseteq Comment
  BY ScopeFacts DEF BoardInv
<1>2. /\ \A kind \in {"board", "created", "activity"} : FetchPosts(kind) \in Seq(AppCall(Post))
      /\ \A k \in Post : CreatePostCall(k) \in Seq(AppCall(Post))
      /\ \A k \in Post : \A c \in Comment : CreateCommentCall(k, c) \in Seq(AppCall(Post))
      /\ \A k \in Post : \A n \in Nat : FetchComments(k, n) \in Seq(AppCall(Post))
      /\ \A k \in Post : DeletePostandItsComments(k) \in Seq(AppCall(Post))
  BY AsksOfTheApp DEF Asks
<1>3. CASE (\E a \in Account : LogIn(a)) \/ LogInDetached \/ SelectActivity
  <2>1. PICK kind \in {"board", "created", "activity"} : Calling(FetchPosts(kind)) /\ UNCHANGED used
    BY <1>3 DEF LogIn, LogInDetached, SelectActivity
  <2> QED
    BY <1>1, <1>2, <2>1, QuietOfTheApp, QuietCalled
<1>4. CASE SignOut \/ SelectBoard \/ SelectProfile \/ TapStaleRow \/ CloseDetail
  <2>1. UNCHANGED dbVars /\ UNCHANGED used
    BY <1>4 DEF SignOut, SelectBoard, SelectProfile, TapStaleRow, CloseDetail
  <2> QED
    BY <1>1, <2>1, NothingCalled
<1>5. ASSUME NEW k \in Post, PostMessageBoard(k) PROVE \E cs : Called(cs)
  <2>1. PICK a, b, cs : a = CreatePostCall(k) /\ b = FetchPosts("created") /\ cs = a \o b
    OBVIOUS
  <2>2. a \in Seq(AppCall(Post)) /\ b \in Seq(AppCall(Post)) /\ cs \in Seq(AppCall(Post))
    BY <1>2, <2>1
  <2>3. Calling(cs) /\ k \notin used /\ used' = used \cup {k}
    BY <1>5, <2>1 DEF PostMessageBoard
  <2>4. Quiet(b)
    BY <2>1, QuietOfTheApp
  <2>5. Orderly(cs)
    BY <2>1, <2>2, <2>4, QuietCalls, CreationMakes, OrderlyBoth
  <2>6. ASSUME NEW j \in Post PROVE Num(cs, {MakeCall(j)}) = IF j = k THEN 1 ELSE 0
    <3>1. Num(a, {MakeCall(j)}) = IF j = k THEN 1 ELSE 0
      BY <2>1, CreationMakes
    <3>2. Num(b, {MakeCall(j)}) = 0
      BY <2>4, QuietCalls
    <3>3. Num(cs, {MakeCall(j)}) = Num(a, {MakeCall(j)}) + Num(b, {MakeCall(j)})
      BY <2>1, <2>2, NumConcat
    <3> QED
      BY ONLY <3>1, <3>2, <3>3
  <2>7. Fresh(cs)
    BY <2>3, <2>6 DEF Fresh
  <2> QED
    BY <1>1, <2>2, <2>3, <2>5, <2>7, CalledBy
<1>6. ASSUME NEW i, DeleteRow(i) PROVE \E cs : Called(cs)
  <2>1. PICK k : k = usersPosts[i]
    OBVIOUS
  <2>2. PICK a, b, cs : a = DeletePostandItsComments(k) /\ b = PostDeletion /\ cs = a \o b
    OBVIOUS
  <2>3. Calling(cs) /\ UNCHANGED used /\ i \in DOMAIN usersPosts
    BY <1>6, <2>1, <2>2 DEF DeleteRow
  <2>4. k \in Post
    <3>1. usersPosts \in Seq(Post)
      BY <1>1 DEF AppOK
    <3> QED
      BY <2>1, <2>3, <3>1
  <2>5. a \in Seq(AppCall(Post)) /\ b \in Seq(AppCall(Post)) /\ cs \in Seq(AppCall(Post))
    <3>1. b \in Seq(AppCall(Post))
      BY <1>1, <2>2, DeletionAsks DEF AppOK, Asks
    <3> QED
      BY <1>2, <2>2, <2>4, <3>1
  <2>6. Quiet(b)
    BY <1>1, <2>2, DeletionQuiet DEF AppOK
  <2>7. Orderly(cs)
    BY <2>2, <2>4, <2>5, <2>6, QuietCalls, DeletionOrderly, OrderlyBoth
  <2>8. ASSUME NEW j \in Post PROVE Num(cs, {MakeCall(j)}) = 0
    <3>1. Num(a, {MakeCall(j)}) = 0
      BY <2>2, <2>4, DeletionOrderly
    <3>2. Num(b, {MakeCall(j)}) = 0
      BY <2>6, QuietCalls
    <3>3. Num(cs, {MakeCall(j)}) = Num(a, {MakeCall(j)}) + Num(b, {MakeCall(j)})
      BY <2>2, <2>5, NumConcat
    <3> QED
      BY ONLY <3>1, <3>2, <3>3
  <2>9. Fresh(cs)
    BY <2>8 DEF Fresh
  <2> QED
    BY <1>1, <2>3, <2>5, <2>7, <2>9, CalledBy
<1>7. ASSUME NEW i, OpenDetail(i) PROVE \E cs : Called(cs)
  <2>1. PICK k, n : k = localPosts[i] /\ n = opened + 1
    OBVIOUS
  <2>2. Calling(FetchComments(k, n)) /\ UNCHANGED used /\ i \in DOMAIN localPosts
    BY <1>7, <2>1 DEF OpenDetail
  <2>3. k \in Post /\ n \in Nat
    <3>1. localPosts \in Seq(Post) /\ opened \in Nat
      BY <1>1 DEF AppOK
    <3> QED
      BY <2>1, <2>2, <3>1
  <2> QED
    BY <1>1, <1>2, <2>2, <2>3, QuietOfTheApp, QuietCalled
<1>8. ASSUME NEW c \in Comment, PostComment(c) PROVE \E cs : Called(cs)
  <2>1. PICK k, n : k = detail[1] /\ n = opened
    OBVIOUS
  <2>2. PICK a, b, cs : a = CreateCommentCall(k, c) /\ b = FetchComments(k, n) /\ cs = a \o b
    OBVIOUS
  <2>3. detail # << >> /\ Calling(cs) /\ used \subseteq used'
    BY <1>8, <2>1, <2>2 DEF PostComment
  <2>4. k \in Post /\ n \in Nat
    BY <1>1, <2>1, <2>3, OptionalFacts DEF AppOK
  <2>5. a \in Seq(AppCall(Post)) /\ b \in Seq(AppCall(Post)) /\ cs \in Seq(AppCall(Post))
    BY <1>2, <2>2, <2>4
  <2>6. Quiet(cs)
    BY <2>2, <2>4, <2>5, QuietOfTheApp, QuietBoth
  <2> QED
    BY <1>1, <2>3, <2>5, <2>6, QuietCalled
<1> QED
  BY <1>1, <1>3, <1>4, <1>5, <1>6, <1>7, <1>8 DEF User

LEMMA MainCalls ==
    ASSUME BoardInv(Post), RunMain
    PROVE  \E cs : Called(cs)
<1>1. Core(Post) /\ PostsPath \in Path /\ \A k \in Post : CommentsPath(k) \in Path
  BY PathFacts DEF BoardInv
<1>2. CASE NoPostsArrived \/ BoardArrived \/ CreatedArrived \/ ActivityArrived
  <2>1. UNCHANGED used /\ \E more : Ran(<<RemoveObserverCall(PostsPath)>>, more)
    BY <1>2 DEF NoPostsArrived, BoardArrived, CreatedArrived, ActivityArrived
  <2> QED
    BY <1>1, <2>1, QuietOfTheApp, QuietCalled
<1>3. CASE OrderingTraps
  BY <1>1, <1>3, NothingCalled DEF OrderingTraps
<1>4. CASE CommentsArrived
  <2>1. PICK k \in Post : UNCHANGED used /\ \E more : Ran(<<RemoveObserverCall(CommentsPath(k))>>, more)
    BY <1>4 DEF CommentsArrived
  <2> QED
    BY <1>1, <2>1, QuietOfTheApp, QuietCalled
<1>5. CASE RunReload \/ RunReloadComments
  <2>1. UNCHANGED used /\ \E more : Ran(<< >>, more)
    BY <1>5 DEF RunReload, RunReloadComments
  <2> QED
    BY <1>1, <2>1, QuietOfTheApp, QuietCalled
<1> QED
  BY <1>2, <1>3, <1>4, <1>5 DEF RunMain

-----------------------------------------------------------------------------
\* What the steps make of one post's comments.
ClearsLast(k) == PutsClear(k) /\ CallsClear(k)

\* The puts and the queue are left alone, and so is the post on the server.
LEMMA ClearsUnmoved ==
    ASSUME FlightInv, NEW k \in Post, ClearsLast(k), Unmoved(Phone), UNCHANGED calls,
           k \in server'[PostsPath] => k \in server[PostsPath]
    PROVE  ClearsLast(k)'
<1>1. ToGo(Phone) \subseteq OutstandingPuts(Phone)
  BY PutsInOrder, OnePhone
<1>2. \A B : Doomed(k, B) => Doomed(k, B)'
  BY <1>1, DoomedUnmoved
<1>3. PutsClear(k)'
  BY <1>2, PutsClearKept DEF ClearsLast, Unmoved
<1>4. CallsClear(k)'
  BY <1>2 DEF ClearsLast, CallsClear
<1> QED
  BY <1>3, <1>4 DEF ClearsLast

LEMMA ClearsOver ==
    ASSUME FlightInv, NEW k \in Post, ClearsLast(k), StartsOver(Phone), UNCHANGED <<calls, server>>
    PROVE  ClearsLast(k)'
<1>1. ToGo(Phone) \subseteq OutstandingPuts(Phone)
  BY PutsInOrder, OnePhone
<1>2. \A B : Doomed(k, B) => Doomed(k, B)'
  BY <1>1, DoomedOver
<1>3. PutsClear(k)'
  BY <1>2, PutsClearKept DEF ClearsLast, StartsOver
<1>4. CallsClear(k)'
  BY <1>2 DEF ClearsLast, CallsClear
<1> QED
  BY <1>3, <1>4 DEF ClearsLast

LEMMA ClearsAnswered ==
    ASSUME FlightInv, NEW k \in Post, ClearsLast(k), Answered(Phone), UNCHANGED <<calls, server>>
    PROVE  ClearsLast(k)'
<1>1. \A B : Doomed(k, B) => Doomed(k, B)'
  BY DoomedAnswered
<1>2. PutsClear(k)'
  <2>1. /\ OutstandingPuts(Phone)' \subseteq OutstandingPuts(Phone)
        /\ \A i \in OutstandingPuts(Phone)' : pending'[Phone][i].write = pending[Phone][i].write
    BY DEF Answered
  <2> QED
    BY <1>1, <2>1, PutsClearKept DEF ClearsLast
<1>3. CallsClear(k)'
  BY <1>1 DEF ClearsLast, CallsClear
<1> QED
  BY <1>2, <1>3 DEF ClearsLast

LEMMA ClearsHandled ==
    ASSUME FlightInv, NEW k \in Post, ClearsLast(k), NEW w \in Write, Handled(Phone, w),
           server' = [server EXCEPT ![w.path] = Applied(w, server[w.path])], UNCHANGED calls
    PROVE  ClearsLast(k)'
<1>1. \A B : Doomed(k, B) => Doomed(k, B)'
  BY DoomedHandled
<1>2. PutsClear(k)'
  <2>1. /\ OutstandingPuts(Phone)' \subseteq OutstandingPuts(Phone)
        /\ \A i \in OutstandingPuts(Phone)' : pending'[Phone][i].write = pending[Phone][i].write
    BY DEF Handled
  <2> QED
    BY <1>1, <2>1, PutsClearKept DEF ClearsLast
<1>3. CallsClear(k)'
  BY <1>1 DEF ClearsLast, CallsClear
<1> QED
  BY <1>2, <1>3 DEF ClearsLast

\* The server clears the comments of a post that is not there.
LEMMA ClearedLast ==
    ASSUME FlightInv, NEW k \in Post, ClearsLast(k), Handled(Phone, ClearPath(CommentsPath(k)))
    PROVE  k \notin server[PostsPath]
<1>1. OutstandingPuts(Phone) \subseteq Nat /\ ToGo(Phone) \subseteq OutstandingPuts(Phone)
  BY PutsInOrder, OnePhone
<1>2. PICK n \in ToGo(Phone) : /\ \A i \in ToGo(Phone) : n <= i
                              /\ pending[Phone][n].write = ClearPath(CommentsPath(k))
  BY DEF Handled
<1>3. Doomed(k, 0 .. n - 1)
  BY <1>1, <1>2 DEF ClearsLast, PutsClear
<1>4. \A j \in ToGo(Phone) \cap (0 .. n - 1) : FALSE
  BY <1>1, <1>2
<1> QED
  BY <1>3, <1>4 DEF Doomed

\* The app calls.
LEMMA ClearsAfterCall ==
    ASSUME FlightInv, calls[Phone] \in Seq(AppCall(Post)), NEW k \in Post, ClearsLast(k),
           NEW cs, Called(cs)
    PROVE  ClearsLast(k)'
<1>1. Unmoved(Phone) /\ ToGo(Phone) \subseteq OutstandingPuts(Phone)
  BY PutsInOrder, OnePhone DEF Called, Unmoved, OutstandingPuts, ToGo
<1>2. \A B : Doomed(k, B) => Doomed(k, B)'
  BY <1>1, DoomedUnmoved DEF Called
<1>3. PutsClear(k)'
  BY <1>1, <1>2, PutsClearKept DEF ClearsLast, Unmoved
<1>4. CallsClear(k)'
  BY <1>2, ClearsCalled DEF ClearsLast, Called
<1> QED
  BY <1>3, <1>4 DEF ClearsLast

\* The client takes a call that is no put.
LEMMA ClearsAfterFetch ==
    ASSUME FlightInv, calls[Phone] \in Seq(AppCall(Post)), NEW k \in Post, ClearsLast(k),
           Unmoved(Phone), UNCHANGED server, calls[Phone] # << >>,
           calls'[Phone] = Tail(calls[Phone]), Head(calls[Phone]).call # "put"
    PROVE  ClearsLast(k)'
<1>1. ToGo(Phone) \subseteq OutstandingPuts(Phone)
  BY PutsInOrder, OnePhone
<1>2. \A B : Doomed(k, B) => Doomed(k, B)'
  BY <1>1, DoomedUnmoved
<1>3. PutsClear(k)'
  BY <1>2, PutsClearKept DEF ClearsLast, Unmoved
<1>4. Head(calls[Phone]) # DropCall(k)
  BY CallKinds
<1>5. CallsClear(k)'
  BY <1>2, <1>4, ClearsTaken DEF ClearsLast
<1> QED
  BY <1>3, <1>5 DEF ClearsLast

\* The client takes a put.
LEMMA ClearsEntered ==
    ASSUME FlightInv, calls[Phone] \in Seq(AppCall(Post)), NEW k \in Post, ClearsLast(k),
           NEW w \in Write, Entered(Phone, w), UNCHANGED server, calls[Phone] # << >>,
           calls'[Phone] = Tail(calls[Phone]), Head(calls[Phone]) = PutCall(w),
           w = SetValue(PostsPath, k) => NoClear(k)
    PROVE  ClearsLast(k)'
<1>1. /\ OutstandingPuts(Phone) \subseteq Nat /\ ToGo(Phone) \subseteq OutstandingPuts(Phone)
  BY PutsInOrder, OnePhone
<1>2. PICK n \in Nat :
        /\ \A i \in OutstandingPuts(Phone) : i < n
        /\ OutstandingPuts(Phone)' = OutstandingPuts(Phone) \cup {n}
        /\ pending'[Phone][n].write = w
        /\ \A i \in OutstandingPuts(Phone) : pending'[Phone][i].write = pending[Phone][i].write
  BY DEF Entered
<1>3. PICK q : q = calls[Phone]
  OBVIOUS
<1>4. /\ Len(q) \in Nat /\ Len(q) >= 1 /\ DOMAIN q = 1 .. Len(q) /\ DOMAIN Tail(q) = 1 .. Len(q) - 1
      /\ \A i \in 1 .. Len(q) - 1 : Tail(q)[i] = q[i + 1]
      /\ Head(q) = q[1]
  BY <1>3, TailFacts
<1>5. CASE w = SetValue(PostsPath, k)
  <2>1. w # ClearPath(CommentsPath(k))
    BY <1>5 DEF SetValue, ClearPath
  <2>2. \A i \in OutstandingPuts(Phone)' : pending'[Phone][i].write # ClearPath(CommentsPath(k))
    BY <1>2, <1>5, <2>1 DEF NoClear
  <2>3. \A i \in DOMAIN Tail(q) : Tail(q)[i] # ClearCall(k)
    BY <1>3, <1>4, <1>5 DEF NoClear
  <2>4. calls'[Phone] = Tail(q)
    BY <1>3
  <2> QED
    BY <2>2, <2>3, <2>4 DEF ClearsLast, PutsClear, CallsClear
<1>6. CASE w # SetValue(PostsPath, k)
  <2>1. \A B : Doomed(k, B) => Doomed(k, B)'
    BY <1>6, DoomedEntered
  <2>2. Head(calls[Phone]) = DropCall(k) => Doomed(k, Nat)'
    <3>1. SUFFICES ASSUME PutCall(w) = DropCall(k) PROVE Doomed(k, Nat)'
      OBVIOUS
    <3>2. w = RemoveValue(PostsPath, k)
      BY <3>1 DEF PutCall, DropCall
    <3>3. Removes(w, PostsPath, k)
      BY <3>2 DEF RemoveValue, Removes, Touches
    <3> QED
      BY <3>3, DoomedEntered
  <2>3. CallsClear(k)'
    BY <2>1, <2>2, ClearsTaken DEF ClearsLast
  <2>4. ASSUME w = ClearPath(CommentsPath(k)) PROVE Doomed(k, 0 .. n - 1)
    <3>1. q[1] = ClearCall(k) /\ 1 \in DOMAIN q
      BY <1>3, <1>4, <2>4 DEF ClearCall
    <3>2. ~Follows(q, 1, k)
      BY <1>4 DEF Follows
    <3>3. Doomed(k, Nat)
      BY <1>3, <3>1, <3>2 DEF ClearsLast, CallsClear
    <3>4. \A i \in OutstandingPuts(Phone) : i \in 0 .. n - 1
      BY <1>1, <1>2
    <3> QED
      BY <1>1, <3>3, <3>4 DEF Doomed
  <2>5. PutsClear(k)'
    <3>1. SUFFICES ASSUME NEW m \in OutstandingPuts(Phone)',
                          pending'[Phone][m].write = ClearPath(CommentsPath(k))
                   PROVE  Doomed(k, 0 .. m - 1)'
      BY DEF PutsClear
    <3>2. CASE m = n
      BY <1>2, <2>1, <2>4, <3>1, <3>2
    <3>3. CASE m # n
      <4>1. m \in OutstandingPuts(Phone) /\ pending[Phone][m].write = ClearPath(CommentsPath(k))
        BY <1>2, <3>1, <3>3
      <4>2. Doomed(k, 0 .. m - 1)
        BY <4>1 DEF ClearsLast, PutsClear
      <4> QED
        BY <2>1, <4>2
    <3> QED
      BY <3>2, <3>3
  <2> QED
    BY <2>3, <2>5 DEF ClearsLast
<1> QED
  BY <1>5, <1>6

-----------------------------------------------------------------------------
(***************************************************************************)
(* A post is made once, and no deletion of it is called before it has      *)
(* left the queue: a screen that shows it got it from the client.          *)
(***************************************************************************)

OnceMade ==
    \A k \in Post : /\ Num(calls[Phone], {MakeCall(k)}) <= 1
                    /\ Num(calls[Phone], {MakeCall(k)}) # 0 => k \in used

\* The posts that have got further than the queue.
Reached == {k \in Post : k \in used /\ Num(calls[Phone], {MakeCall(k)}) = 0}

LEMMA MadeSame ==
    ASSUME OnceMade, calls'[Phone] = calls[Phone], used \subseteq used'
    PROVE  OnceMade' /\ Reached \subseteq Reached'
BY DEF OnceMade, Reached

LEMMA MadeNone ==
    ASSUME calls'[Phone] = << >>, used \subseteq used'
    PROVE  OnceMade' /\ Reached \subseteq Reached'
<1>1. ASSUME NEW k \in Post PROVE Num(calls'[Phone], {MakeCall(k)}) = 0
  BY NumEmpty
<1> QED
  BY <1>1 DEF OnceMade, Reached

LEMMA MadeCalled ==
    ASSUME calls[Phone] \in Seq(AppCall(Post)), OnceMade, NEW cs, Called(cs)
    PROVE  OnceMade' /\ Reached \subseteq Reached'
<1>1. ASSUME NEW k \in Post
      PROVE  /\ Num(calls'[Phone], {MakeCall(k)}) <= 1
             /\ Num(calls'[Phone], {MakeCall(k)}) # 0 => k \in used'
             /\ Num(calls[Phone], {MakeCall(k)}) = 0 /\ k \in used => Num(calls'[Phone], {MakeCall(k)}) = 0
  <2>1. PICK a, b, c : /\ a = Num(calls[Phone], {MakeCall(k)}) /\ b = Num(cs, {MakeCall(k)})
                       /\ c = Num(calls'[Phone], {MakeCall(k)})
    OBVIOUS
  <2>2. c = a + b /\ a \in Nat
    BY <2>1, NumConcat, HitsFinite DEF Called
  <2>3. a <= 1 /\ (a # 0 => k \in used)
    BY <2>1 DEF OnceMade
  <2>4. b = 0 \/ (b = 1 /\ k \in used' /\ k \notin used)
    BY <2>1 DEF Called, Fresh
  <2>5. used \subseteq used'
    BY DEF Called
  <2>6. c <= 1 /\ (c # 0 => k \in used') /\ (a = 0 /\ k \in used => c = 0)
    BY ONLY <2>2, <2>3, <2>4, <2>5
  <2> QED
    BY <2>1, <2>6
<1> QED
  BY <1>1 DEF OnceMade, Reached, Called

LEMMA MadeTaken ==
    ASSUME calls[Phone] \in Seq(AppCall(Post)), calls[Phone] # << >>, OnceMade,
           calls'[Phone] = Tail(calls[Phone]), used \subseteq used'
    PROVE  /\ OnceMade' /\ Reached \subseteq Reached'
           /\ \A k \in Post : Head(calls[Phone]) = MakeCall(k) => k \in Reached' /\ k \notin Reached
<1>1. ASSUME NEW k \in Post
      PROVE  /\ Num(calls'[Phone], {MakeCall(k)}) <= 1
             /\ Num(calls'[Phone], {MakeCall(k)}) # 0 => k \in used
             /\ Num(calls[Phone], {MakeCall(k)}) = 0 => Num(calls'[Phone], {MakeCall(k)}) = 0
             /\ Head(calls[Phone]) = MakeCall(k) =>
                   /\ Num(calls[Phone], {MakeCall(k)}) # 0 /\ k \in used
                   /\ Num(calls'[Phone], {MakeCall(k)}) = 0
  <2>1. PICK a, c : /\ a = Num(calls[Phone], {MakeCall(k)})
                    /\ c = Num(calls'[Phone], {MakeCall(k)})
    OBVIOUS
  <2>2. a <= 1 /\ (a # 0 => k \in used)
    BY <2>1 DEF OnceMade
  <2>3. CASE Head(calls[Phone]) = MakeCall(k)
    <3>1. c = a - 1 /\ a \in Nat /\ c \in Nat
      BY <2>1, <2>3, NumTailIn
    <3>2. a = 1 /\ c = 0
      BY ONLY <2>2, <3>1
    <3> QED
      BY <2>1, <2>2, <3>2
  <2>4. CASE Head(calls[Phone]) # MakeCall(k)
    <3>1. c = a
      BY <2>1, <2>4, NumTailOut
    <3> QED
      BY <2>1, <2>2, <2>4, <3>1
  <2> QED
    BY <2>3, <2>4
<1> QED
  BY <1>1 DEF OnceMade, Reached

\* A queued put as the app made it.
LEMMA QueuedPut ==
    ASSUME NEW S, S \subseteq Post, NEW c \in AppCall(S), c.call = "put"
    PROVE  c = PutCall(c.write) /\ c.write \in Write
           /\ (c.write \in AppWrite(S) \/ \E k \in Post : c.write = SetValue(PostsPath, k) /\ c = MakeCall(k))
<1>1. c \in [call : {"put"}, write : AppWrite(S) \cup [op : {"set"}, path : {PostsPath}, key : Post]]
  BY DEF AppCall
<1>2. c = PutCall(c.write)
  BY <1>1 DEF PutCall
<1>3. ASSUME c.write \in [op : {"set"}, path : {PostsPath}, key : Post]
      PROVE  \E k \in Post : c.write = SetValue(PostsPath, k) /\ c = MakeCall(k)
  <2>1. PICK k \in Post : c.write = SetValue(PostsPath, k)
    BY <1>3 DEF SetValue
  <2> QED
    BY <1>2, <2>1 DEF MakeCall
<1>4. c.write \in Write
  BY AppTypes DEF CallOf
<1> QED
  BY <1>1, <1>2, <1>3, <1>4

OrderInv ==
    \E S \in SUBSET Post : /\ S = Reached /\ BoardInv(S)
                           /\ OnceMade /\ \A k \in Post : ClearsLast(k)

LEMMA QueueFacts ==
    ASSUME NEW S, Core(S)
    PROVE  calls[Phone] \in Seq(AppCall(S)) /\ calls[Phone] \in Seq(AppCall(Post)) /\ Core(Post)
<1>1. calls[Phone] \in Seq(AppCall(S)) /\ S \subseteq Post
  BY CoreFacts DEF Shape
<1>2. Core(Post)
  BY <1>1, ShapeGrows DEF Core
<1> QED
  BY <1>1, <1>2, AppGrows, SeqGrows

\* A call leaves the queue.
LEMMA TakenFacts ==
    ASSUME NEW S, Core(S), RunPut(Phone) \/ RunObserve(Phone) \/ RunRemoveObserver(Phone)
    PROVE  calls[Phone] # << >> /\ calls'[Phone] = Tail(calls[Phone])
<1>1. calls[Phone] # << >> /\ calls' = [calls EXCEPT ![Phone] = Tail(@)]
  BY DEF RunPut, RunObserve, RunRemoveObserver
<1>2. Phone \in DOMAIN calls
  BY CoreFacts DEF Domains
<1> QED
  BY <1>1, <1>2

\* What a step may take from the comments of a post.
LastOut == \A k \in Post : ~(server[CommentsPath(k)] \subseteq server'[CommentsPath(k)]) =>
                               k \notin server[PostsPath]

LEMMA ServerLoses ==
    ASSUME server \in [Path -> SUBSET Key], NEW w \in AnyWrite(Post),
           server' = [server EXCEPT ![w.path] = Applied(w, server[w.path])],
           NEW k \in Post, ~(server[CommentsPath(k)] \subseteq server'[CommentsPath(k)])
    PROVE  w = ClearPath(CommentsPath(k))
<1>1. CommentsPath(k) \in Path /\ CommentsPath(k) # PostsPath
  BY PathFacts
<1>2. w.path = CommentsPath(k)
  BY <1>1
<1>3. w.op # "set"
  BY <1>1, <1>2 DEF Applied
<1>4. w.op = "clear" /\ w.key = NoKey
  BY <1>1, <1>2, <1>3 DEF AnyWrite, AppWrite
<1>5. w = [op |-> w.op, path |-> w.path, key |-> w.key]
  BY DEF AnyWrite, AppWrite
<1> QED
  BY <1>2, <1>4, <1>5 DEF ClearPath

\* A step keeps the posts made once, and their comments until after them.
KeepsOrder ==
    /\ OnceMade' /\ used \subseteq used' /\ Reached \subseteq Reached'
    /\ LastOut /\ \A k \in Post : ClearsLast(k)'

LEMMA ClientClears ==
    ASSUME NEW S, Is(S, Reached), Core(S), OnceMade, \A k \in Post : ClearsLast(k),
           ClientStep(Phone), UNCHANGED used
    PROVE  KeepsOrder
<1>1. /\ FlightInv /\ Phone \in Device /\ CallIsOK(Phone) /\ S \subseteq Post /\ Shape(S)
      /\ calls[Phone] \in Seq(AppCall(S)) /\ calls[Phone] \in Seq(AppCall(Post))
  BY CoreFacts, QueueFacts
<1>2. CASE RunPut(Phone)
  <2>1. calls[Phone] # << >> /\ calls'[Phone] = Tail(calls[Phone]) /\ Head(calls[Phone]).call = "put"
    BY <1>2, TakenFacts DEF RunPut
  <2>2. PICK w : w = Head(calls[Phone]).write
    OBVIOUS
  <2>3. w \in Write /\ Entered(Phone, w) /\ UNCHANGED server
    BY <1>1, <1>2, <2>2, RunPutEffect
  <2>4. Head(calls[Phone]) \in AppCall(S)
    BY <1>1, <2>1
  <2>5. Head(calls[Phone]) = PutCall(w)
    BY <1>1, <2>1, <2>2, <2>4, QueuedPut
  <2>6. /\ OnceMade' /\ Reached \subseteq Reached'
        /\ \A k \in Post : Head(calls[Phone]) = MakeCall(k) => k \notin Reached
    BY <1>1, <2>1, MadeTaken
  <2>7. ASSUME NEW k \in Post PROVE ClearsLast(k)'
    <3>1. ASSUME w = SetValue(PostsPath, k) PROVE NoClear(k)
      <4>1. k \notin S
        BY <2>5, <2>6, <3>1 DEF MakeCall, Is
      <4> QED
        BY <1>1, <4>1, ClearsIn
    <3> QED
      BY <1>1, <2>1, <2>3, <2>5, <3>1, ClearsEntered
  <2> QED
    BY <2>3, <2>6, <2>7 DEF KeepsOrder, LastOut
<1>3. CASE RunObserve(Phone) \/ RunRemoveObserver(Phone)
  <2>1. calls[Phone] # << >> /\ calls'[Phone] = Tail(calls[Phone]) /\ Head(calls[Phone]).call # "put"
    BY <1>3, TakenFacts DEF RunObserve, RunRemoveObserver
  <2>2. Unmoved(Phone) /\ UNCHANGED server
    BY <1>1, <1>3, RunObserveEffect, RunRemoveObserverEffect
  <2>3. OnceMade' /\ Reached \subseteq Reached'
    BY <1>1, <2>1, MadeTaken
  <2>4. \A k \in Post : ClearsLast(k)'
    BY <1>1, <2>1, <2>2, ClearsAfterFetch
  <2> QED
    BY <2>2, <2>3, <2>4 DEF KeepsOrder, LastOut
<1>4. CASE ReceiveListened(Phone) \/ ReceiveData(Phone)
  <2>1. Unmoved(Phone) /\ UNCHANGED server /\ UNCHANGED calls
    BY <1>1, <1>4, ReceiveListenedEffect, ReceiveDataEffect DEF ReceiveListened, ReceiveData
  <2>2. OnceMade' /\ Reached \subseteq Reached'
    BY <2>1, MadeSame
  <2>3. \A k \in Post : ClearsLast(k)'
    BY <1>1, <2>1, ClearsUnmoved
  <2> QED
    BY <2>1, <2>2, <2>3 DEF KeepsOrder, LastOut
<1>5. CASE ReceiveAck(Phone)
  <2>1. Answered(Phone) /\ UNCHANGED server /\ UNCHANGED calls
    BY <1>1, <1>5, ReceiveAckEffect DEF ReceiveAck
  <2>2. OnceMade' /\ Reached \subseteq Reached'
    BY <2>1, MadeSame
  <2>3. \A k \in Post : ClearsLast(k)'
    BY <1>1, <2>1, ClearsAnswered
  <2> QED
    BY <2>1, <2>2, <2>3 DEF KeepsOrder, LastOut
<1> QED
  BY <1>2, <1>3, <1>4, <1>5 DEF ClientStep

LEMMA ServerClears ==
    ASSUME ~MayDeny, NEW S, Core(S), OnceMade, \A k \in Post : ClearsLast(k),
           ServerStep(Phone) \/ Reconnect(Phone) \/ Disconnect(Phone), UNCHANGED used
    PROVE  KeepsOrder
<1>1. FlightInv /\ Phone \in Device /\ S \subseteq Post /\ Shape(S)
  BY CoreFacts
<1>2. UNCHANGED calls
  BY DEF ServerStep, ServerListen, ServerUnlisten, ServerPut, ServerDeny, Reconnect, Disconnect,
         clientVars
<1>3. OnceMade' /\ Reached \subseteq Reached'
  BY <1>2, MadeSame
<1>4. CASE ServerListen(Phone) \/ ServerUnlisten(Phone)
  <2>1. Unmoved(Phone) /\ UNCHANGED server
    BY <1>1, <1>4, ServerListenEffect, ServerUnlistenEffect
  <2>2. \A k \in Post : ClearsLast(k)'
    BY <1>1, <1>2, <2>1, ClearsUnmoved
  <2> QED
    BY <1>3, <2>1, <2>2 DEF KeepsOrder, LastOut
<1>5. CASE Reconnect(Phone) \/ Disconnect(Phone)
  <2>1. StartsOver(Phone) /\ UNCHANGED server
    BY <1>1, <1>5, ReconnectEffect, DisconnectEffect
  <2>2. \A k \in Post : ClearsLast(k)'
    BY <1>1, <1>2, <2>1, ClearsOver
  <2> QED
    BY <1>3, <2>1, <2>2 DEF KeepsOrder, LastOut
<1>6. CASE ServerPut(Phone)
  <2>1. PICK w \in Write : /\ Handled(Phone, w)
                           /\ server' = [server EXCEPT ![w.path] = Applied(w, server[w.path])]
    BY <1>1, <1>6, ServerPutEffect
  <2>2. \A k \in Post : ClearsLast(k)'
    BY <1>1, <1>2, <2>1, ClearsHandled
  <2>3. w \in AnyWrite(Post)
    <3>1. PICK n \in ToGo(Phone) : pending[Phone][n].write = w
      BY <2>1 DEF Handled
    <3>2. n \in DOMAIN pending[Phone]
      BY <1>1, <3>1, PutsInOrder DEF OutstandingPuts
    <3>3. w \in AppWrite(S)
      BY <1>1, <3>1, <3>2 DEF Shape
    <3> QED
      BY <1>1, <3>3, AppGrows, AppTypes
  <2>4. LastOut
    <3>1. SUFFICES ASSUME NEW k \in Post, ~(server[CommentsPath(k)] \subseteq server'[CommentsPath(k)])
                   PROVE  k \notin server[PostsPath]
      BY DEF LastOut
    <3>2. w = ClearPath(CommentsPath(k))
      BY <1>1, <2>1, <2>3, <3>1, ServerLoses DEF FlightInv
    <3> QED
      BY <1>1, <2>1, <3>2, ClearedLast
  <2> QED
    BY <1>3, <2>2, <2>4 DEF KeepsOrder
<1>7. ~ServerDeny(Phone)
  BY DEF ServerDeny
<1> QED
  BY <1>4, <1>5, <1>6, <1>7 DEF ServerStep

LEMMA OthersClear ==
    ASSUME NEW S, Is(S, Reached), Core(S), AppOK(S), OnceMade, \A k \in Post : ClearsLast(k), Others
    PROVE  KeepsOrder
<1>1. /\ FlightInv /\ Phone \in Device /\ S \subseteq Post /\ Shape(S)
      /\ scope.posts \subseteq Post /\ scope.comments \subseteq Comment
      /\ PostsPath \in Path /\ Post \subseteq Key /\ server \in [Path -> SUBSET Key]
  BY CoreFacts, ScopeFacts, PathFacts DEF FlightInv
<1>2. ASSUME NEW w \in AnyWrite(Post), ServerRemote(w), used \subseteq used',
             \A k \in Post : w = SetValue(PostsPath, k) => k \notin used,
             \A k \in Post : w = ClearPath(CommentsPath(k)) => k \notin server[PostsPath]
      PROVE  KeepsOrder
  <2>1. w \in Write
    BY AppTypes
  <2>2. /\ Unmoved(Phone) /\ UNCHANGED calls
        /\ server' = [server EXCEPT ![w.path] = Applied(w, server[w.path])]
    BY <1>1, <1>2, <2>1, ServerRemoteEffect DEF ServerRemote, clientVars
  <2>3. OnceMade' /\ Reached \subseteq Reached'
    BY <1>2, <2>2, MadeSame
  <2>4. LastOut
    BY <1>1, <1>2, <2>2, ServerLoses DEF LastOut
  <2>5. ASSUME NEW k \in Post PROVE ClearsLast(k)'
    <3>1. CASE w = SetValue(PostsPath, k)
      <4>1. k \notin S
        BY <1>2, <3>1 DEF Reached, Is
      <4>2. NoClear(k)
        BY <1>1, <4>1, ClearsIn
      <4> QED
        BY <2>2, <4>2 DEF NoClear, Unmoved, ClearsLast, PutsClear, CallsClear
    <3>2. CASE w # SetValue(PostsPath, k)
      <4>1. k \in server'[PostsPath] => k \in server[PostsPath]
        BY <1>1, <2>1, <2>2, <3>2, ServerWrites
      <4> QED
        BY <1>1, <2>2, <4>1, ClearsUnmoved
    <3> QED
      BY <3>1, <3>2
  <2> QED
    BY <1>2, <2>3, <2>4, <2>5 DEF KeepsOrder
<1>3. ASSUME NEW k \in Post, RemotePost(k) PROVE KeepsOrder
  <2>1. PICK w : w = SetValue(PostsPath, k)
    OBVIOUS
  <2>2. w \in AnyWrite(Post) /\ ServerRemote(w) /\ used \subseteq used' /\ k \notin used
    BY <1>3, <2>1 DEF RemotePost, Remote, SetValue, AnyWrite, AppWrite
  <2>3. \A j \in Post : (w = SetValue(PostsPath, j) => j = k) /\ w # ClearPath(CommentsPath(j))
    BY <2>1 DEF SetValue, ClearPath
  <2> QED
    BY <1>2, <2>2, <2>3
<1>4. ASSUME NEW k \in Post, RemoteDelete(k) PROVE KeepsOrder
  <2>1. PICK w : w = RemoveValue(PostsPath, k)
    OBVIOUS
  <2>2. w \in AnyWrite(Post) /\ ServerRemote(w) /\ used \subseteq used'
    BY <1>4, <2>1 DEF RemoteDelete, Remote, RemoveValue, AnyWrite, AppWrite
  <2>3. \A j \in Post : w # SetValue(PostsPath, j) /\ w # ClearPath(CommentsPath(j))
    BY <2>1 DEF SetValue, RemoveValue, ClearPath
  <2> QED
    BY <1>2, <2>2, <2>3
<1>5. ASSUME NEW k \in Post, RemoteClear(k) PROVE KeepsOrder
  <2>1. PICK w : w = ClearPath(CommentsPath(k))
    OBVIOUS
  <2>2. w \in AnyWrite(Post) /\ ServerRemote(w) /\ used \subseteq used' /\ k \notin server[PostsPath]
    BY <1>5, <2>1, PathFacts DEF RemoteClear, Remote, ClearPath, AnyWrite
  <2>3. \A j \in Post : w # SetValue(PostsPath, j)
    BY <2>1 DEF SetValue, ClearPath
  <2>4. ASSUME NEW j \in Post, w = ClearPath(CommentsPath(j)) PROVE j = k
    <3>1. CommentsPath(j) = CommentsPath(k)
      BY <2>1, <2>4 DEF ClearPath
    <3> QED
      BY <3>1, PathFacts
  <2> QED
    BY <1>2, <2>2, <2>3, <2>4
<1>6. ASSUME NEW k \in Post, NEW c \in Comment, RemoteComment(k, c) PROVE KeepsOrder
  <2>1. PICK w : w = SetValue(CommentsPath(k), c)
    OBVIOUS
  <2>2. w \in AnyWrite(Post) /\ ServerRemote(w) /\ used \subseteq used'
    BY <1>6, <2>1, PathFacts DEF RemoteComment, Remote, SetValue, AnyWrite, AppWrite
  <2>3. \A j \in Post : w # SetValue(PostsPath, j) /\ w # ClearPath(CommentsPath(j))
    BY <2>1, PathFacts DEF SetValue, ClearPath
  <2> QED
    BY <1>2, <2>2, <2>3
<1> QED
  BY <1>1, <1>3, <1>4, <1>5, <1>6 DEF Others

LEMMA AppClears ==
    ASSUME BoardInv(Post), OnceMade, \A k \in Post : ClearsLast(k), User \/ RunMain
    PROVE  KeepsOrder
<1>1. PICK cs : Called(cs)
  BY UserCalls, MainCalls
<1>2. FlightInv /\ calls[Phone] \in Seq(AppCall(Post))
  BY CoreFacts, QueueFacts DEF BoardInv
<1>3. OnceMade' /\ Reached \subseteq Reached'
  BY <1>1, <1>2, MadeCalled
<1>4. \A k \in Post : ClearsLast(k)'
  BY <1>1, <1>2, ClearsAfterCall
<1>5. LastOut
  BY <1>1 DEF Called, LastOut
<1> QED
  BY <1>1, <1>3, <1>4, <1>5 DEF KeepsOrder, Called

\* A process that dies forgets what it was about to do.
LEMMA KillClears ==
    ASSUME NEW S, Core(S), Kill
    PROVE  KeepsOrder
<1>1. FlightInv /\ Phone \in Device /\ Phone \in DOMAIN calls
  BY CoreFacts DEF Domains
<1>2. Forgotten(Phone) /\ UNCHANGED server /\ UNCHANGED used
  BY <1>1, KilledEffect DEF Kill
<1>3. calls'[Phone] = << >>
  BY <1>1 DEF Kill, Killed
<1>4. OnceMade' /\ Reached \subseteq Reached'
  BY <1>2, <1>3, MadeNone
<1>5. \A k \in Post : ClearsLast(k)'
  BY <1>2, <1>3 DEF Forgotten, ClearsLast, PutsClear, CallsClear
<1> QED
  BY <1>2, <1>4, <1>5 DEF KeepsOrder, LastOut

LEMMA NextClears ==
    ASSUME ~MayDeny, NEW S, Is(S, Reached), BoardInv(S), S \subseteq Post, OnceMade,
           \A k \in Post : ClearsLast(k), [Next]_vars
    PROVE  KeepsOrder
<1>1. Core(S) /\ AppOK(S) /\ BoardInv(Post)
  BY BoardGrows DEF BoardInv
<1>2. CASE User \/ RunMain
  BY <1>1, <1>2, AppClears
<1>3. CASE Others
  BY <1>1, <1>3, OthersClear
<1>4. CASE Client
  BY <1>1, <1>4, ClientClears DEF Client
<1>5. CASE Server \/ Restore \/ Drop
  BY <1>1, <1>5, ServerClears DEF Server, Restore, Drop
<1>6. CASE Kill
  BY <1>1, <1>6, KillClears
<1>7. CASE UNCHANGED vars
  <2>1. UNCHANGED <<calls, pending, connected, up, server, used>>
    BY <1>7 DEF vars, dbVars, clientVars, netVars
  <2>2. Unmoved(Phone)
    BY <2>1 DEF Unmoved, OutstandingPuts, ToGo
  <2>3. OnceMade' /\ Reached \subseteq Reached'
    BY <2>1, MadeSame
  <2>4. \A k \in Post : ClearsLast(k)'
    BY <1>1, <2>1, <2>2, CoreFacts, ClearsUnmoved
  <2> QED
    BY <2>1, <2>3, <2>4 DEF KeepsOrder, LastOut
<1> QED
  BY <1>2, <1>3, <1>4, <1>5, <1>6, <1>7 DEF Next

\* What reaches the client's write tree or the server has left the queue.
LEMMA ReachedWrites ==
    ASSUME NEW S, Is(S, Reached), Core(S), OnceMade, KeepsOrder, NEW T, T \subseteq Post, Is(T, Reached')
    PROVE  WritesIn(T)
<1>1. S \subseteq T
  BY DEF KeepsOrder, Is
<1>2. calls[Phone] \in Seq(AppCall(S)) /\ calls[Phone] \in Seq(AppCall(Post)) /\ S \subseteq Post
  BY QueueFacts, CoreFacts
<1>3. ASSUME RunPut(Phone) PROVE Head(calls[Phone]).write \in AppWrite(T)
  <2>1. calls[Phone] # << >> /\ calls'[Phone] = Tail(calls[Phone]) /\ Head(calls[Phone]).call = "put"
    BY <1>3, TakenFacts DEF RunPut
  <2>2. Head(calls[Phone]) \in AppCall(S)
    BY <1>2, <2>1
  <2>3. CASE Head(calls[Phone]).write \in AppWrite(S)
    BY <1>1, <2>3, AppGrows
  <2>4. ASSUME NEW k \in Post, Head(calls[Phone]).write = SetValue(PostsPath, k),
               Head(calls[Phone]) = MakeCall(k)
        PROVE  Head(calls[Phone]).write \in AppWrite(T)
    <3>1. k \in T
      BY <1>2, <2>1, <2>4, MadeTaken DEF Is, KeepsOrder
    <3> QED
      BY <2>4, <3>1 DEF SetValue, AppWrite
  <2> QED
    BY <1>2, <2>1, <2>2, <2>3, <2>4, QueuedPut
<1>4. ASSUME NEW k \in Post, RemotePost(k) PROVE k \in T
  <2>1. k \notin used /\ k \in used' /\ UNCHANGED calls
    BY <1>4 DEF RemotePost, Remote, ServerRemote, clientVars
  <2>2. Num(calls[Phone], {MakeCall(k)}) = 0
    BY <2>1 DEF OnceMade
  <2> QED
    BY <2>1, <2>2 DEF Reached, Is
<1> QED
  BY <1>3, <1>4 DEF WritesIn

LEMMA OrderNext ==
    ASSUME ~MayDeny, OrderInv, [Next]_vars
    PROVE  OrderInv' /\ LastOut
<1>1. PICK S \in SUBSET Post : /\ S = Reached /\ BoardInv(S)
                              /\ OnceMade /\ \A k \in Post : ClearsLast(k)
  BY DEF OrderInv
<1>2. Is(S, Reached) /\ S \subseteq Post /\ Core(S)
  BY <1>1 DEF Is, BoardInv
<1>3. KeepsOrder
  BY <1>1, <1>2, NextClears
<1>4. PICK T \in SUBSET Post : T = Reached' /\ Is(T, Reached')
  BY DEF Reached, Is
<1>5. S \subseteq T /\ BoardInv(T)
  BY <1>1, <1>3, <1>4, BoardGrows DEF KeepsOrder
<1>6. WritesIn(T)
  BY <1>1, <1>2, <1>3, <1>4, ReachedWrites
<1>7. BoardInv(T)'
  BY <1>5, <1>6, NextInv
<1> QED
  BY <1>3, <1>4, <1>7 DEF OrderInv, KeepsOrder

LEMMA OrderInit ==
    ASSUME Init
    PROVE  OrderInv
<1>1. PICK S \in SUBSET scope.posts :
        DBInit([p \in Path |-> IF p = PostsPath THEN S ELSE {}]) /\ used = S
  BY DEF Init
<1>2. S \subseteq Post
  BY <1>1, ScopesAssumption DEF Init
<1>3. BoardInv(S)
  BY <1>1, <1>2, InitInv
<1>4. calls[Phone] = << >> /\ pending[Phone] = << >>
  BY <1>1, OnePhone DEF DBInit
<1>5. ASSUME NEW k \in Post PROVE Num(calls[Phone], {MakeCall(k)}) = 0 /\ ClearsLast(k)
  <2>1. OutstandingPuts(Phone) = {}
    BY <1>4 DEF OutstandingPuts
  <2> QED
    BY <1>4, <2>1, NumEmpty DEF ClearsLast, PutsClear, CallsClear
<1>6. S = Reached /\ OnceMade
  BY <1>1, <1>2, <1>5 DEF Reached, OnceMade
<1> QED
  BY <1>2, <1>3, <1>5, <1>6 DEF OrderInv

\* Comments are never taken from a post that is still there, by deletePostandItsComments or
\* anybody else, however a connection that is lost or a process that dies tears its two
\* writes apart, provided that the server refuses no write: were the removal of the post
\* refused, the comments would go all the same.
THEOREM CommentsStay ==
    ASSUME ~MayDeny
    PROVE  Spec => CommentsGoLast
<1>1. Init => OrderInv
  BY OrderInit
<1>2. OrderInv /\ [Next]_vars => OrderInv'
  BY OrderNext
<1>3. OrderInv /\ [Next]_vars =>
        [\A k \in Post : ~(server[CommentsPath(k)] \subseteq server'[CommentsPath(k)]) =>
              k \notin server[PostsPath]]_vars
  BY OrderNext DEF LastOut
<1> QED
  BY <1>1, <1>2, <1>3, PTL DEF Spec, CommentsGoLast

-----------------------------------------------------------------------------
(***************************************************************************)
(* Whose posts are deleted.                                                *)
(***************************************************************************)

\* One person's phone: every login yields the same name.
OnePerson == \A a, b \in Account : a.name = b.name

\* Every post was made under a name.
PostsAreSigned == \A k \in Post : Content[k].author # ""

PostsOf(name) == {k \in Post : Content[k].author = name}

\* The activity list, which outlives the sign-out, and what was deleted from it belong to
\* the last user; before the first login there is neither.
OwnInv ==
    /\ owner \in {""} \cup {a.name : a \in Account}
    /\ user # << >> => user[1].name = owner
    /\ usersPosts \in Seq(PostsOf(owner)) /\ deleted \subseteq PostsOf(owner)

\* A step that leaves the list, the user and the deletions alone.
LEMMA OwnKept ==
    ASSUME OwnInv, UNCHANGED <<user, owner, usersPosts, deleted>>
    PROVE  OwnInv'
BY DEF OwnInv

LEMMA OwnLogIn ==
    ASSUME OnePerson, PostsAreSigned, OwnInv, NEW a \in Account, LogIn(a)
    PROVE  OwnInv'
<1>1. /\ user' = <<a>> /\ owner' = a.name
      /\ usersPosts' = usersPosts /\ deleted' = deleted
  BY DEF LogIn, activityVars
<1>2. PostsOf(owner) \subseteq PostsOf(a.name)
  <2>1. CASE owner = ""
    BY <2>1 DEF PostsOf, PostsAreSigned
  <2>2. CASE owner # ""
    BY <2>2 DEF OwnInv, OnePerson
  <2> QED
    BY <2>1, <2>2
<1>3. usersPosts \in Seq(PostsOf(a.name))
  BY <1>2, SeqGrows DEF OwnInv
<1> QED
  BY <1>1, <1>2, <1>3 DEF OwnInv

\* The post that is deleted is the one the array has at the row that is swiped.
LEMMA OwnDeleteRow ==
    ASSUME OwnInv, NEW i, DeleteRow(i)
    PROVE  OwnInv'
<1>1. /\ i \in DOMAIN usersPosts /\ usersPosts' = RemoveAt(usersPosts, i)
      /\ deleted' = deleted \cup {usersPosts[i]} /\ owner' = owner /\ user' = user
  BY DEF DeleteRow
<1>2. PICK S : S = PostsOf(owner)
  OBVIOUS
<1>3. usersPosts \in Seq(S)
  BY <1>2 DEF OwnInv
<1>4. RemoveAt(usersPosts, i) \in Seq(S) /\ usersPosts[i] \in S
  BY ONLY <1>1, <1>3, RemovedAt
<1> QED
  BY <1>1, <1>2, <1>4 DEF OwnInv

\* A fetch for the list keeps what the user, or nobody, made.
LEMMA OwnArrived ==
    ASSUME PostsAreSigned, BoardInv(Post), OwnInv, ActivityArrived
    PROVE  OwnInv'
<1>1. PICK name : name = IF user = << >> THEN "" ELSE user[1].name
  OBVIOUS
<1>2. /\ usersPosts' \in orderPostsByDate(PostsByUser(posts', name))
      /\ user' = user /\ owner' = owner /\ deleted' = deleted
  BY <1>1 DEF ActivityArrived
<1>3. posts' \subseteq Post
  BY ActivityArrivedInv DEF BoardInv, AppOK
<1>4. PostsByUser(posts', name) \subseteq PostsOf(owner)
  <2>1. CASE user = << >>
    BY <1>1, <1>3, <2>1 DEF PostsByUser, PostsAreSigned
  <2>2. CASE user # << >>
    BY <1>1, <1>3, <2>2 DEF PostsByUser, PostsOf, OwnInv
  <2> QED
    BY <2>1, <2>2
<1>5. PostsOf(owner) \subseteq Post
  BY DEF PostsOf
<1>6. usersPosts' \in Seq(PostsOf(owner))
  BY <1>2, <1>4, <1>5, OrderedPosts
<1> QED
  BY <1>2, <1>6 DEF OwnInv

LEMMA OwnNext ==
    ASSUME OnePerson, PostsAreSigned, BoardInv(Post), OwnInv, [Next]_vars
    PROVE  OwnInv'
<1> USE DEF appVars, controllerVars, boardVars, activityVars, detailVars, historyVars
<1>1. CASE User
  <2>1. CASE SignOut
    BY <2>1 DEF SignOut, OwnInv
  <2>2. CASE \/ LogInDetached \/ SelectBoard \/ SelectActivity \/ SelectProfile
             \/ \E k \in scope.posts : PostMessageBoard(k)
    BY <2>2, OwnKept DEF LogInDetached, SelectBoard, SelectActivity, SelectProfile,
                         PostMessageBoard
  <2>3. CASE \/ \E i \in 1 .. Cardinality(Post) : OpenDetail(i)
             \/ TapStaleRow \/ CloseDetail \/ \E c \in scope.comments : PostComment(c)
    BY <2>3, OwnKept DEF OpenDetail, TapStaleRow, CloseDetail, PostComment
  <2> QED
    BY <1>1, <2>1, <2>2, <2>3, OwnLogIn, OwnDeleteRow DEF User
<1>2. CASE RunMain
  <2>1. CASE NoPostsArrived \/ BoardArrived \/ CreatedArrived
    BY <2>1, OwnKept DEF NoPostsArrived, BoardArrived, CreatedArrived
  <2>2. CASE OrderingTraps \/ CommentsArrived \/ RunReload \/ RunReloadComments
    BY <2>2, OwnKept DEF OrderingTraps, CommentsArrived, RunReload, RunReloadComments
  <2> QED
    BY <1>2, <2>1, <2>2, OwnArrived DEF RunMain
<1>3. CASE Others \/ Client \/ Server \/ Restore \/ Drop
  BY <1>3, OwnKept DEF Others, RemotePost, RemoteDelete, RemoteClear, RemoteComment, Remote,
                       Client, Server, Restore, Drop
<1>4. CASE Kill
  <2>1. user' = << >> /\ owner' = "" /\ usersPosts' = << >> /\ deleted' = {}
    BY <1>4 DEF Kill, Relaunched
  <2>2. << >> \in Seq(PostsOf(""))
    BY ShortSeq
  <2> QED
    BY <2>1, <2>2 DEF OwnInv
<1>5. CASE UNCHANGED vars
  BY <1>5, OwnKept DEF vars
<1> QED
  BY <1>1, <1>2, <1>3, <1>4, <1>5 DEF Next

\* On one person's phone nobody else's post is ever deleted: the row that is swiped may be
\* stale, fetches of several screens may overlap in the shared array, and the list stays on
\* the screen after signing out, but what it deletes is always that person's own.
THEOREM OnlyOwnAreDeleted ==
    ASSUME OnePerson, PostsAreSigned
    PROVE  Spec => []DeletedAreOwn
<1>1. Init => OwnInv
  <2> SUFFICES ASSUME Init
               PROVE  OwnInv
    OBVIOUS
  <2>1. user = << >> /\ owner = "" /\ usersPosts = << >> /\ deleted = {}
    BY DEF Init, Launched
  <2>2. << >> \in Seq(PostsOf(""))
    BY ShortSeq
  <2> QED
    BY <2>1, <2>2 DEF OwnInv
<1>2. BoardInv(Post) /\ OwnInv /\ [Next]_vars => OwnInv'
  BY OwnNext
<1>3. OwnInv => DeletedAreOwn
  BY DEF OwnInv, PostsOf, DeletedAreOwn
<1> QED
  BY <1>1, <1>2, <1>3, BoardIsSound, PTL DEF Spec
=============================================================================
