----------------------- MODULE RealtimeDatabaseProofs -----------------------
(***************************************************************************)
(* What holds of the database client's puts whatever its callers do: the   *)
(* outstanding puts of a connection are the answers on their way back      *)
(* followed by the puts on their way up, each once and in the order they   *)
(* were made, across lost connections, resends and process deaths.         *)
(*                                                                         *)
(* The first part is about one connection: the table P of puts, whether c  *)
(* it is up, and the messages u up and v down.  The second part says what  *)
(* each action of RealtimeDatabase does to the puts of a device.           *)
(***************************************************************************)
EXTENDS RealtimeDatabase, SequenceTheorems, FiniteSetTheorems, TLAPS

Entry == [write : Write, status : {"sent", "ok", "denied"}]

UpMsg == [msg : {"put"}, id : Nat, write : Write]
           \cup [msg : {"listen", "unlisten"}, path : Path]
DownMsg == [msg : {"ack"}, id : Nat, status : {"ok", "denied"}]
             \cup [msg : {"listened", "data"}, path : Path, snap : SUBSET Key]

\* Tables of puts.
IsTable(P) == DOMAIN P \subseteq Nat /\ \A i \in DOMAIN P : P[i] \in Entry

\* The puts that have had no answer, the places of the puts that are on their way up
\* and those of the answers on their way down.
Out(P) == {i \in DOMAIN P : P[i].status = "sent"}
PutsIn(u) == {i \in DOMAIN u : u[i].msg = "put"}
AcksIn(v) == {i \in DOMAIN v : v[i].msg = "ack"}

InFlight(P, c, u, v) ==
    /\ ~c => u = << >> /\ v = << >>
    /\ \A i \in AcksIn(v) : v[i].id \in Out(P)
    /\ \A i \in PutsIn(u) : u[i].id \in Out(P) /\ u[i].write = P[u[i].id].write
    /\ \A i, j \in AcksIn(v) : i < j => v[i].id < v[j].id
    /\ \A i, j \in PutsIn(u) : i < j => u[i].id < u[j].id
    /\ \A i \in AcksIn(v) : \A j \in PutsIn(u) : v[i].id < u[j].id
    /\ c => \A n \in Out(P) : \/ \E i \in AcksIn(v) : v[i].id = n
                              \/ \E i \in PutsIn(u) : u[i].id = n

\* The outstanding puts that the server has not handled since they were sent last.
Unhandled(P, c, u) == IF c THEN {u[i].id : i \in PutsIn(u)} ELSE Out(P)

-----------------------------------------------------------------------------
\* Sequences by their elements.
LEMMA TailFacts ==
    ASSUME NEW S, NEW s \in Seq(S), s # << >>
    PROVE  /\ Tail(s) \in Seq(S) /\ Len(s) \in Nat /\ Len(s) >= 1
           /\ DOMAIN s = 1 .. Len(s) /\ DOMAIN Tail(s) = 1 .. Len(s) - 1
           /\ \A i \in 1 .. Len(s) - 1 : Tail(s)[i] = s[i + 1]
           /\ Head(s) = s[1] /\ s[1] \in S
OBVIOUS

LEMMA AppendFacts ==
    ASSUME NEW S, NEW s \in Seq(S), NEW x \in S
    PROVE  /\ Append(s, x) \in Seq(S) /\ Len(s) \in Nat
           /\ DOMAIN s = 1 .. Len(s) /\ DOMAIN Append(s, x) = 1 .. Len(s) + 1
           /\ \A i \in 1 .. Len(s) : Append(s, x)[i] = s[i]
           /\ Append(s, x)[Len(s) + 1] = x
OBVIOUS

LEMMA ConcatFacts ==
    ASSUME NEW S, NEW s \in Seq(S), NEW t \in Seq(S)
    PROVE  /\ s \o t \in Seq(S) /\ Len(s) \in Nat /\ Len(t) \in Nat
           /\ DOMAIN s = 1 .. Len(s) /\ DOMAIN t = 1 .. Len(t)
           /\ DOMAIN (s \o t) = 1 .. Len(s) + Len(t)
           /\ \A i \in 1 .. Len(s) : (s \o t)[i] = s[i]
           /\ \A i \in 1 .. Len(t) : (s \o t)[Len(s) + i] = t[i]
BY ConcatProperties

-----------------------------------------------------------------------------
\* The server has handled the outstanding puts up to one number and none from there.
LEMMA FlightInOrder ==
    ASSUME NEW P, IsTable(P), NEW c \in BOOLEAN, NEW u \in Seq(UpMsg), NEW v \in Seq(DownMsg),
           InFlight(P, c, u, v)
    PROVE  /\ Out(P) \subseteq Nat /\ Unhandled(P, c, u) \subseteq Out(P)
           /\ \A i \in Out(P) \ Unhandled(P, c, u) : \A j \in Unhandled(P, c, u) : i < j
BY DEF IsTable, Out, Unhandled, InFlight

LEMMA UnhandledIs ==
    \A P, u, n : n \in Unhandled(P, TRUE, u) <=> \E i \in PutsIn(u) : u[i].id = n
BY DEF Unhandled

\* The puts, or answers, of w are those of u, k places further on there.
SamePuts(w, u, k) ==
    /\ \A i \in PutsIn(w) : i \in Int /\ i + k \in PutsIn(u) /\ w[i] = u[i + k]
    /\ \A i \in PutsIn(u) : i \in Int /\ i - k \in PutsIn(w) /\ u[i] = w[i - k]
SameAcks(w, v, k) ==
    /\ \A i \in AcksIn(w) : i \in Int /\ i + k \in AcksIn(v) /\ w[i] = v[i + k]
    /\ \A i \in AcksIn(v) : i \in Int /\ i - k \in AcksIn(w) /\ v[i] = w[i - k]

\* The puts under way, k places further on.
LEMMA PutsMoved ==
    ASSUME NEW P, NEW u, NEW v, InFlight(P, TRUE, u, v), NEW w, NEW k \in Int,
           SamePuts(w, u, k)
    PROVE  InFlight(P, TRUE, w, v) /\ Unhandled(P, TRUE, w) = Unhandled(P, TRUE, u)
<1>1. \A i, j \in PutsIn(w) : i < j => w[i].id < w[j].id
  <2>1. SUFFICES ASSUME NEW i \in PutsIn(w), NEW j \in PutsIn(w), i < j
                 PROVE  w[i].id < w[j].id
    OBVIOUS
  <2>2. i + k \in PutsIn(u) /\ j + k \in PutsIn(u) /\ i + k < j + k
    BY <2>1 DEF SamePuts
  <2>3. w[i] = u[i + k] /\ w[j] = u[j + k]
    BY DEF SamePuts
  <2> QED
    BY <2>2, <2>3 DEF InFlight
<1>2. \A i \in PutsIn(w) : w[i].id \in Out(P) /\ w[i].write = P[w[i].id].write
  BY DEF InFlight, SamePuts
<1>3. \A i \in AcksIn(v) : \A j \in PutsIn(w) : v[i].id < w[j].id
  BY DEF InFlight, SamePuts
<1>4. \A n : (\E i \in PutsIn(u) : u[i].id = n) <=> (\E i \in PutsIn(w) : w[i].id = n)
  BY DEF SamePuts
<1>5. Unhandled(P, TRUE, w) = Unhandled(P, TRUE, u)
  BY <1>4 DEF Unhandled
<1> QED
  BY <1>1, <1>2, <1>3, <1>4, <1>5 DEF InFlight

\* The answers under way, k places further on.
LEMMA AcksMoved ==
    ASSUME NEW P, NEW u, NEW v, InFlight(P, TRUE, u, v), NEW w, NEW k \in Int,
           SameAcks(w, v, k)
    PROVE  InFlight(P, TRUE, u, w)
<1>1. \A i, j \in AcksIn(w) : i < j => w[i].id < w[j].id
  <2>1. SUFFICES ASSUME NEW i \in AcksIn(w), NEW j \in AcksIn(w), i < j
                 PROVE  w[i].id < w[j].id
    OBVIOUS
  <2>2. i + k \in AcksIn(v) /\ j + k \in AcksIn(v) /\ i + k < j + k
    BY <2>1 DEF SameAcks
  <2>3. w[i] = v[i + k] /\ w[j] = v[j + k]
    BY DEF SameAcks
  <2> QED
    BY <2>2, <2>3 DEF InFlight
<1>2. \A i \in AcksIn(w) : w[i].id \in Out(P)
  BY DEF InFlight, SameAcks
<1>3. \A i \in AcksIn(w) : \A j \in PutsIn(u) : w[i].id < u[j].id
  BY DEF InFlight, SameAcks
<1>4. \A n : (\E i \in AcksIn(v) : v[i].id = n) <=> (\E i \in AcksIn(w) : w[i].id = n)
  BY DEF SameAcks
<1> QED
  BY <1>1, <1>2, <1>3, <1>4 DEF InFlight

\* Messages up that are no puts.
LEMMA AddOther ==
    ASSUME NEW P, NEW u \in Seq(UpMsg), NEW v \in Seq(DownMsg), InFlight(P, TRUE, u, v),
           NEW m \in UpMsg, m.msg # "put"
    PROVE  /\ Append(u, m) \in Seq(UpMsg)
           /\ InFlight(P, TRUE, Append(u, m), v)
           /\ Unhandled(P, TRUE, Append(u, m)) = Unhandled(P, TRUE, u)
<1>1. /\ Append(u, m) \in Seq(UpMsg) /\ Len(u) \in Nat
      /\ DOMAIN u = 1 .. Len(u) /\ DOMAIN Append(u, m) = 1 .. Len(u) + 1
      /\ \A i \in 1 .. Len(u) : Append(u, m)[i] = u[i]
      /\ Append(u, m)[Len(u) + 1] = m
  BY AppendFacts
<1>2. SamePuts(Append(u, m), u, 0)
  BY <1>1 DEF PutsIn, SamePuts
<1>3. 0 \in Int /\ 1 \in Int
  OBVIOUS
<1> QED
  BY <1>1, <1>2, <1>3, PutsMoved, Zenon

LEMMA DropOther ==
    ASSUME NEW P, NEW u \in Seq(UpMsg), NEW v \in Seq(DownMsg), InFlight(P, TRUE, u, v),
           u # << >>, Head(u).msg # "put"
    PROVE  /\ Tail(u) \in Seq(UpMsg)
           /\ InFlight(P, TRUE, Tail(u), v)
           /\ Unhandled(P, TRUE, Tail(u)) = Unhandled(P, TRUE, u)
<1>1. /\ Tail(u) \in Seq(UpMsg) /\ Len(u) \in Nat
      /\ DOMAIN u = 1 .. Len(u) /\ DOMAIN Tail(u) = 1 .. Len(u) - 1
      /\ \A i \in 1 .. Len(u) - 1 : Tail(u)[i] = u[i + 1]
      /\ Head(u) = u[1]
  BY TailFacts
<1>2. SamePuts(Tail(u), u, 1)
  BY <1>1 DEF PutsIn, SamePuts
<1>3. 0 \in Int /\ 1 \in Int
  OBVIOUS
<1> QED
  BY <1>1, <1>2, <1>3, PutsMoved, Zenon

\* Messages down that are no answers to puts.
LEMMA DropData ==
    ASSUME NEW P, NEW u \in Seq(UpMsg), NEW v \in Seq(DownMsg), InFlight(P, TRUE, u, v),
           v # << >>, Head(v).msg # "ack"
    PROVE  Tail(v) \in Seq(DownMsg) /\ InFlight(P, TRUE, u, Tail(v))
<1>1. /\ Tail(v) \in Seq(DownMsg) /\ Len(v) \in Nat
      /\ DOMAIN v = 1 .. Len(v) /\ DOMAIN Tail(v) = 1 .. Len(v) - 1
      /\ \A i \in 1 .. Len(v) - 1 : Tail(v)[i] = v[i + 1]
      /\ Head(v) = v[1]
  BY TailFacts
<1>2. SameAcks(Tail(v), v, 1)
  BY <1>1 DEF AcksIn, SameAcks
<1>3. 1 \in Int
  OBVIOUS
<1> QED
  BY <1>1, <1>2, <1>3, AcksMoved, Zenon

LEMMA AddData ==
    ASSUME NEW P, NEW u \in Seq(UpMsg), NEW v \in Seq(DownMsg), InFlight(P, TRUE, u, v),
           NEW x \in Seq(DownMsg), AcksIn(x) = {}
    PROVE  v \o x \in Seq(DownMsg) /\ InFlight(P, TRUE, u, v \o x)
<1>1. /\ v \o x \in Seq(DownMsg) /\ Len(v) \in Nat /\ Len(x) \in Nat
      /\ DOMAIN v = 1 .. Len(v) /\ DOMAIN x = 1 .. Len(x)
      /\ DOMAIN (v \o x) = 1 .. Len(v) + Len(x)
      /\ \A i \in 1 .. Len(v) : (v \o x)[i] = v[i]
      /\ \A i \in 1 .. Len(x) : (v \o x)[Len(v) + i] = x[i]
  BY ConcatFacts
<1>2. ASSUME NEW i \in 1 .. Len(v) + Len(x), i > Len(v)
      PROVE  (v \o x)[i].msg # "ack"
  <2>1. i - Len(v) \in 1 .. Len(x) /\ Len(v) + (i - Len(v)) = i
    BY <1>1, <1>2
  <2>2. (v \o x)[i] = x[i - Len(v)]
    BY <1>1, <2>1
  <2> QED
    BY <1>1, <2>1, <2>2 DEF AcksIn
<1>3. /\ AcksIn(v \o x) = AcksIn(v)
      /\ \A i \in AcksIn(v) : (v \o x)[i] = v[i]
  BY <1>1, <1>2 DEF AcksIn
<1> QED
  BY <1>1, <1>3 DEF InFlight

-----------------------------------------------------------------------------
\* Equality, for names of terms that a proof need not look into.
Is(a, b) == a = b

\* A put is made.
Puts(P, c, u, v, n, w, Q, x) ==
    /\ IsTable(P) /\ c \in BOOLEAN /\ u \in Seq(UpMsg) /\ v \in Seq(DownMsg)
    /\ InFlight(P, c, u, v)
    /\ n \in Nat /\ (\A i \in DOMAIN P : i < n) /\ w \in Write
    /\ Q = WithPut(P, n, w)
    /\ x = IF c THEN Append(u, PutMsg(n, w)) ELSE u

LEMMA AddPut ==
    ASSUME NEW P, NEW c, NEW u, NEW v, NEW n, NEW w, NEW Q, NEW x, Puts(P, c, u, v, n, w, Q, x)
    PROVE  /\ IsTable(Q) /\ x \in Seq(UpMsg)
           /\ InFlight(Q, c, x, v)
           /\ Out(Q) = Out(P) \cup {n}
           /\ Unhandled(Q, c, x) = Unhandled(P, c, u) \cup {n}
           /\ Q[n].write = w
           /\ \A i \in Out(P) : i < n /\ Q[i] = P[i]
<1>0. /\ IsTable(P) /\ c \in BOOLEAN /\ u \in Seq(UpMsg) /\ v \in Seq(DownMsg)
      /\ InFlight(P, c, u, v) /\ n \in Nat /\ w \in Write
  BY DEF Puts
<1>1. /\ DOMAIN Q = DOMAIN P \cup {n} /\ n \notin DOMAIN P
      /\ Q[n] = [write |-> w, status |-> "sent"]
      /\ \A i \in DOMAIN P : Q[i] = P[i]
  BY DEF Puts, WithPut, IsTable
<1>2. /\ Q[n] \in Entry /\ Q[n].write = w /\ Q[n].status = "sent"
  BY <1>0, <1>1 DEF Entry
<1>3. IsTable(Q)
  BY <1>0, <1>1, <1>2 DEF IsTable
<1>4. /\ \A i : i \in Out(Q) <=> i \in Out(P) \/ i = n
      /\ Out(Q) = Out(P) \cup {n} /\ Out(P) \subseteq DOMAIN P /\ n \notin Out(P)
  BY <1>0, <1>1, <1>2 DEF Out
<1>5. \A i \in Out(P) : i < n /\ Q[i] = P[i]
  BY <1>0, <1>1, <1>4 DEF Puts
<1>6. CASE ~c
  <2>1. x = u /\ u = << >> /\ v = << >>
    BY <1>0, <1>6 DEF InFlight, Puts
  <2>2. AcksIn(v) = {} /\ PutsIn(x) = {}
    BY <1>0, <2>1 DEF AcksIn, PutsIn
  <2>3. InFlight(Q, c, x, v)
    BY <1>0, <2>1, <2>2, <1>6 DEF InFlight
  <2> QED
    BY <1>0, <2>1, <2>3, <1>2, <1>3, <1>4, <1>5, <1>6 DEF Unhandled
<1>7. CASE c
  <2>1. x = Append(u, PutMsg(n, w))
    BY <1>0, <1>7 DEF Puts
  <2>2. PutMsg(n, w) \in UpMsg /\ PutMsg(n, w).msg = "put" /\ PutMsg(n, w).id = n
        /\ PutMsg(n, w).write = w
    BY <1>0 DEF PutMsg, UpMsg
  <2>3. /\ x \in Seq(UpMsg) /\ Len(u) \in Nat
        /\ DOMAIN u = 1 .. Len(u) /\ DOMAIN x = 1 .. Len(u) + 1
        /\ \A i \in 1 .. Len(u) : x[i] = u[i]
        /\ x[Len(u) + 1] = PutMsg(n, w)
    BY <1>0, <2>1, <2>2, AppendFacts
  <2>4. PICK m : m = Len(u) + 1
    OBVIOUS
  <2>5. /\ \A i : i \in PutsIn(x) <=> i \in PutsIn(u) \/ i = m
        /\ x[m].id = n /\ x[m].write = w
        /\ \A i \in PutsIn(u) : i < m /\ x[i] = u[i] /\ i \in Int
        /\ m \in Int
    BY <1>0, <2>2, <2>3, <2>4 DEF PutsIn
  <2>6. \A i \in PutsIn(x) : x[i].id \in Out(Q) /\ x[i].write = Q[x[i].id].write
    <3>1. \A i \in PutsIn(u) : /\ u[i].id \in Out(P) /\ u[i].write = P[u[i].id].write
                              /\ Q[u[i].id] = P[u[i].id]
      BY <1>0, <1>5 DEF InFlight
    <3> QED
      BY <1>0, <3>1, <2>5, <1>2, <1>4
  <2>7. \A i \in AcksIn(v) : v[i].id \in Out(Q)
    BY <1>0, <1>4 DEF InFlight
  <2>8. \A i, j \in PutsIn(x) : i < j => x[i].id < x[j].id
    <3>1. \A i \in PutsIn(u) : u[i].id < n
      BY <1>0, <1>5 DEF InFlight
    <3>2. SUFFICES ASSUME NEW i \in PutsIn(x), NEW j \in PutsIn(x), i < j
                   PROVE  x[i].id < x[j].id
      OBVIOUS
    <3>3. i \in PutsIn(u) /\ x[i] = u[i]
      BY <1>0, <3>2, <2>5
    <3>4. CASE j = m
      BY <1>0, <3>1, <3>3, <3>4, <2>5
    <3>5. CASE j \in PutsIn(u)
      BY <1>0, <3>2, <3>3, <3>5, <2>5 DEF InFlight
    <3> QED
      BY <1>0, <3>4, <3>5, <2>5
  <2>9. \A i \in AcksIn(v) : \A j \in PutsIn(x) : v[i].id < x[j].id
    BY <1>0, <2>5, <1>5 DEF InFlight
  <2>10. \A k \in Out(Q) : \/ \E i \in AcksIn(v) : v[i].id = k
                           \/ \E i \in PutsIn(x) : x[i].id = k
    BY <1>0, <2>5, <1>4, <1>7 DEF InFlight
  <2>11. InFlight(Q, c, x, v)
    BY <1>0, <2>6, <2>7, <2>8, <2>9, <2>10, <1>7 DEF InFlight
  <2>12. Unhandled(Q, c, x) = Unhandled(P, c, u) \cup {n}
    <3>1. \A k : (\E i \in PutsIn(x) : x[i].id = k) <=> (k = n \/ \E i \in PutsIn(u) : u[i].id = k)
      BY <1>0, <2>5
    <3> QED
      BY <1>0, <3>1, <1>7, UnhandledIs
  <2> QED
    BY <1>0, <2>3, <2>11, <2>12, <1>2, <1>3, <1>4, <1>5
<1> QED
  BY <1>0, <1>6, <1>7

\* The server handles the put at the head and answers it.
Serves(P, u, v, n, w, s, x, y) ==
    /\ IsTable(P) /\ u \in Seq(UpMsg) /\ v \in Seq(DownMsg)
    /\ InFlight(P, TRUE, u, v) /\ u # << >> /\ Head(u).msg = "put"
    /\ Is(n, Head(u).id) /\ s \in {"ok", "denied"}
    /\ Is(x, Append(v, AckMsg(n, s))) /\ Is(y, Tail(u)) /\ Is(w, Head(u).write)

Served(P, u, n, w, x, y) ==
    /\ y \in Seq(UpMsg) /\ x \in Seq(DownMsg)
    /\ InFlight(P, TRUE, y, x)
    /\ n \in Unhandled(P, TRUE, u) /\ \A i \in Unhandled(P, TRUE, u) : n <= i
    /\ P[n].write = w
    /\ Unhandled(P, TRUE, y) = Unhandled(P, TRUE, u) \ {n}

LEMMA ServePut ==
    ASSUME NEW P, NEW u, NEW v, NEW n, NEW w, NEW s, NEW x, NEW y,
           Serves(P, u, v, n, w, s, x, y)
    PROVE  Served(P, u, n, w, x, y)
<1>0. /\ IsTable(P) /\ u \in Seq(UpMsg) /\ v \in Seq(DownMsg)
      /\ InFlight(P, TRUE, u, v) /\ u # << >> /\ Head(u).msg = "put"
      /\ Is(n, Head(u).id) /\ s \in {"ok", "denied"}
      /\ Is(x, Append(v, AckMsg(n, s)))
  BY DEF Serves
<1> USE <1>0
<1>1. /\ Tail(u) \in Seq(UpMsg) /\ Len(u) \in Nat /\ Len(u) >= 1
      /\ DOMAIN u = 1 .. Len(u) /\ DOMAIN Tail(u) = 1 .. Len(u) - 1
      /\ \A i \in 1 .. Len(u) - 1 : Tail(u)[i] = u[i + 1]
      /\ Head(u) = u[1] /\ u[1] \in UpMsg
  BY TailFacts
<1>2. 1 \in PutsIn(u) /\ u[1].id = n /\ n \in Out(P) /\ u[1].write = P[n].write
  BY <1>1 DEF PutsIn, InFlight, Is
<1>3. n \in Nat /\ Head(u).write \in Write
  BY <1>1, <1>2 DEF UpMsg
<1>4. AckMsg(n, s) \in DownMsg /\ AckMsg(n, s).msg = "ack" /\ AckMsg(n, s).id = n
  BY <1>3 DEF AckMsg, DownMsg
<1>5. /\ x \in Seq(DownMsg) /\ Len(v) \in Nat
      /\ DOMAIN v = 1 .. Len(v) /\ DOMAIN x = 1 .. Len(v) + 1
      /\ \A i \in 1 .. Len(v) : x[i] = v[i]
      /\ x[Len(v) + 1] = AckMsg(n, s)
  BY <1>4, AppendFacts DEF Is
<1>6. PICK m : m = Len(v) + 1
  OBVIOUS
<1>7. /\ \A i : i \in AcksIn(x) <=> i \in AcksIn(v) \/ i = m
      /\ x[m].id = n
      /\ \A i \in AcksIn(v) : i < m /\ x[i] = v[i] /\ i \in Int
      /\ m \in Int
  BY <1>4, <1>5, <1>6 DEF AcksIn
<1>8. /\ \A i \in PutsIn(Tail(u)) : i \in Int /\ 1 < i + 1 /\ i + 1 \in PutsIn(u) /\ Tail(u)[i] = u[i + 1]
      /\ \A i \in PutsIn(u) : i \in Int /\ (i # 1 => 1 < i /\ i - 1 \in PutsIn(Tail(u)) /\ u[i] = Tail(u)[i - 1])
  BY <1>1 DEF PutsIn
<1>9. /\ \A i \in PutsIn(u) : i # 1 => n < u[i].id
      /\ \A i \in PutsIn(Tail(u)) : n < Tail(u)[i].id
  BY <1>2, <1>8 DEF InFlight
<1>10. \A i \in PutsIn(Tail(u)) : /\ Tail(u)[i].id \in Out(P)
                                  /\ Tail(u)[i].write = P[Tail(u)[i].id].write
  <2>1. SUFFICES ASSUME NEW i \in PutsIn(Tail(u))
                 PROVE  /\ Tail(u)[i].id \in Out(P)
                        /\ Tail(u)[i].write = P[Tail(u)[i].id].write
    OBVIOUS
  <2>2. i + 1 \in PutsIn(u) /\ Tail(u)[i] = u[i + 1]
    BY <1>8
  <2> QED
    BY <2>2 DEF InFlight
<1>11. \A i \in AcksIn(x) : x[i].id \in Out(P)
  BY <1>2, <1>7 DEF InFlight
<1>12. \A i, j \in AcksIn(x) : i < j => x[i].id < x[j].id
  <2>1. \A i \in AcksIn(v) : v[i].id < n
    BY <1>2 DEF InFlight
  <2>2. SUFFICES ASSUME NEW i \in AcksIn(x), NEW j \in AcksIn(x), i < j
                 PROVE  x[i].id < x[j].id
    OBVIOUS
  <2>3. i \in AcksIn(v) /\ x[i] = v[i]
    BY <2>2, <1>7
  <2>4. CASE j = m
    BY <2>1, <2>3, <2>4, <1>7
  <2>5. CASE j \in AcksIn(v)
    BY <2>2, <2>3, <2>5, <1>7 DEF InFlight
  <2> QED
    BY <2>4, <2>5, <1>7
<1>13. \A i, j \in PutsIn(Tail(u)) : i < j => Tail(u)[i].id < Tail(u)[j].id
  <2>1. SUFFICES ASSUME NEW i \in PutsIn(Tail(u)), NEW j \in PutsIn(Tail(u)), i < j
                 PROVE  Tail(u)[i].id < Tail(u)[j].id
    OBVIOUS
  <2>2. i + 1 \in PutsIn(u) /\ j + 1 \in PutsIn(u) /\ i + 1 < j + 1
    BY <2>1, <1>8
  <2>3. Tail(u)[i] = u[i + 1] /\ Tail(u)[j] = u[j + 1]
    BY <1>8
  <2> QED
    BY <2>2, <2>3 DEF InFlight
<1>14. \A i \in AcksIn(x) : \A j \in PutsIn(Tail(u)) : x[i].id < Tail(u)[j].id
  <2>1. SUFFICES ASSUME NEW i \in AcksIn(x), NEW j \in PutsIn(Tail(u))
                 PROVE  x[i].id < Tail(u)[j].id
    OBVIOUS
  <2>2. CASE i = m
    BY <2>2, <1>7, <1>9
  <2>3. CASE i \in AcksIn(v)
    <3>1. j + 1 \in PutsIn(u) /\ Tail(u)[j] = u[j + 1] /\ x[i] = v[i]
      BY <2>3, <1>7, <1>8
    <3> QED
      BY <2>3, <3>1 DEF InFlight
  <2> QED
    BY <2>2, <2>3, <1>7
<1>15. \A k \in Out(P) : \/ \E i \in AcksIn(x) : x[i].id = k
                         \/ \E i \in PutsIn(Tail(u)) : Tail(u)[i].id = k
  <2>1. SUFFICES ASSUME NEW k \in Out(P), k # n
                 PROVE  \/ \E i \in AcksIn(x) : x[i].id = k
                        \/ \E i \in PutsIn(Tail(u)) : Tail(u)[i].id = k
    BY <1>7
  <2>2. CASE \E i \in AcksIn(v) : v[i].id = k
    BY <2>2, <1>7
  <2>3. CASE \E i \in PutsIn(u) : u[i].id = k
    <3>1. PICK i \in PutsIn(u) : u[i].id = k
      BY <2>3
    <3>2. i - 1 \in PutsIn(Tail(u)) /\ Tail(u)[i - 1].id = k
      BY <2>1, <3>1, <1>2, <1>8
    <3> QED
      BY <3>2
  <2> QED
    BY <2>2, <2>3 DEF InFlight
<1>16. InFlight(P, TRUE, Tail(u), x)
  BY <1>10, <1>11, <1>12, <1>13, <1>14, <1>15 DEF InFlight
<1>17. n \in Unhandled(P, TRUE, u) /\ \A i \in Unhandled(P, TRUE, u) : n <= i
  <2>1. \A i \in PutsIn(u) : u[i].id \in Nat
    BY <1>9, <1>2, <1>3 DEF InFlight, IsTable, Out
  <2>2. \A i \in PutsIn(u) : n <= u[i].id
    BY <2>1, <1>2, <1>3, <1>9
  <2>3. \A k : k \in Unhandled(P, TRUE, u) <=> \E i \in PutsIn(u) : u[i].id = k
    BY DEF Unhandled
  <2> QED
    BY <2>2, <2>3, <1>2
<1>18. Unhandled(P, TRUE, Tail(u)) = Unhandled(P, TRUE, u) \ {n}
  <2>1. \A k : (\E i \in PutsIn(Tail(u)) : Tail(u)[i].id = k)
                 <=> (k # n /\ \E i \in PutsIn(u) : u[i].id = k)
    <3>1. ASSUME NEW i \in PutsIn(Tail(u))
          PROVE  Tail(u)[i].id # n /\ \E j \in PutsIn(u) : u[j].id = Tail(u)[i].id
      <4>1. i + 1 \in PutsIn(u) /\ i + 1 # 1 /\ Tail(u)[i] = u[i + 1]
        <5>1. i \in Int /\ 1 < i + 1 /\ i + 1 \in PutsIn(u) /\ Tail(u)[i] = u[i + 1]
          BY <1>8
        <5>2. i + 1 # 1
          BY ONLY <5>1
        <5> QED
          BY <5>1, <5>2
      <4>2. \A j \in PutsIn(u) : j # 1 => u[j].id # n
        BY <1>3, <1>9 DEF InFlight, IsTable, Out
      <4> QED
        BY ONLY <4>1, <4>2, Zenon
    <3>2. ASSUME NEW i \in PutsIn(u), u[i].id # n
          PROVE  \E j \in PutsIn(Tail(u)) : Tail(u)[j].id = u[i].id
      BY <3>2, <1>2, <1>8
    <3> QED
      BY ONLY <3>1, <3>2, ZenonT(60)
  <2>2. /\ \A k : k \in Unhandled(P, TRUE, u) <=> \E i \in PutsIn(u) : u[i].id = k
        /\ \A k : k \in Unhandled(P, TRUE, Tail(u)) <=> \E i \in PutsIn(Tail(u)) : Tail(u)[i].id = k
    BY DEF Unhandled
  <2> QED
    BY ONLY <2>1, <2>2, Zenon
<1>19. y = Tail(u) /\ w = Head(u).write
  BY DEF Serves, Is
<1> QED
  BY <1>1, <1>2, <1>5, <1>16, <1>17, <1>18, <1>19 DEF Served

\* The client takes the answer at the head: that put is outstanding no more.
Takes(P, u, v, n, Q, y) ==
    /\ IsTable(P) /\ u \in Seq(UpMsg) /\ v \in Seq(DownMsg)
    /\ InFlight(P, TRUE, u, v) /\ v # << >> /\ Head(v).msg = "ack"
    /\ Is(n, Head(v).id)
    /\ \A i : i \in Out(Q) <=> i \in Out(P) /\ i # n
    /\ \A i \in Out(Q) : Q[i].write = P[i].write
    /\ Is(y, Tail(v))

LEMMA TakeAck ==
    ASSUME NEW P, NEW u, NEW v, NEW n, NEW Q, NEW y, Takes(P, u, v, n, Q, y)
    PROVE  /\ y \in Seq(DownMsg)
           /\ InFlight(Q, TRUE, u, y)
           /\ n \in Out(P) /\ \A i \in Unhandled(P, TRUE, u) : i # n
           /\ \A i \in Out(P) : n <= i
           /\ Unhandled(Q, TRUE, u) = Unhandled(P, TRUE, u)
<1>0. /\ IsTable(P) /\ u \in Seq(UpMsg) /\ v \in Seq(DownMsg)
      /\ InFlight(P, TRUE, u, v) /\ v # << >> /\ Head(v).msg = "ack"
      /\ Is(n, Head(v).id)
      /\ \A i : i \in Out(Q) <=> i \in Out(P) /\ i # n
      /\ \A i \in Out(Q) : Q[i].write = P[i].write
  BY DEF Takes
<1> USE <1>0
<1>1. /\ Tail(v) \in Seq(DownMsg) /\ Len(v) \in Nat /\ Len(v) >= 1
      /\ DOMAIN v = 1 .. Len(v) /\ DOMAIN Tail(v) = 1 .. Len(v) - 1
      /\ \A i \in 1 .. Len(v) - 1 : Tail(v)[i] = v[i + 1]
      /\ Head(v) = v[1]
  BY TailFacts
<1>2. 1 \in AcksIn(v) /\ v[1].id = n /\ n \in Out(P)
  BY <1>1 DEF AcksIn, InFlight, Is
<1>3. /\ \A i \in AcksIn(Tail(v)) : i \in Int /\ 1 < i + 1 /\ i + 1 \in AcksIn(v) /\ Tail(v)[i] = v[i + 1]
      /\ \A i \in AcksIn(v) : i \in Int /\ (i # 1 => 1 < i /\ i - 1 \in AcksIn(Tail(v)) /\ v[i] = Tail(v)[i - 1])
  BY <1>1 DEF AcksIn
<1>4. Out(P) \subseteq Nat
  BY DEF IsTable, Out
<1>5. \A i \in AcksIn(v) : i # 1 => v[i].id \in Out(P) /\ n < v[i].id /\ v[i].id # n
  <2>1. \A i \in AcksIn(v) : i # 1 => v[i].id \in Out(P) /\ n < v[i].id
    BY <1>2, <1>3 DEF InFlight
  <2> QED
    BY <2>1, <1>2, <1>4
<1>6. \A j \in PutsIn(u) : u[j].id \in Out(P) /\ n < u[j].id /\ u[j].id # n
  <2>1. \A j \in PutsIn(u) : u[j].id \in Out(P) /\ n < u[j].id
    BY <1>2 DEF InFlight
  <2> QED
    BY <2>1, <1>2, <1>4
<1>7. \A i \in AcksIn(Tail(v)) : \E j \in AcksIn(v) : j # 1 /\ Tail(v)[i] = v[j]
  <2>1. SUFFICES ASSUME NEW i \in AcksIn(Tail(v))
                 PROVE  \E j \in AcksIn(v) : j # 1 /\ Tail(v)[i] = v[j]
    OBVIOUS
  <2>2. i \in Int /\ 1 < i + 1 /\ i + 1 \in AcksIn(v) /\ Tail(v)[i] = v[i + 1]
    BY <1>3
  <2>3. i + 1 # 1
    BY ONLY <2>2
  <2> QED
    BY <2>2, <2>3
<1>8. \A i \in AcksIn(Tail(v)) : Tail(v)[i].id \in Out(Q)
  BY <1>5, <1>7
<1>9. \A i \in PutsIn(u) : u[i].id \in Out(Q) /\ u[i].write = Q[u[i].id].write
  BY <1>6 DEF InFlight
<1>10. \A i, j \in AcksIn(Tail(v)) : i < j => Tail(v)[i].id < Tail(v)[j].id
  <2>1. SUFFICES ASSUME NEW i \in AcksIn(Tail(v)), NEW j \in AcksIn(Tail(v)), i < j
                 PROVE  Tail(v)[i].id < Tail(v)[j].id
    OBVIOUS
  <2>2. i + 1 \in AcksIn(v) /\ j + 1 \in AcksIn(v) /\ i + 1 < j + 1
    BY <2>1, <1>3
  <2>3. Tail(v)[i] = v[i + 1] /\ Tail(v)[j] = v[j + 1]
    BY <1>3
  <2> QED
    BY <2>2, <2>3 DEF InFlight
<1>11. \A i \in AcksIn(Tail(v)) : \A j \in PutsIn(u) : Tail(v)[i].id < u[j].id
  BY <1>7 DEF InFlight
<1>12. \A k \in Out(Q) : \/ \E i \in AcksIn(Tail(v)) : Tail(v)[i].id = k
                         \/ \E i \in PutsIn(u) : u[i].id = k
  <2>1. SUFFICES ASSUME NEW k \in Out(Q), NEW i \in AcksIn(v), v[i].id = k
                 PROVE  \E j \in AcksIn(Tail(v)) : Tail(v)[j].id = k
    BY DEF InFlight
  <2>2. i # 1
    BY <2>1, <1>2
  <2>3. i - 1 \in AcksIn(Tail(v)) /\ v[i] = Tail(v)[i - 1]
    BY <2>2, <1>3
  <2> QED
    BY <2>1, <2>3
<1>13. InFlight(Q, TRUE, u, Tail(v))
  BY <1>8, <1>9, <1>10, <1>11, <1>12 DEF InFlight
<1>14. \A i \in Out(P) : n <= i
  <2>1. SUFFICES ASSUME NEW k \in Out(P), k # n
                 PROVE  n < k
    BY <1>2, <1>4
  <2>2. CASE \E i \in AcksIn(v) : v[i].id = k
    BY <2>1, <2>2, <1>2, <1>5
  <2>3. CASE \E i \in PutsIn(u) : u[i].id = k
    BY <2>3, <1>6
  <2> QED
    BY <2>2, <2>3 DEF InFlight
<1>15. n \notin Unhandled(P, TRUE, u) /\ Unhandled(Q, TRUE, u) = Unhandled(P, TRUE, u)
  BY <1>6 DEF Unhandled
<1>16. y = Tail(v)
  BY DEF Takes, Is
<1> QED
  BY <1>1, <1>2, <1>13, <1>14, <1>15, <1>16

\* Tables with the same outstanding puts.
LEMMA SameOut ==
    ASSUME NEW P, NEW c \in BOOLEAN, NEW u, NEW v, InFlight(P, c, u, v), NEW Q,
           Out(Q) = Out(P), \A i \in Out(P) : Q[i].write = P[i].write
    PROVE  InFlight(Q, c, u, v) /\ Unhandled(Q, c, u) = Unhandled(P, c, u)
BY DEF InFlight, Unhandled

\* Without a connection nothing is under way.
LEMMA NothingInFlight ==
    ASSUME NEW P
    PROVE  InFlight(P, FALSE, << >>, << >>) /\ Unhandled(P, FALSE, << >>) = Out(P)
<1>1. AcksIn(<< >>) = {} /\ PutsIn(<< >>) = {}
  BY DEF AcksIn, PutsIn
<1> QED
  BY <1>1 DEF InFlight, Unhandled

\* A new connection begins with other messages and all outstanding puts.
Restores(P, l, s, t, x) ==
    /\ IsTable(P) /\ IsFiniteSet(DOMAIN P)
    /\ l \in Seq(UpMsg) /\ PutsIn(l) = {} /\ s \in Ascending(Out(P))
    /\ Is(t, [i \in DOMAIN s |-> PutMsg(s[i], P[s[i]].write)])
    /\ Is(x, l \o t)

LEMMA Restored ==
    ASSUME NEW P, NEW l, NEW s, NEW t, NEW x, Restores(P, l, s, t, x)
    PROVE  /\ x \in Seq(UpMsg) /\ InFlight(P, TRUE, x, << >>)
           /\ Unhandled(P, TRUE, x) = Out(P)
<1>0. /\ IsTable(P) /\ IsFiniteSet(DOMAIN P) /\ \A i \in DOMAIN P : P[i] \in Entry
      /\ l \in Seq(UpMsg) /\ PutsIn(l) = {} /\ s \in Ascending(Out(P))
      /\ Is(t, [i \in DOMAIN s |-> PutMsg(s[i], P[s[i]].write)])
      /\ Is(x, l \o t)
  BY DEF Restores, IsTable
<1> USE <1>0
<1>1. Out(P) \subseteq Nat /\ IsFiniteSet(Out(P)) /\ Cardinality(Out(P)) \in Nat
  BY FS_Subset, FS_CardinalityType DEF Out, IsTable
<1>2. PICK n \in Nat : n = Cardinality(Out(P))
  BY <1>1
<1>3. /\ DOMAIN s = 1 .. n /\ \A i \in 1 .. n : s[i] \in Out(P)
      /\ \A i, j \in 1 .. n : i < j => s[i] < s[j]
      /\ \A k \in Out(P) : \E i \in 1 .. n : s[i] = k
  BY <1>2 DEF Ascending
<1>4. /\ DOMAIN t = 1 .. n
      /\ \A i \in 1 .. n : t[i] = PutMsg(s[i], P[s[i]].write) /\ t[i] \in UpMsg
  <2>1. \A i \in 1 .. n : s[i] \in Nat /\ P[s[i]].write \in Write
    BY <1>1, <1>3 DEF Out, Entry
  <2> QED
    BY <1>3, <2>1 DEF Is, PutMsg, UpMsg
<1>5. t \in Seq(UpMsg) /\ Len(t) = n
  <2>1. t = [i \in 1 .. n |-> t[i]]
    BY <1>3, <1>4 DEF Is
  <2> QED
    BY <2>1, <1>4
<1>6. \A i \in 1 .. n : t[i].msg = "put" /\ t[i].id = s[i] /\ t[i].write = P[s[i]].write
  BY <1>4 DEF PutMsg
<1>7. /\ x \in Seq(UpMsg) /\ Len(l) \in Nat
      /\ DOMAIN l = 1 .. Len(l) /\ DOMAIN x = 1 .. Len(l) + n
      /\ \A i \in 1 .. Len(l) : x[i] = l[i]
      /\ \A i \in 1 .. n : x[Len(l) + i] = t[i]
  BY <1>5, ConcatFacts DEF Is
<1>8. PICK m \in Nat : m = Len(l)
  BY <1>7
<1>9. /\ \A i \in 1 .. n : m + i \in PutsIn(x) /\ x[m + i] = t[i]
      /\ \A i \in PutsIn(x) : i \in Int /\ i - m \in 1 .. n /\ x[i] = t[i - m]
  <2>1. ASSUME NEW i \in 1 .. n
        PROVE  m + i \in PutsIn(x) /\ x[m + i] = t[i]
    BY <1>6, <1>7, <1>8 DEF PutsIn
  <2>2. ASSUME NEW i \in PutsIn(x)
        PROVE  i \in Int /\ i - m \in 1 .. n /\ x[i] = t[i - m]
    <3>1. i \in 1 .. m + n /\ x[i].msg = "put"
      BY <1>7, <1>8 DEF PutsIn
    <3>2. i \notin 1 .. m
      BY <3>1, <1>7, <1>8 DEF PutsIn
    <3>3. i - m \in 1 .. n /\ m + (i - m) = i
      BY <3>1, <3>2
    <3> QED
      BY <3>1, <3>3, <1>7, <1>8
  <2> QED
    BY <2>1, <2>2
<1>10. \A i \in PutsIn(x) : /\ i - m \in 1 .. n /\ x[i].id = s[i - m]
                            /\ x[i].id \in Out(P) /\ x[i].write = P[x[i].id].write
  <2>1. SUFFICES ASSUME NEW i \in PutsIn(x)
                 PROVE  /\ i - m \in 1 .. n /\ x[i].id = s[i - m]
                        /\ x[i].id \in Out(P) /\ x[i].write = P[x[i].id].write
    OBVIOUS
  <2>2. PICK j \in 1 .. n : j = i - m /\ x[i] = t[j]
    BY <1>9
  <2>3. x[i].id = s[j] /\ x[i].write = P[s[j]].write /\ s[j] \in Out(P)
    BY <2>2, <1>3, <1>6
  <2> QED
    BY <2>2, <2>3
<1>11. \A i, j \in PutsIn(x) : i < j => x[i].id < x[j].id
  <2>1. SUFFICES ASSUME NEW i \in PutsIn(x), NEW j \in PutsIn(x), i < j
                 PROVE  x[i].id < x[j].id
    OBVIOUS
  <2>2. i - m \in 1 .. n /\ j - m \in 1 .. n /\ i - m < j - m
    BY <2>1, <1>9
  <2> QED
    BY <2>2, <1>3, <1>10
<1>12. \A k \in Out(P) : \E i \in PutsIn(x) : x[i].id = k
  <2>1. SUFFICES ASSUME NEW k \in Out(P)
                 PROVE  \E i \in PutsIn(x) : x[i].id = k
    OBVIOUS
  <2>2. PICK i \in 1 .. n : s[i] = k
    BY <1>3
  <2>3. m + i \in PutsIn(x) /\ x[m + i].id = k
    BY <2>2, <1>6, <1>9
  <2> QED
    BY <2>3
<1>13. AcksIn(<< >>) = {}
  BY DEF AcksIn
<1>14. InFlight(P, TRUE, x, << >>)
  BY <1>10, <1>11, <1>12, <1>13 DEF InFlight
<1>15. Unhandled(P, TRUE, x) = Out(P)
  BY <1>10, <1>12 DEF Unhandled
<1> QED
  BY <1>7, <1>14, <1>15

-----------------------------------------------------------------------------
(***************************************************************************)
(* The devices.                                                            *)
(***************************************************************************)

\* The puts of device d that the server has still to handle.
ToGo(d) == Unhandled(pending[d], connected[d], up[d])

\* The state of one device's connection.
Connection(d) ==
    /\ IsTable(pending[d])
    /\ \A i \in DOMAIN pending[d] : i < putCounter[d]
    /\ InFlight(pending[d], connected[d], up[d], down[d])
    /\ ~connected[d] => \A p \in Path : d \notin listeners[p]

\* The inductive invariant of the connections.
FlightInv ==
    /\ DOMAIN pending = Device
    /\ putCounter \in [Device -> Nat]
    /\ connected \in [Device -> BOOLEAN]
    /\ up \in [Device -> Seq(UpMsg)]
    /\ down \in [Device -> Seq(DownMsg)]
    /\ server \in [Path -> SUBSET Key]
    /\ listeners \in [Path -> SUBSET Device]
    /\ mine \in [Device -> SUBSET (Path \X Key)]
    /\ gone \in [Device -> SUBSET (Path \X Key)]
    /\ \A d \in Device : Connection(d)

\* What a step does to the puts of device d.  It leaves them alone,
Unmoved(d) ==
    /\ OutstandingPuts(d)' = OutstandingPuts(d)
    /\ ToGo(d)' = ToGo(d)
    /\ \A i \in OutstandingPuts(d) : pending'[d][i].write = pending[d][i].write

\* makes a new one, w,
Entered(d, w) ==
    \E n \in Nat :
        /\ \A i \in OutstandingPuts(d) : i < n
        /\ OutstandingPuts(d)' = OutstandingPuts(d) \cup {n}
        /\ ToGo(d)' = ToGo(d) \cup {n}
        /\ pending'[d][n].write = w
        /\ \A i \in OutstandingPuts(d) : pending'[d][i].write = pending[d][i].write

\* takes the answer to the oldest, which the server has handled,
Answered(d) ==
    \E n \in OutstandingPuts(d) \ ToGo(d) :
        /\ \A i \in OutstandingPuts(d) : n <= i
        /\ OutstandingPuts(d)' = OutstandingPuts(d) \ {n}
        /\ ToGo(d)' = ToGo(d)
        /\ \A i \in OutstandingPuts(d) \ {n} : pending'[d][i].write = pending[d][i].write

\* has the server handle the oldest that is to go, which is w,
Handled(d, w) ==
    \E n \in ToGo(d) :
        /\ \A i \in ToGo(d) : n <= i
        /\ pending[d][n].write = w
        /\ OutstandingPuts(d)' = OutstandingPuts(d)
        /\ ToGo(d)' = ToGo(d) \ {n}
        /\ \A i \in OutstandingPuts(d) : pending'[d][i].write = pending[d][i].write

\* has all of them to be handled again,
StartsOver(d) ==
    /\ OutstandingPuts(d)' = OutstandingPuts(d)
    /\ ToGo(d)' = OutstandingPuts(d)
    /\ \A i \in OutstandingPuts(d) : pending'[d][i].write = pending[d][i].write

\* or forgets them.
Forgotten(d) == OutstandingPuts(d)' = {} /\ ToGo(d)' = {}

\* The puts of a device in the order the server handles them.
LEMMA PutsInOrder ==
    ASSUME FlightInv, NEW d \in Device
    PROVE  /\ OutstandingPuts(d) \subseteq Nat /\ ToGo(d) \subseteq OutstandingPuts(d)
           /\ \A i \in OutstandingPuts(d) \ ToGo(d) : \A j \in ToGo(d) : i < j
           /\ \A i \in OutstandingPuts(d) : /\ pending[d][i] \in Entry
                                            /\ pending[d][i].status = "sent"
<1>1. Out(pending[d]) = OutstandingPuts(d)
  BY DEF Out, OutstandingPuts
<1>2. /\ IsTable(pending[d]) /\ connected[d] \in BOOLEAN /\ up[d] \in Seq(UpMsg)
      /\ down[d] \in Seq(DownMsg) /\ InFlight(pending[d], connected[d], up[d], down[d])
  BY DEF FlightInv, Connection
<1>3. /\ Out(pending[d]) \subseteq Nat /\ ToGo(d) \subseteq Out(pending[d])
      /\ \A i \in Out(pending[d]) \ ToGo(d) : \A j \in ToGo(d) : i < j
  BY <1>2, FlightInOrder DEF ToGo
<1> QED
  BY <1>1, <1>2, <1>3 DEF IsTable, OutstandingPuts

\* g is f with x at d.
With(f, g, d, x) ==
    DOMAIN g = Device /\ \A e \in Device : g[e] = IF e = d THEN x ELSE f[e]

\* A step of device d, and of the server for it: d's table becomes P, its counter n,
\* its connection is up if c, with the messages u up; others may be sent data.
StepsTo(d, P, n, c, u) ==
    /\ With(pending, pending', d, P) /\ IsTable(P)
    /\ n \in Nat /\ With(putCounter, putCounter', d, n) /\ putCounter' \in [Device -> Nat]
    /\ \A i \in DOMAIN P : i < n
    /\ c \in BOOLEAN /\ With(connected, connected', d, c) /\ connected' \in [Device -> BOOLEAN]
    /\ u \in Seq(UpMsg) /\ With(up, up', d, u) /\ up' \in [Device -> Seq(UpMsg)]
    /\ down' \in [Device -> Seq(DownMsg)] /\ InFlight(P, c, u, down'[d])
    /\ \A e \in Device : e # d => InFlight(pending[e], connected[e], up[e], down'[e])
    /\ server' \in [Path -> SUBSET Key]
    /\ listeners' \in [Path -> SUBSET Device]
    /\ \A e \in Device : \A p \in Path : e # d /\ e \in listeners'[p] => e \in listeners[p]
    /\ ~c => \A p \in Path : d \notin listeners'[p]
    /\ mine' \in [Device -> SUBSET (Path \X Key)]
    /\ gone' \in [Device -> SUBSET (Path \X Key)]

LEMMA DeviceStep ==
    ASSUME FlightInv, NEW d \in Device, NEW P, NEW n, NEW c, NEW u, StepsTo(d, P, n, c, u)
    PROVE  /\ FlightInv'
           /\ \A e \in Device : e # d => Unmoved(e)
           /\ pending'[d] = P
           /\ OutstandingPuts(d)' = Out(P)
           /\ ToGo(d)' = Unhandled(P, c, u)
<1>1. pending'[d] = P /\ putCounter'[d] = n /\ connected'[d] = c /\ up'[d] = u
  BY DEF With, StepsTo
<1>2. Connection(d)'
  BY <1>1 DEF Connection, StepsTo
<1>3. ASSUME NEW e \in Device, e # d
      PROVE  Connection(e)' /\ Unmoved(e)
  <2>1. /\ pending'[e] = pending[e] /\ putCounter'[e] = putCounter[e]
        /\ connected'[e] = connected[e] /\ up'[e] = up[e]
    BY <1>3 DEF With, StepsTo
  <2>2. Connection(e)
    BY DEF FlightInv
  <2>3. InFlight(pending[e], connected[e], up[e], down'[e])
    BY <1>3 DEF StepsTo
  <2>4. Connection(e)'
    BY <2>1, <2>2, <2>3, <1>3 DEF Connection, StepsTo
  <2> QED
    BY <2>1, <2>4 DEF Unmoved, OutstandingPuts, ToGo
<1>4. FlightInv'
  BY <1>2, <1>3 DEF FlightInv, With, StepsTo
<1>5. OutstandingPuts(d)' = Out(P) /\ ToGo(d)' = Unhandled(P, c, u)
  BY <1>1 DEF OutstandingPuts, Out, ToGo
<1> QED
  BY <1>1, <1>3, <1>4, <1>5

-----------------------------------------------------------------------------
\* Writes, and what they remove.
LEMMA WriteFacts ==
    ASSUME NEW w \in Write
    PROVE  /\ w.path \in Path /\ w.op \in {"set", "remove", "clear"}
           /\ w.op = "set" => w.key \in Key /\ w = SetValue(w.path, w.key)
           /\ w.op = "remove" => w.key \in Key
           /\ Removed(w) \subseteq Path \X Key
           /\ \A S \in SUBSET Key : Applied(w, S) \in SUBSET Key
BY DEF Write, SetValue, Removed, Applied

\* What a client needs of the call at the head of its queue.
CallIsOK(d) ==
    calls[d] # << >> =>
        /\ Head(calls[d]).call = "put" => Head(calls[d]).write \in Write
        /\ Head(calls[d]).call \in {"observe", "removeObserver"} => Head(calls[d]).path \in Path

LEMMA RunPutEffect ==
    ASSUME FlightInv, NEW d \in Device, CallIsOK(d), RunPut(d)
    PROVE  /\ FlightInv'
           /\ \A e \in Device : e # d => Unmoved(e)
           /\ Head(calls[d]).write \in Write /\ Entered(d, Head(calls[d]).write)
           /\ RecordWrite(d, Head(calls[d]).write) /\ UNCHANGED server
<1>1. PICK w \in Write : w = Head(calls[d]).write
  BY DEF CallIsOK, RunPut
<1>2. PICK n \in Nat : n = putCounter[d]
  BY DEF FlightInv
<1>3. PICK Q : Q = WithPut(pending[d], n, w)
  OBVIOUS
<1>4. PICK x : x = IF connected[d] THEN Append(up[d], PutMsg(n, w)) ELSE up[d]
  OBVIOUS
<1>5. /\ pending' = [pending EXCEPT ![d] = Q]
      /\ putCounter' = [putCounter EXCEPT ![d] = n + 1]
      /\ up' = [up EXCEPT ![d] = x]
      /\ RecordWrite(d, w)
      /\ UNCHANGED <<connected, down, server, listeners>>
  BY <1>1, <1>2, <1>3, <1>4 DEF RunPut, Send
<1>6. /\ IsTable(pending[d]) /\ \A i \in DOMAIN pending[d] : i < n
      /\ connected[d] \in BOOLEAN /\ up[d] \in Seq(UpMsg) /\ down[d] \in Seq(DownMsg)
      /\ InFlight(pending[d], connected[d], up[d], down[d])
  BY <1>2 DEF FlightInv, Connection
<1>7. Puts(pending[d], connected[d], up[d], down[d], n, w, Q, x)
  BY <1>3, <1>4, <1>6 DEF Puts
<1>8. /\ IsTable(Q) /\ x \in Seq(UpMsg)
      /\ InFlight(Q, connected[d], x, down[d])
      /\ Out(Q) = Out(pending[d]) \cup {n}
      /\ Unhandled(Q, connected[d], x) = ToGo(d) \cup {n}
      /\ Q[n].write = w
      /\ \A i \in Out(pending[d]) : i < n /\ Q[i] = pending[d][i]
  BY ONLY <1>7, AddPut DEF ToGo
<1>9. \A i \in DOMAIN Q : i < n + 1
  BY <1>3, <1>6 DEF WithPut, IsTable
<1>10. mine' \in [Device -> SUBSET (Path \X Key)] /\ gone' \in [Device -> SUBSET (Path \X Key)]
  BY <1>5, WriteFacts DEF RecordWrite, FlightInv
<1>11. /\ With(pending, pending', d, Q) /\ With(putCounter, putCounter', d, n + 1)
       /\ With(connected, connected', d, connected[d]) /\ With(up, up', d, x)
       /\ putCounter' \in [Device -> Nat] /\ up' \in [Device -> Seq(UpMsg)] /\ n + 1 \in Nat
  BY <1>5, <1>8 DEF With, FlightInv
<1>12. /\ FlightInv' /\ \A e \in Device : e # d => Unmoved(e)
       /\ pending'[d] = Q
       /\ OutstandingPuts(d)' = Out(Q)
       /\ ToGo(d)' = Unhandled(Q, connected[d], x)
  <2>1. /\ \A e \in Device : e # d => InFlight(pending[e], connected[e], up[e], down'[e])
        /\ InFlight(Q, connected[d], x, down'[d])
    BY <1>5, <1>8 DEF FlightInv, Connection
  <2>2. /\ connected' \in [Device -> BOOLEAN] /\ down' \in [Device -> Seq(DownMsg)]
        /\ server' \in [Path -> SUBSET Key] /\ listeners' \in [Path -> SUBSET Device]
        /\ \A e \in Device : \A p \in Path : e # d /\ e \in listeners'[p] => e \in listeners[p]
        /\ ~connected[d] => \A p \in Path : d \notin listeners'[p]
    BY <1>5 DEF FlightInv, Connection
  <2>3. StepsTo(d, Q, n + 1, connected[d], x)
    BY <1>6, <1>8, <1>9, <1>10, <1>11, <2>1, <2>2 DEF StepsTo
  <2> QED
    BY <2>3, DeviceStep
<1>13. Out(pending[d]) = OutstandingPuts(d)
  BY DEF Out, OutstandingPuts
<1> QED
  BY <1>1, <1>5, <1>8, <1>12, <1>13 DEF Entered

\* A message that is no put is sent, if there is a connection.
LEMMA SendEffect ==
    ASSUME FlightInv, NEW d \in Device, NEW m \in UpMsg, m.msg # "put", Send(d, m),
           UNCHANGED <<pending, putCounter, connected, down, server, listeners, mine, gone>>
    PROVE  FlightInv' /\ \A e \in Device : Unmoved(e)
<1>1. PICK x : x = IF connected[d] THEN Append(up[d], m) ELSE up[d]
  OBVIOUS
<1>2. up' = [up EXCEPT ![d] = x]
  BY <1>1 DEF Send
<1>3. /\ IsTable(pending[d]) /\ \A i \in DOMAIN pending[d] : i < putCounter[d]
      /\ connected[d] \in BOOLEAN /\ up[d] \in Seq(UpMsg) /\ down[d] \in Seq(DownMsg)
      /\ InFlight(pending[d], connected[d], up[d], down[d])
  BY DEF FlightInv, Connection
<1>4. /\ x \in Seq(UpMsg) /\ InFlight(pending[d], connected[d], x, down[d])
      /\ Unhandled(pending[d], connected[d], x) = ToGo(d)
  <2>1. CASE connected[d]
    <3>1. connected[d] = TRUE
      BY <2>1, <1>3
    <3> QED
      BY <3>1, <1>1, <1>3, AddOther DEF ToGo
  <2>2. CASE ~connected[d]
    BY <2>2, <1>1, <1>3 DEF ToGo
  <2> QED
    BY <2>1, <2>2
<1>5. /\ With(pending, pending', d, pending[d]) /\ With(putCounter, putCounter', d, putCounter[d])
      /\ With(connected, connected', d, connected[d]) /\ With(up, up', d, x)
      /\ up' \in [Device -> Seq(UpMsg)] /\ putCounter[d] \in Nat
  BY <1>2, <1>4 DEF With, FlightInv
<1>6. /\ \A e \in Device : e # d => InFlight(pending[e], connected[e], up[e], down'[e])
      /\ InFlight(pending[d], connected[d], x, down'[d])
  BY <1>4 DEF FlightInv, Connection
<1>7. /\ connected' \in [Device -> BOOLEAN] /\ down' \in [Device -> Seq(DownMsg)]
      /\ putCounter' \in [Device -> Nat]
      /\ server' \in [Path -> SUBSET Key] /\ listeners' \in [Path -> SUBSET Device]
      /\ mine' \in [Device -> SUBSET (Path \X Key)] /\ gone' \in [Device -> SUBSET (Path \X Key)]
      /\ \A e \in Device : \A p \in Path : e # d /\ e \in listeners'[p] => e \in listeners[p]
      /\ ~connected[d] => \A p \in Path : d \notin listeners'[p]
  BY DEF FlightInv, Connection
<1>8. /\ FlightInv' /\ \A e \in Device : e # d => Unmoved(e)
      /\ ToGo(d)' = Unhandled(pending[d], connected[d], x)
  <2>1. StepsTo(d, pending[d], putCounter[d], connected[d], x)
    BY <1>3, <1>4, <1>5, <1>6, <1>7 DEF StepsTo
  <2> QED
    BY <2>1, DeviceStep
<1>9. Unmoved(d)
  BY <1>4, <1>8 DEF Unmoved, OutstandingPuts
<1> QED
  BY <1>8, <1>9

\* Steps that change nothing of what the connections keep.
LEMMA NoEffect ==
    ASSUME FlightInv,
           UNCHANGED <<pending, putCounter, connected, up, down, server, listeners, mine, gone>>
    PROVE  FlightInv' /\ \A e \in Device : Unmoved(e)
BY DEF FlightInv, Connection, Unmoved, OutstandingPuts, ToGo

LEMMA RunObserveEffect ==
    ASSUME FlightInv, NEW d \in Device, CallIsOK(d), RunObserve(d)
    PROVE  /\ FlightInv' /\ \A e \in Device : Unmoved(e)
           /\ UNCHANGED <<server, mine, gone>>
<1>1. PICK p \in Path : p = Head(calls[d]).path
  BY DEF CallIsOK, RunObserve
<1>2. /\ UNCHANGED <<pending, putCounter, connected, down, server, listeners, mine, gone>>
      /\ Send(d, ListenMsg(p)) \/ UNCHANGED up
  BY <1>1 DEF RunObserve
<1>3. ListenMsg(p) \in UpMsg /\ ListenMsg(p).msg # "put"
  BY DEF ListenMsg, UpMsg
<1> QED
  BY <1>2, <1>3, SendEffect, NoEffect

LEMMA RunRemoveObserverEffect ==
    ASSUME FlightInv, NEW d \in Device, CallIsOK(d), RunRemoveObserver(d)
    PROVE  /\ FlightInv' /\ \A e \in Device : Unmoved(e)
           /\ UNCHANGED <<server, mine, gone>>
<1>1. PICK p \in Path : p = Head(calls[d]).path
  BY DEF CallIsOK, RunRemoveObserver
<1>2. /\ UNCHANGED <<pending, putCounter, connected, down, server, listeners, mine, gone>>
      /\ Send(d, UnlistenMsg(p)) \/ UNCHANGED up
  BY <1>1 DEF RunRemoveObserver
<1>3. UnlistenMsg(p) \in UpMsg /\ UnlistenMsg(p).msg # "put"
  BY DEF UnlistenMsg, UpMsg
<1> QED
  BY <1>2, <1>3, SendEffect, NoEffect

\* What Connection says of a device that is connected.
LEMMA Connected ==
    ASSUME FlightInv, NEW d \in Device, up[d] # << >> \/ down[d] # << >>
    PROVE  /\ connected[d] = TRUE /\ IsTable(pending[d])
           /\ up[d] \in Seq(UpMsg) /\ down[d] \in Seq(DownMsg)
           /\ InFlight(pending[d], TRUE, up[d], down[d])
           /\ ToGo(d) = Unhandled(pending[d], TRUE, up[d])
<1>1. /\ connected[d] \in BOOLEAN /\ IsTable(pending[d]) /\ up[d] \in Seq(UpMsg)
      /\ down[d] \in Seq(DownMsg) /\ InFlight(pending[d], connected[d], up[d], down[d])
  BY DEF FlightInv, Connection
<1>2. connected[d] = TRUE
  BY <1>1 DEF InFlight
<1> QED
  BY <1>1, <1>2 DEF ToGo

\* The client takes a message from the server that leaves d's table as Q.
LEMMA ReceiveEffect ==
    ASSUME FlightInv, NEW d \in Device, NEW Q, IsTable(Q),
           DOMAIN Q \subseteq DOMAIN pending[d], down[d] # << >>,
           pending' = [pending EXCEPT ![d] = Q], down' = [down EXCEPT ![d] = Tail(@)],
           UNCHANGED <<putCounter, connected, up, server, listeners, mine, gone>>,
           Tail(down[d]) \in Seq(DownMsg), InFlight(Q, TRUE, up[d], Tail(down[d]))
    PROVE  /\ FlightInv'
           /\ \A e \in Device : e # d => Unmoved(e)
           /\ pending'[d] = Q
           /\ OutstandingPuts(d)' = Out(Q)
           /\ ToGo(d)' = Unhandled(Q, TRUE, up[d])
<1>1. connected[d] = TRUE /\ IsTable(pending[d]) /\ up[d] \in Seq(UpMsg)
  BY Connected
<1>2. /\ With(pending, pending', d, Q) /\ With(putCounter, putCounter', d, putCounter[d])
      /\ With(connected, connected', d, TRUE) /\ With(up, up', d, up[d])
      /\ up' \in [Device -> Seq(UpMsg)] /\ putCounter[d] \in Nat
      /\ \A i \in DOMAIN Q : i < putCounter[d]
  BY <1>1 DEF With, FlightInv, Connection
<1>3. /\ \A e \in Device : e # d => InFlight(pending[e], connected[e], up[e], down'[e])
      /\ InFlight(Q, TRUE, up[d], down'[d])
  BY DEF FlightInv, Connection
<1>4. /\ connected' \in [Device -> BOOLEAN] /\ down' \in [Device -> Seq(DownMsg)]
      /\ putCounter' \in [Device -> Nat]
      /\ server' \in [Path -> SUBSET Key] /\ listeners' \in [Path -> SUBSET Device]
      /\ mine' \in [Device -> SUBSET (Path \X Key)] /\ gone' \in [Device -> SUBSET (Path \X Key)]
      /\ \A e \in Device : \A p \in Path : e # d /\ e \in listeners'[p] => e \in listeners[p]
  BY DEF FlightInv
<1>5. StepsTo(d, Q, putCounter[d], TRUE, up[d])
  BY <1>1, <1>2, <1>3, <1>4 DEF StepsTo
<1> QED
  BY <1>5, DeviceStep

\* AckPuts takes nothing that is outstanding.
LEMMA AckPutsFacts ==
    ASSUME NEW P, IsTable(P)
    PROVE  /\ IsTable(AckPuts(P)) /\ DOMAIN AckPuts(P) \subseteq DOMAIN P
           /\ Out(AckPuts(P)) = Out(P)
           /\ \A i \in Out(P) : AckPuts(P)[i] = P[i]
<1>1. DOMAIN AckPuts(P) = Out(P) /\ \A i \in Out(P) : AckPuts(P)[i] = P[i]
  BY DEF AckPuts, Restrict, Out
<1>2. Out(P) \subseteq DOMAIN P /\ \A i \in Out(P) : P[i].status = "sent"
  BY DEF Out
<1>3. Out(AckPuts(P)) = Out(P)
  BY <1>1, <1>2 DEF Out
<1> QED
  BY <1>1, <1>2, <1>3 DEF IsTable

LEMMA ReceiveListenedEffect ==
    ASSUME FlightInv, NEW d \in Device, ReceiveListened(d)
    PROVE  /\ FlightInv' /\ \A e \in Device : Unmoved(e)
           /\ UNCHANGED <<server, mine, gone>>
<1>1. PICK Q : Q = IF UnackedListens(d) = 1 THEN AckPuts(pending[d]) ELSE pending[d]
  OBVIOUS
<1>2. /\ down[d] # << >> /\ Head(down[d]).msg # "ack"
      /\ pending' = [pending EXCEPT ![d] = Q] /\ down' = [down EXCEPT ![d] = Tail(@)]
      /\ UNCHANGED <<putCounter, connected, up, server, listeners, mine, gone>>
  BY <1>1 DEF ReceiveListened
<1>3. /\ connected[d] = TRUE /\ IsTable(pending[d])
      /\ up[d] \in Seq(UpMsg) /\ down[d] \in Seq(DownMsg)
      /\ InFlight(pending[d], TRUE, up[d], down[d])
      /\ ToGo(d) = Unhandled(pending[d], TRUE, up[d])
  BY <1>2, Connected
<1>4. /\ IsTable(Q) /\ DOMAIN Q \subseteq DOMAIN pending[d] /\ Out(Q) = Out(pending[d])
      /\ \A i \in Out(pending[d]) : Q[i] = pending[d][i]
  BY <1>1, <1>3, AckPutsFacts
<1>5. Tail(down[d]) \in Seq(DownMsg) /\ InFlight(pending[d], TRUE, up[d], Tail(down[d]))
  BY <1>2, <1>3, DropData
<1>6. /\ InFlight(Q, TRUE, up[d], Tail(down[d]))
      /\ Unhandled(Q, TRUE, up[d]) = Unhandled(pending[d], TRUE, up[d])
  BY <1>4, <1>5, SameOut
<1>7. /\ FlightInv' /\ \A e \in Device : e # d => Unmoved(e)
      /\ pending'[d] = Q
      /\ OutstandingPuts(d)' = Out(Q)
      /\ ToGo(d)' = Unhandled(Q, TRUE, up[d])
  BY <1>2, <1>4, <1>5, <1>6, ReceiveEffect
<1>8. Unmoved(d)
  BY <1>3, <1>4, <1>6, <1>7 DEF Unmoved, OutstandingPuts, Out
<1> QED
  BY <1>2, <1>7, <1>8

LEMMA ReceiveDataEffect ==
    ASSUME FlightInv, NEW d \in Device, ReceiveData(d)
    PROVE  /\ FlightInv' /\ \A e \in Device : Unmoved(e)
           /\ UNCHANGED <<server, mine, gone>>
<1>2. /\ down[d] # << >> /\ Head(down[d]).msg # "ack"
      /\ down' = [down EXCEPT ![d] = Tail(@)]
      /\ UNCHANGED <<pending, putCounter, connected, up, server, listeners, mine, gone>>
  BY DEF ReceiveData
<1>3. /\ connected[d] = TRUE /\ IsTable(pending[d])
      /\ up[d] \in Seq(UpMsg) /\ down[d] \in Seq(DownMsg)
      /\ InFlight(pending[d], TRUE, up[d], down[d])
  BY <1>2, Connected
<1>4. Tail(down[d]) \in Seq(DownMsg) /\ InFlight(pending[d], TRUE, up[d], Tail(down[d]))
  BY <1>2, <1>3, DropData
<1>5. ASSUME NEW e \in Device
      PROVE  Connection(e)' /\ Unmoved(e)
  BY <1>2, <1>3, <1>4 DEF FlightInv, Connection, Unmoved, OutstandingPuts, ToGo
<1> QED
  BY <1>2, <1>4, <1>5 DEF FlightInv

LEMMA ReceiveAckEffect ==
    ASSUME FlightInv, NEW d \in Device, ReceiveAck(d)
    PROVE  /\ FlightInv'
           /\ \A e \in Device : e # d => Unmoved(e)
           /\ Answered(d)
           /\ UNCHANGED <<server, mine, gone>>
<1>1. PICK a : a = Head(down[d])
  OBVIOUS
<1>2. PICK Q : Q = IF UnackedListens(d) = 0 THEN Restrict(pending[d], DOMAIN pending[d] \ {a.id})
                   ELSE [pending[d] EXCEPT ![a.id].status = a.status]
  OBVIOUS
<1>3. /\ down[d] # << >> /\ a.msg = "ack"
      /\ pending' = [pending EXCEPT ![d] = Q] /\ down' = [down EXCEPT ![d] = Tail(@)]
      /\ UNCHANGED <<putCounter, connected, up, server, listeners, mine, gone>>
  BY <1>1, <1>2 DEF ReceiveAck
<1>4. /\ connected[d] = TRUE /\ IsTable(pending[d])
      /\ up[d] \in Seq(UpMsg) /\ down[d] \in Seq(DownMsg)
      /\ InFlight(pending[d], TRUE, up[d], down[d])
      /\ ToGo(d) = Unhandled(pending[d], TRUE, up[d])
  BY <1>3, Connected
<1>5. a \in DownMsg /\ a.status \in {"ok", "denied"}
  BY <1>1, <1>3, <1>4 DEF DownMsg
<1>6. /\ IsTable(Q) /\ DOMAIN Q \subseteq DOMAIN pending[d]
      /\ \A i : i \in Out(Q) <=> i \in Out(pending[d]) /\ i # a.id
      /\ \A i \in Out(Q) : Q[i].write = pending[d][i].write
  <2>1. CASE UnackedListens(d) = 0
    <3>1. /\ DOMAIN Q = DOMAIN pending[d] \ {a.id}
          /\ \A i \in DOMAIN Q : Q[i] = pending[d][i]
      BY <2>1, <1>2 DEF Restrict
    <3> QED
      BY <3>1, <1>4 DEF Out, IsTable
  <2>2. CASE UnackedListens(d) # 0
    <3>1. /\ DOMAIN Q = DOMAIN pending[d]
          /\ \A i \in DOMAIN Q : i # a.id => Q[i] = pending[d][i]
          /\ a.id \in DOMAIN Q => Q[a.id] = [pending[d][a.id] EXCEPT !.status = a.status]
      BY <2>2, <1>2
    <3>2. ASSUME a.id \in DOMAIN Q
          PROVE  Q[a.id] \in Entry /\ Q[a.id].status # "sent"
      <4>1. pending[d][a.id] \in Entry
        BY <3>1, <3>2, <1>4 DEF IsTable
      <4>2. Q[a.id] = [write |-> pending[d][a.id].write, status |-> a.status]
        BY <3>1, <3>2, <4>1 DEF Entry
      <4> QED
        BY <4>1, <4>2, <1>5 DEF Entry
    <3> QED
      BY <3>1, <3>2, <1>4 DEF Out, IsTable
  <2> QED
    BY <2>1, <2>2
<1>7. PICK n : Is(n, Head(down[d]).id) /\ n = a.id
  BY <1>1 DEF Is
<1>12. PICK y : Is(y, Tail(down[d])) /\ y = Tail(down[d])
  BY DEF Is
<1>8. /\ y \in Seq(DownMsg)
      /\ InFlight(Q, TRUE, up[d], y)
      /\ n \in Out(pending[d]) /\ \A i \in Unhandled(pending[d], TRUE, up[d]) : i # n
      /\ \A i \in Out(pending[d]) : n <= i
      /\ Unhandled(Q, TRUE, up[d]) = Unhandled(pending[d], TRUE, up[d])
  <2>1. /\ Head(down[d]).msg = "ack"
        /\ \A i : i \in Out(Q) <=> i \in Out(pending[d]) /\ i # n
    BY <1>1, <1>3, <1>6, <1>7
  <2>2. Takes(pending[d], up[d], down[d], n, Q, y)
    BY <1>3, <1>4, <1>6, <1>7, <1>12, <2>1 DEF Takes
  <2> QED
    BY ONLY <2>2, TakeAck, ZenonT(60)
<1>9. /\ FlightInv' /\ \A e \in Device : e # d => Unmoved(e)
      /\ pending'[d] = Q
      /\ OutstandingPuts(d)' = Out(Q)
      /\ ToGo(d)' = Unhandled(Q, TRUE, up[d])
  BY <1>3, <1>6, <1>8, <1>12, ReceiveEffect
<1>10. OutstandingPuts(d) = Out(pending[d]) /\ Out(Q) = Out(pending[d]) \ {n}
  BY <1>6, <1>7 DEF OutstandingPuts, Out
<1>11. Answered(d)
  BY <1>4, <1>6, <1>8, <1>9, <1>10 DEF Answered
<1> QED
  BY <1>3, <1>9, <1>11

\* A step of the server, or of the connection, that leaves the tables alone.
LEMMA NetEffect ==
    ASSUME FlightInv, NEW d \in Device, NEW c \in BOOLEAN, NEW u \in Seq(UpMsg),
           NEW v \in Seq(DownMsg), InFlight(pending[d], c, u, v),
           UNCHANGED <<pending, putCounter>>, connected' = [connected EXCEPT ![d] = c],
           up' = [up EXCEPT ![d] = u], down' = [down EXCEPT ![d] = v],
           server' \in [Path -> SUBSET Key], listeners' \in [Path -> SUBSET Device],
           \A e \in Device : \A p \in Path : e # d /\ e \in listeners'[p] => e \in listeners[p],
           ~c => \A p \in Path : d \notin listeners'[p],
           mine' \in [Device -> SUBSET (Path \X Key)], gone' \in [Device -> SUBSET (Path \X Key)]
    PROVE  /\ FlightInv'
           /\ \A e \in Device : e # d => Unmoved(e)
           /\ OutstandingPuts(d)' = OutstandingPuts(d)
           /\ ToGo(d)' = Unhandled(pending[d], c, u)
<1>1. /\ With(pending, pending', d, pending[d]) /\ With(putCounter, putCounter', d, putCounter[d])
      /\ With(connected, connected', d, c) /\ With(up, up', d, u)
      /\ connected' \in [Device -> BOOLEAN] /\ up' \in [Device -> Seq(UpMsg)]
      /\ down' \in [Device -> Seq(DownMsg)] /\ putCounter' \in [Device -> Nat]
      /\ putCounter[d] \in Nat
  BY DEF With, FlightInv
<1>2. /\ IsTable(pending[d]) /\ \A i \in DOMAIN pending[d] : i < putCounter[d]
  BY DEF FlightInv, Connection
<1>3. /\ \A e \in Device : e # d => InFlight(pending[e], connected[e], up[e], down'[e])
      /\ InFlight(pending[d], c, u, down'[d])
  BY DEF FlightInv, Connection
<1>4. StepsTo(d, pending[d], putCounter[d], c, u)
  BY <1>1, <1>2, <1>3 DEF StepsTo
<1>5. /\ FlightInv'
      /\ \A e \in Device : e # d => Unmoved(e)
      /\ ToGo(d)' = Unhandled(pending[d], c, u)
  BY ONLY FlightInv, d \in Device, <1>4, DeviceStep
<1> QED
  BY <1>5 DEF OutstandingPuts

LEMMA DisconnectEffect ==
    ASSUME FlightInv, NEW d \in Device, Disconnect(d)
    PROVE  /\ FlightInv'
           /\ \A e \in Device : e # d => Unmoved(e)
           /\ StartsOver(d)
           /\ UNCHANGED <<server, mine, gone>>
<1>1. /\ connected' = [connected EXCEPT ![d] = FALSE]
      /\ up' = [up EXCEPT ![d] = << >>] /\ down' = [down EXCEPT ![d] = << >>]
      /\ listeners' = [p \in Path |-> listeners[p] \ {d}]
      /\ UNCHANGED <<pending, putCounter, server, mine, gone>>
  BY DEF Disconnect, clientVars
<1>2. /\ InFlight(pending[d], FALSE, << >>, << >>)
      /\ Unhandled(pending[d], FALSE, << >>) = Out(pending[d])
  BY NothingInFlight
<1>3. /\ server' \in [Path -> SUBSET Key] /\ listeners' \in [Path -> SUBSET Device]
      /\ \A e \in Device : \A p \in Path : e # d /\ e \in listeners'[p] => e \in listeners[p]
      /\ \A p \in Path : d \notin listeners'[p]
      /\ mine' \in [Device -> SUBSET (Path \X Key)] /\ gone' \in [Device -> SUBSET (Path \X Key)]
  BY <1>1 DEF FlightInv
<1>4. << >> \in Seq(UpMsg) /\ << >> \in Seq(DownMsg) /\ FALSE \in BOOLEAN
  OBVIOUS
<1>5. /\ FlightInv'
      /\ \A e \in Device : e # d => Unmoved(e)
      /\ OutstandingPuts(d)' = OutstandingPuts(d)
      /\ ToGo(d)' = Unhandled(pending[d], FALSE, << >>)
  BY ONLY FlightInv, d \in Device, <1>1, <1>2, <1>3, <1>4, NetEffect
<1>6. StartsOver(d)
  BY <1>1, <1>2, <1>5 DEF StartsOver, OutstandingPuts, Out
<1> QED
  BY <1>1, <1>5, <1>6

\* The listens of a new connection.
LEMMA ListensFacts ==
    ASSUME NEW d \in Device, NEW l \in Listens(d)
    PROVE  l \in Seq(UpMsg) /\ PutsIn(l) = {}
<1>1. PICK S : S = {ListenMsg(p) : p \in {q \in Path : observers[d][q] > 0}}
  OBVIOUS
<1>2. IsFiniteSet(S) /\ \A m \in S : m \in UpMsg /\ m.msg # "put"
  <2>1. IsFiniteSet({q \in Path : observers[d][q] > 0})
    BY PathAssumption, FS_Subset
  <2>2. PICK R : R = {q \in Path : observers[d][q] > 0}
    OBVIOUS
  <2>3. [q \in R |-> ListenMsg(q)] \in Surjection(R, S)
    BY <1>1, <2>2 DEF Surjection
  <2>4. IsFiniteSet(S)
    BY ONLY <2>1, <2>2, <2>3, FS_Surjection
  <2> QED
    BY <2>4, <1>1 DEF ListenMsg, UpMsg
<1>3. PICK n \in Nat : n = Cardinality(S)
  BY <1>2, FS_CardinalityType
<1>4. l \in [1 .. n -> S]
  BY <1>1, <1>3 DEF Listens, SetToSeqs
<1>5. l \in Seq(UpMsg) /\ Len(l) = n
  BY <1>2, <1>4
<1> QED
  BY <1>2, <1>4, <1>5 DEF PutsIn

LEMMA ReconnectEffect ==
    ASSUME FlightInv, NEW d \in Device, Reconnect(d)
    PROVE  /\ FlightInv'
           /\ \A e \in Device : e # d => Unmoved(e)
           /\ StartsOver(d)
           /\ UNCHANGED <<server, mine, gone>>
<1>1. PICK l \in Listens(d), t \in Resent(d) : up' = [up EXCEPT ![d] = l \o t]
  BY DEF Reconnect
<1>2. /\ ~connected[d] /\ connected' = [connected EXCEPT ![d] = TRUE]
      /\ UNCHANGED <<pending, putCounter, down, server, listeners, mine, gone>>
  BY DEF Reconnect, clientVars
<1>3. /\ IsTable(pending[d]) /\ \A i \in DOMAIN pending[d] : i < putCounter[d]
      /\ putCounter[d] \in Nat /\ InFlight(pending[d], connected[d], up[d], down[d])
      /\ down \in [Device -> Seq(DownMsg)]
  BY DEF FlightInv, Connection
<1>4. down[d] = << >> /\ down' = [down EXCEPT ![d] = << >>]
  <2>1. down[d] = << >>
    BY <1>2, <1>3 DEF InFlight
  <2> QED
    BY <1>2, <1>3, <2>1
<1>5. IsFiniteSet(DOMAIN pending[d])
  <2>1. /\ DOMAIN pending[d] \in SUBSET Nat /\ \A i \in DOMAIN pending[d] : i <= putCounter[d]
    BY <1>3 DEF IsTable
  <2> QED
    BY ONLY <2>1, <1>3, FS_BoundedSetOfNaturals
<1>6. OutstandingPuts(d) = Out(pending[d])
  BY DEF OutstandingPuts, Out
<1>7. PICK s \in Ascending(Out(pending[d])) :
          Is(t, [i \in DOMAIN s |-> PutMsg(s[i], pending[d][s[i]].write)])
  BY <1>6 DEF Resent, Is
<1>8. l \in Seq(UpMsg) /\ PutsIn(l) = {}
  BY ListensFacts
<1>9. PICK x : x = l \o t /\ Is(x, l \o t)
  BY DEF Is
<1>10. Restores(pending[d], l, s, t, x)
  BY <1>3, <1>5, <1>7, <1>8, <1>9 DEF Restores
<1>11. /\ x \in Seq(UpMsg) /\ InFlight(pending[d], TRUE, x, << >>)
       /\ Unhandled(pending[d], TRUE, x) = Out(pending[d])
  BY ONLY <1>10, Restored
<1>12. /\ server' \in [Path -> SUBSET Key] /\ listeners' \in [Path -> SUBSET Device]
       /\ \A e \in Device : \A p \in Path : e # d /\ e \in listeners'[p] => e \in listeners[p]
       /\ mine' \in [Device -> SUBSET (Path \X Key)] /\ gone' \in [Device -> SUBSET (Path \X Key)]
  BY <1>2 DEF FlightInv
<1>13. << >> \in Seq(DownMsg) /\ TRUE \in BOOLEAN /\ up' = [up EXCEPT ![d] = x]
  BY <1>1, <1>9
<1>14. /\ FlightInv'
       /\ \A e \in Device : e # d => Unmoved(e)
       /\ OutstandingPuts(d)' = OutstandingPuts(d)
       /\ ToGo(d)' = Unhandled(pending[d], TRUE, x)
  BY ONLY FlightInv, d \in Device, <1>2, <1>4, <1>11, <1>12, <1>13, NetEffect
<1>15. StartsOver(d)
  BY <1>2, <1>6, <1>11, <1>14 DEF StartsOver
<1> QED
  BY <1>2, <1>14, <1>15

LEMMA KilledEffect ==
    ASSUME FlightInv, NEW d \in Device, Killed(d)
    PROVE  /\ FlightInv'
           /\ \A e \in Device : e # d => Unmoved(e)
           /\ Forgotten(d)
           /\ mine' = [mine EXCEPT ![d] = {}] /\ gone' = [gone EXCEPT ![d] = {}]
           /\ UNCHANGED server
<1>1. /\ pending' = [pending EXCEPT ![d] = << >>] /\ putCounter' = [putCounter EXCEPT ![d] = 1]
      /\ connected' = [connected EXCEPT ![d] = FALSE]
      /\ up' = [up EXCEPT ![d] = << >>] /\ down' = [down EXCEPT ![d] = << >>]
      /\ listeners' = [p \in Path |-> listeners[p] \ {d}]
      /\ mine' = [mine EXCEPT ![d] = {}] /\ gone' = [gone EXCEPT ![d] = {}]
      /\ UNCHANGED server
  BY DEF Killed
<1>2. PICK P : P = << >>
  OBVIOUS
<1>3. IsTable(P) /\ Out(P) = {} /\ \A i \in DOMAIN P : i < 1
  BY <1>2 DEF IsTable, Out
<1>4. InFlight(P, FALSE, << >>, << >>) /\ Unhandled(P, FALSE, << >>) = Out(P)
  BY NothingInFlight
<1>5. /\ With(pending, pending', d, P) /\ With(putCounter, putCounter', d, 1)
      /\ With(connected, connected', d, FALSE) /\ With(up, up', d, << >>)
      /\ connected' \in [Device -> BOOLEAN] /\ up' \in [Device -> Seq(UpMsg)]
      /\ down' \in [Device -> Seq(DownMsg)] /\ putCounter' \in [Device -> Nat]
  BY <1>1, <1>2 DEF With, FlightInv
<1>6. /\ \A e \in Device : e # d => InFlight(pending[e], connected[e], up[e], down'[e])
      /\ InFlight(P, FALSE, << >>, down'[d])
  BY <1>1, <1>4 DEF FlightInv, Connection
<1>7. /\ server' \in [Path -> SUBSET Key] /\ listeners' \in [Path -> SUBSET Device]
      /\ \A e \in Device : \A p \in Path : e # d /\ e \in listeners'[p] => e \in listeners[p]
      /\ \A p \in Path : d \notin listeners'[p]
      /\ mine' \in [Device -> SUBSET (Path \X Key)] /\ gone' \in [Device -> SUBSET (Path \X Key)]
  BY <1>1 DEF FlightInv
<1>8. << >> \in Seq(UpMsg) /\ 1 \in Nat /\ FALSE \in BOOLEAN
  OBVIOUS
<1>9. StepsTo(d, P, 1, FALSE, << >>)
  BY <1>3, <1>5, <1>6, <1>7, <1>8 DEF StepsTo
<1>10. /\ FlightInv'
       /\ \A e \in Device : e # d => Unmoved(e)
       /\ OutstandingPuts(d)' = Out(P)
       /\ ToGo(d)' = Unhandled(P, FALSE, << >>)
  BY ONLY FlightInv, d \in Device, <1>9, DeviceStep
<1> QED
  BY <1>1, <1>3, <1>4, <1>10 DEF Forgotten

LEMMA ServerUnlistenEffect ==
    ASSUME FlightInv, NEW d \in Device, ServerUnlisten(d)
    PROVE  /\ FlightInv' /\ \A e \in Device : Unmoved(e)
           /\ UNCHANGED <<server, mine, gone>>
<1>1. /\ up[d] # << >> /\ Head(up[d]).msg # "put"
      /\ up' = [up EXCEPT ![d] = Tail(@)]
      /\ UNCHANGED <<pending, putCounter, connected, down, server, mine, gone>>
  BY DEF ServerUnlisten, clientVars
<1>2. /\ connected[d] = TRUE /\ IsTable(pending[d])
      /\ up[d] \in Seq(UpMsg) /\ down[d] \in Seq(DownMsg)
      /\ InFlight(pending[d], TRUE, up[d], down[d])
      /\ ToGo(d) = Unhandled(pending[d], TRUE, up[d])
  BY <1>1, Connected
<1>3. /\ Tail(up[d]) \in Seq(UpMsg) /\ InFlight(pending[d], TRUE, Tail(up[d]), down[d])
      /\ Unhandled(pending[d], TRUE, Tail(up[d])) = Unhandled(pending[d], TRUE, up[d])
  BY <1>1, <1>2, DropOther
<1>4. PICK u : u = Tail(up[d])
  OBVIOUS
<1>5. PICK v : v = down[d]
  OBVIOUS
<1>6. /\ connected' = [connected EXCEPT ![d] = TRUE] /\ up' = [up EXCEPT ![d] = u]
      /\ down' = [down EXCEPT ![d] = v] /\ v \in Seq(DownMsg) /\ TRUE \in BOOLEAN
  BY <1>1, <1>2, <1>4, <1>5 DEF FlightInv
<1>7. /\ server' \in [Path -> SUBSET Key] /\ listeners' \in [Path -> SUBSET Device]
      /\ \A e \in Device : \A p \in Path : e # d /\ e \in listeners'[p] => e \in listeners[p]
      /\ mine' \in [Device -> SUBSET (Path \X Key)] /\ gone' \in [Device -> SUBSET (Path \X Key)]
  BY <1>1 DEF FlightInv, ServerUnlisten
<1>8. /\ FlightInv'
      /\ \A e \in Device : e # d => Unmoved(e)
      /\ OutstandingPuts(d)' = OutstandingPuts(d)
      /\ ToGo(d)' = Unhandled(pending[d], TRUE, u)
  <2>1. u \in Seq(UpMsg) /\ InFlight(pending[d], TRUE, u, v)
    BY <1>3, <1>4, <1>5
  <2> QED
    BY ONLY FlightInv, d \in Device, <1>1, <1>6, <1>7, <2>1, NetEffect
<1>9. Unmoved(d)
  BY <1>1, <1>2, <1>3, <1>4, <1>8 DEF Unmoved
<1> QED
  BY <1>1, <1>8, <1>9

LEMMA ServerListenEffect ==
    ASSUME FlightInv, NEW d \in Device, ServerListen(d)
    PROVE  /\ FlightInv' /\ \A e \in Device : Unmoved(e)
           /\ UNCHANGED <<server, mine, gone>>
<1>1. PICK p : p = Head(up[d]).path
  OBVIOUS
<1>2. PICK m : m = [msg |-> "listened", path |-> p, snap |-> server[p]]
  OBVIOUS
<1>3. /\ up[d] # << >> /\ Head(up[d]).msg = "listen"
      /\ up' = [up EXCEPT ![d] = Tail(@)]
      /\ down' = [down EXCEPT ![d] = Append(@, m)]
      /\ listeners' = [listeners EXCEPT ![p] = @ \cup {d}]
      /\ UNCHANGED <<pending, putCounter, connected, server, mine, gone>>
  BY <1>1, <1>2 DEF ServerListen, clientVars
<1>4. /\ connected[d] = TRUE /\ IsTable(pending[d])
      /\ up[d] \in Seq(UpMsg) /\ down[d] \in Seq(DownMsg)
      /\ InFlight(pending[d], TRUE, up[d], down[d])
      /\ ToGo(d) = Unhandled(pending[d], TRUE, up[d])
  BY <1>3, Connected
<1>5. p \in Path
  <2>1. Head(up[d]) \in UpMsg
    BY <1>3, <1>4
  <2> QED
    BY <2>1, <1>1, <1>3 DEF UpMsg
<1>6. m \in DownMsg /\ m.msg # "ack"
  BY <1>2, <1>5 DEF DownMsg, FlightInv
<1>7. /\ Tail(up[d]) \in Seq(UpMsg) /\ InFlight(pending[d], TRUE, Tail(up[d]), down[d])
      /\ Unhandled(pending[d], TRUE, Tail(up[d])) = Unhandled(pending[d], TRUE, up[d])
  BY <1>3, <1>4, DropOther
<1>8. PICK u : u = Tail(up[d])
  OBVIOUS
<1>9. PICK v : v = Append(down[d], m)
  OBVIOUS
<1>10. v \in Seq(DownMsg) /\ InFlight(pending[d], TRUE, u, v)
  <2>1. u \in Seq(UpMsg) /\ InFlight(pending[d], TRUE, u, down[d])
    BY <1>7, <1>8
  <2>2. v = down[d] \o <<m>>
    BY <1>4, <1>6, <1>9
  <2>3. <<m>> \in Seq(DownMsg) /\ AcksIn(<<m>>) = {}
    BY <1>6 DEF AcksIn
  <2> QED
    BY ONLY <1>4, <2>1, <2>2, <2>3, AddData
<1>11. /\ connected' = [connected EXCEPT ![d] = TRUE] /\ up' = [up EXCEPT ![d] = u]
       /\ down' = [down EXCEPT ![d] = v] /\ u \in Seq(UpMsg) /\ TRUE \in BOOLEAN
  BY <1>3, <1>4, <1>7, <1>8, <1>9 DEF FlightInv
<1>12. /\ server' \in [Path -> SUBSET Key] /\ listeners' \in [Path -> SUBSET Device]
       /\ \A e \in Device : \A q \in Path : e # d /\ e \in listeners'[q] => e \in listeners[q]
       /\ mine' \in [Device -> SUBSET (Path \X Key)] /\ gone' \in [Device -> SUBSET (Path \X Key)]
  BY <1>3 DEF FlightInv
<1>13. /\ FlightInv'
       /\ \A e \in Device : e # d => Unmoved(e)
       /\ OutstandingPuts(d)' = OutstandingPuts(d)
       /\ ToGo(d)' = Unhandled(pending[d], TRUE, u)
  BY ONLY FlightInv, d \in Device, <1>3, <1>10, <1>11, <1>12, NetEffect
<1>14. Unmoved(d)
  BY <1>3, <1>4, <1>7, <1>8, <1>13 DEF Unmoved
<1> QED
  BY <1>3, <1>13, <1>14

LEMMA ServerDenyEffect ==
    ASSUME FlightInv, NEW d \in Device, ServerDeny(d)
    PROVE  /\ FlightInv'
           /\ \A e \in Device : e # d => Unmoved(e)
           /\ UNCHANGED server
           /\ \E w \in Write :
                 /\ Handled(d, w)
                 /\ mine' = [mine EXCEPT ![d] = @ \ {<<w.path, w.key>>}]
                 /\ gone' = [gone EXCEPT ![d] = @ \ Removed(w)]
<1>1. PICK n : Is(n, Head(up[d]).id)
  BY DEF Is
<1>2. PICK w : w = Head(up[d]).write /\ Is(w, Head(up[d]).write)
  BY DEF Is
<1>3. PICK u : Is(u, Tail(up[d]))
  BY DEF Is
<1>4. PICK v : Is(v, Append(down[d], AckMsg(n, "denied")))
  BY DEF Is
<1>5. /\ up[d] # << >> /\ Head(up[d]).msg = "put"
      /\ up' = [up EXCEPT ![d] = u] /\ down' = [down EXCEPT ![d] = v]
      /\ mine' = [mine EXCEPT ![d] = @ \ {<<w.path, w.key>>}]
      /\ gone' = [gone EXCEPT ![d] = @ \ Removed(w)]
      /\ UNCHANGED <<pending, putCounter, connected, server, listeners>>
  BY <1>1, <1>2, <1>3, <1>4 DEF Is, ServerDeny, clientVars
<1>6. /\ connected[d] = TRUE /\ IsTable(pending[d])
      /\ up[d] \in Seq(UpMsg) /\ down[d] \in Seq(DownMsg)
      /\ InFlight(pending[d], TRUE, up[d], down[d])
      /\ ToGo(d) = Unhandled(pending[d], TRUE, up[d])
  BY <1>5, Connected
<1>7. w \in Write
  <2>1. Head(up[d]) \in UpMsg
    BY <1>5, <1>6
  <2> QED
    BY <2>1, <1>2, <1>5 DEF UpMsg
<1>8. Serves(pending[d], up[d], down[d], n, w, "denied", v, u)
  BY <1>1, <1>2, <1>3, <1>4, <1>5, <1>6 DEF Serves
<1>9. /\ u \in Seq(UpMsg) /\ v \in Seq(DownMsg)
      /\ InFlight(pending[d], TRUE, u, v)
      /\ n \in Unhandled(pending[d], TRUE, up[d])
      /\ \A i \in Unhandled(pending[d], TRUE, up[d]) : n <= i
      /\ pending[d][n].write = w
      /\ Unhandled(pending[d], TRUE, u) = Unhandled(pending[d], TRUE, up[d]) \ {n}
  <2>1. Served(pending[d], up[d], n, w, v, u)
    BY ONLY <1>8, ServePut
  <2> QED
    BY ONLY <2>1 DEF Served
<1>10. /\ connected' = [connected EXCEPT ![d] = TRUE] /\ TRUE \in BOOLEAN
       /\ server' \in [Path -> SUBSET Key] /\ listeners' \in [Path -> SUBSET Device]
       /\ \A e \in Device : \A q \in Path : e # d /\ e \in listeners'[q] => e \in listeners[q]
       /\ mine' \in [Device -> SUBSET (Path \X Key)] /\ gone' \in [Device -> SUBSET (Path \X Key)]
  BY <1>5, <1>6 DEF FlightInv
<1>11. /\ FlightInv'
       /\ \A e \in Device : e # d => Unmoved(e)
       /\ OutstandingPuts(d)' = OutstandingPuts(d)
       /\ ToGo(d)' = Unhandled(pending[d], TRUE, u)
  BY ONLY FlightInv, d \in Device, <1>5, <1>9, <1>10, NetEffect
<1>12. Handled(d, w)
  BY <1>2, <1>5, <1>6, <1>9, <1>11 DEF Handled
<1> QED
  BY <1>5, <1>7, <1>11, <1>12

\* Data pushed to the connections that listen disturbs no put.
LEMMA PushEffect ==
    ASSUME FlightInv, NEW e \in Device, NEW p \in Path, NEW S \in SUBSET Key,
           NEW x, Is(x, down[e] \o Push(p, S)[e])
    PROVE  x \in Seq(DownMsg) /\ InFlight(pending[e], connected[e], up[e], x)
<1>1. /\ connected[e] \in BOOLEAN /\ up[e] \in Seq(UpMsg) /\ down[e] \in Seq(DownMsg)
      /\ InFlight(pending[e], connected[e], up[e], down[e])
      /\ ~connected[e] => e \notin listeners[p]
  BY DEF FlightInv, Connection
<1>2. CASE e \notin listeners[p]
  <2>1. x = down[e]
    BY <1>1, <1>2 DEF Is, Push
  <2> QED
    BY <2>1, <1>1
<1>3. CASE e \in listeners[p]
  <2>1. connected[e] = TRUE
    BY <1>1, <1>3
  <2>2. PICK m : m = [msg |-> "data", path |-> p, snap |-> S]
    OBVIOUS
  <2>3. m \in DownMsg /\ m.msg # "ack"
    BY <2>2 DEF DownMsg
  <2>4. <<m>> \in Seq(DownMsg) /\ AcksIn(<<m>>) = {}
    BY <2>3 DEF AcksIn
  <2>5. x = down[e] \o <<m>>
    BY <2>2, <1>3 DEF Is, Push
  <2>6. InFlight(pending[e], TRUE, up[e], down[e])
    BY <2>1, <1>1
  <2>7. x \in Seq(DownMsg) /\ InFlight(pending[e], TRUE, up[e], x)
    BY ONLY <1>1, <2>4, <2>5, <2>6, AddData
  <2> QED
    BY <2>1, <2>7
<1> QED
  BY <1>2, <1>3

LEMMA ServerRemoteEffect ==
    ASSUME FlightInv, NEW w \in Write, ServerRemote(w)
    PROVE  /\ FlightInv' /\ \A e \in Device : Unmoved(e)
           /\ server' = [server EXCEPT ![w.path] = Applied(w, server[w.path])]
           /\ mine' = [e \in Device |-> mine[e] \ Removed(w)]
           /\ UNCHANGED gone
<1>1. PICK p \in Path : p = w.path
  BY WriteFacts
<1>2. PICK S \in SUBSET Key : S = Applied(w, server[p])
  BY WriteFacts DEF FlightInv
<1>3. /\ server' = [server EXCEPT ![p] = S]
      /\ down' = [e \in Device |-> down[e] \o Push(p, S)[e]]
      /\ mine' = [e \in Device |-> mine[e] \ Removed(w)]
      /\ UNCHANGED <<pending, putCounter, connected, up, listeners, gone>>
  BY <1>1, <1>2 DEF ServerRemote, clientVars
<1>4. ASSUME NEW e \in Device
      PROVE  /\ down'[e] \in Seq(DownMsg)
             /\ InFlight(pending[e], connected[e], up[e], down'[e])
  <2>1. Is(down'[e], down[e] \o Push(p, S)[e])
    BY <1>3 DEF Is
  <2> QED
    BY <2>1, PushEffect
<1>5. ASSUME NEW e \in Device
      PROVE  Connection(e)' /\ Unmoved(e)
  BY <1>3, <1>4 DEF FlightInv, Connection, Unmoved, OutstandingPuts, ToGo
<1>6. /\ down' \in [Device -> Seq(DownMsg)] /\ server' \in [Path -> SUBSET Key]
      /\ mine' \in [Device -> SUBSET (Path \X Key)]
  BY <1>3, <1>4 DEF FlightInv
<1>7. FlightInv'
  BY <1>3, <1>5, <1>6 DEF FlightInv
<1> QED
  BY <1>1, <1>2, <1>3, <1>5, <1>7

LEMMA ServerPutEffect ==
    ASSUME FlightInv, NEW d \in Device, ServerPut(d)
    PROVE  /\ FlightInv'
           /\ \A e \in Device : e # d => Unmoved(e)
           /\ UNCHANGED gone
           /\ \E w \in Write :
                 /\ Handled(d, w)
                 /\ server' = [server EXCEPT ![w.path] = Applied(w, server[w.path])]
                 /\ mine' = [e \in Device |-> IF e = d THEN mine[e] ELSE mine[e] \ Removed(w)]
<1>1. PICK n : Is(n, Head(up[d]).id)
  BY DEF Is
<1>2. PICK w : w = Head(up[d]).write /\ Is(w, Head(up[d]).write)
  BY DEF Is
<1>3. PICK u : Is(u, Tail(up[d]))
  BY DEF Is
<1>4. /\ up[d] # << >> /\ Head(up[d]).msg = "put"
      /\ UNCHANGED <<pending, putCounter, connected, listeners, gone>>
  BY DEF ServerPut, clientVars
<1>5. /\ connected[d] = TRUE /\ IsTable(pending[d])
      /\ up[d] \in Seq(UpMsg) /\ down[d] \in Seq(DownMsg)
      /\ InFlight(pending[d], TRUE, up[d], down[d])
      /\ ToGo(d) = Unhandled(pending[d], TRUE, up[d])
  BY <1>4, Connected
<1>6. w \in Write
  <2>1. Head(up[d]) \in UpMsg
    BY <1>4, <1>5
  <2> QED
    BY <2>1, <1>2, <1>4 DEF UpMsg
<1>7. PICK p \in Path : p = w.path
  BY <1>6, WriteFacts
<1>8. PICK S \in SUBSET Key : S = Applied(w, server[p])
  BY <1>6, WriteFacts DEF FlightInv
<1>9. /\ server' = [server EXCEPT ![p] = S]
      /\ down' = [e \in Device |-> down[e] \o Push(p, S)[e] \o
                     IF e = d THEN <<AckMsg(n, "ok")>> ELSE << >>]
      /\ mine' = [e \in Device |-> IF e = d THEN mine[e] ELSE mine[e] \ Removed(w)]
      /\ up' = [up EXCEPT ![d] = u]
  BY <1>1, <1>2, <1>3, <1>7, <1>8 DEF Is, ServerPut
<1>10. PICK v : Is(v, down[d] \o Push(p, S)[d])
  BY DEF Is
<1>11. v \in Seq(DownMsg) /\ InFlight(pending[d], TRUE, up[d], v)
  <2>1. v \in Seq(DownMsg) /\ InFlight(pending[d], connected[d], up[d], v)
    BY <1>10, PushEffect
  <2> QED
    BY <2>1, <1>5
<1>12. Is(down'[d], Append(v, AckMsg(n, "ok")))
  <2>1. down'[d] = v \o <<AckMsg(n, "ok")>>
    BY <1>9, <1>10 DEF Is
  <2> QED
    BY <2>1, <1>11 DEF Is
<1>13. Serves(pending[d], up[d], v, n, w, "ok", down'[d], u)
  BY <1>1, <1>2, <1>3, <1>4, <1>5, <1>11, <1>12 DEF Serves
<1>14. /\ u \in Seq(UpMsg) /\ down'[d] \in Seq(DownMsg)
       /\ InFlight(pending[d], TRUE, u, down'[d])
       /\ n \in Unhandled(pending[d], TRUE, up[d])
       /\ \A i \in Unhandled(pending[d], TRUE, up[d]) : n <= i
       /\ pending[d][n].write = w
       /\ Unhandled(pending[d], TRUE, u) = Unhandled(pending[d], TRUE, up[d]) \ {n}
  <2>1. Served(pending[d], up[d], n, w, down'[d], u)
    BY ONLY <1>13, ServePut
  <2> QED
    BY ONLY <2>1 DEF Served
<1>15. ASSUME NEW e \in Device, e # d
       PROVE  /\ down'[e] \in Seq(DownMsg)
              /\ InFlight(pending[e], connected[e], up[e], down'[e])
  <2>1. PICK x : Is(x, down[e] \o Push(p, S)[e])
    BY DEF Is
  <2>2. x \in Seq(DownMsg) /\ InFlight(pending[e], connected[e], up[e], x)
    BY <2>1, PushEffect
  <2>3. down'[e] = x \o << >>
    BY <1>9, <1>15, <2>1 DEF Is
  <2> QED
    BY <2>2, <2>3
<1>16. /\ With(pending, pending', d, pending[d]) /\ With(putCounter, putCounter', d, putCounter[d])
       /\ With(connected, connected', d, TRUE) /\ With(up, up', d, u)
       /\ connected' \in [Device -> BOOLEAN] /\ up' \in [Device -> Seq(UpMsg)]
       /\ putCounter' \in [Device -> Nat] /\ putCounter[d] \in Nat
  BY <1>4, <1>5, <1>9, <1>14 DEF With, FlightInv
<1>17. down' \in [Device -> Seq(DownMsg)]
  BY <1>9, <1>14, <1>15
<1>18. /\ server' \in [Path -> SUBSET Key] /\ listeners' \in [Path -> SUBSET Device]
       /\ \A e \in Device : \A q \in Path : e # d /\ e \in listeners'[q] => e \in listeners[q]
       /\ mine' \in [Device -> SUBSET (Path \X Key)] /\ gone' \in [Device -> SUBSET (Path \X Key)]
  BY <1>4, <1>9 DEF FlightInv
<1>19. \A i \in DOMAIN pending[d] : i < putCounter[d]
  BY DEF FlightInv, Connection
<1>20. StepsTo(d, pending[d], putCounter[d], TRUE, u)
  BY <1>5, <1>14, <1>15, <1>16, <1>17, <1>18, <1>19 DEF StepsTo
<1>21. /\ FlightInv'
       /\ \A e \in Device : e # d => Unmoved(e)
       /\ OutstandingPuts(d)' = Out(pending[d])
       /\ ToGo(d)' = Unhandled(pending[d], TRUE, u)
  BY ONLY FlightInv, d \in Device, <1>20, DeviceStep
<1>22. Handled(d, w)
  BY <1>4, <1>5, <1>14, <1>21 DEF Handled, OutstandingPuts, Out
<1> QED
  BY <1>4, <1>6, <1>7, <1>8, <1>9, <1>21, <1>22

-----------------------------------------------------------------------------
(***************************************************************************)
(* What becomes of a child that a device made, or made and removed.        *)
(***************************************************************************)

Removes(w, p, k) == w.op # "set" /\ Touches(w, p, k)

\* A child that d made and nobody removed is on the server or on its way there, and
\* no outstanding put of d removes it for good: one that makes it follows.
KeptAt(d, p, k) ==
    <<p, k>> \in mine[d] =>
        /\ \A i \in OutstandingPuts(d) :
              Removes(pending[d][i].write, p, k) =>
                  \E j \in OutstandingPuts(d) : i < j /\ pending[d][j].write = SetValue(p, k)
        /\ k \notin server[p] => \E j \in ToGo(d) : pending[d][j].write = SetValue(p, k)

\* A child that d made and removed is not on the server, or its removal is on its way
\* there, and no outstanding put of d brings it back for good: one that removes it
\* follows.
UndoneAt(d, p, k) ==
    <<p, k>> \in gone[d] =>
        /\ \A i \in OutstandingPuts(d) :
              pending[d][i].write = SetValue(p, k) =>
                  \E j \in OutstandingPuts(d) : i < j /\ Removes(pending[d][j].write, p, k)
        /\ k \in server[p] => \E j \in ToGo(d) : Removes(pending[d][j].write, p, k)

\* Removals and the children they take, and what a write does to the server.
LEMMA RemovesFacts ==
    ASSUME NEW w \in Write, NEW p \in Path, NEW k \in Key
    PROVE  /\ Removes(w, p, k) <=> <<p, k>> \in Removed(w)
           /\ ~Removes(SetValue(p, k), p, k)
           /\ w.op = "set" => Removed(w) = {}
           /\ w.op = "set" /\ w # SetValue(p, k) => <<w.path, w.key>> # <<p, k>>
           /\ SetValue(p, k).op = "set" /\ SetValue(p, k).path = p /\ SetValue(p, k).key = k
BY WriteFacts DEF Removes, Removed, SetValue

LEMMA ServerWrites ==
    ASSUME server \in [Path -> SUBSET Key], NEW w \in Write, NEW p \in Path, NEW k \in Key,
           server' = [server EXCEPT ![w.path] = Applied(w, server[w.path])]
    PROVE  /\ w = SetValue(p, k) => k \in server'[p]
           /\ Removes(w, p, k) => k \notin server'[p]
           /\ w # SetValue(p, k) /\ ~Removes(w, p, k) => (k \in server'[p] <=> k \in server[p])
<1>1. w.path \in Path /\ w.op \in {"set", "remove", "clear"}
  BY WriteFacts
<1>2. CASE w.op = "set"
  <2>1. w.key \in Key /\ w = SetValue(w.path, w.key)
    BY <1>2, WriteFacts
  <2>2. server'[w.path] = server[w.path] \cup {w.key}
    BY <1>1, <1>2 DEF Applied
  <2> QED
    BY <1>1, <1>2, <2>1, <2>2 DEF SetValue, Removes
<1>3. CASE w.op = "remove"
  <2>1. server'[w.path] = server[w.path] \ {w.key}
    BY <1>1, <1>3 DEF Applied
  <2> QED
    BY <1>1, <1>3, <2>1 DEF SetValue, Removes, Touches
<1>4. CASE w.op = "clear"
  <2>1. server'[w.path] = {}
    BY <1>1, <1>4 DEF Applied
  <2> QED
    BY <1>1, <1>4, <2>1 DEF SetValue, Removes, Touches
<1> QED
  BY <1>1, <1>2, <1>3, <1>4

\* The puts of d are left alone.
LEMMA KeptUnmoved ==
    ASSUME NEW d, NEW p, NEW k, KeptAt(d, p, k), Unmoved(d),
           <<p, k>> \in mine'[d] => <<p, k>> \in mine[d] /\ (k \in server[p] => k \in server'[p]),
           ToGo(d) \subseteq OutstandingPuts(d)
    PROVE  KeptAt(d, p, k)'
BY DEF KeptAt, Unmoved

LEMMA UndoneUnmoved ==
    ASSUME NEW d, NEW p, NEW k, UndoneAt(d, p, k), Unmoved(d),
           <<p, k>> \in gone'[d] => <<p, k>> \in gone[d] /\ (k \in server'[p] => k \in server[p]),
           ToGo(d) \subseteq OutstandingPuts(d)
    PROVE  UndoneAt(d, p, k)'
BY DEF UndoneAt, Unmoved

\* All of them are to go again.
LEMMA KeptOver ==
    ASSUME NEW d, NEW p, NEW k, KeptAt(d, p, k), StartsOver(d), UNCHANGED <<server, mine>>,
           ToGo(d) \subseteq OutstandingPuts(d)
    PROVE  KeptAt(d, p, k)'
BY DEF KeptAt, StartsOver

LEMMA UndoneOver ==
    ASSUME NEW d, NEW p, NEW k, UndoneAt(d, p, k), StartsOver(d), UNCHANGED <<server, gone>>,
           ToGo(d) \subseteq OutstandingPuts(d)
    PROVE  UndoneAt(d, p, k)'
BY DEF UndoneAt, StartsOver

\* The oldest is answered.
LEMMA KeptAnswered ==
    ASSUME FlightInv, NEW d \in Device, NEW p, NEW k, KeptAt(d, p, k), Answered(d),
           UNCHANGED <<server, mine>>
    PROVE  KeptAt(d, p, k)'
<1>1. /\ OutstandingPuts(d) \subseteq Nat /\ ToGo(d) \subseteq OutstandingPuts(d)
  BY PutsInOrder
<1>2. PICK n \in OutstandingPuts(d) \ ToGo(d) :
        /\ \A i \in OutstandingPuts(d) : n <= i
        /\ OutstandingPuts(d)' = OutstandingPuts(d) \ {n}
        /\ ToGo(d)' = ToGo(d)
        /\ \A i \in OutstandingPuts(d) \ {n} : pending'[d][i].write = pending[d][i].write
  BY DEF Answered
<1>3. \A i, j \in OutstandingPuts(d) : i < j => j # n
  BY <1>1, <1>2
<1> QED
  BY <1>1, <1>2, <1>3 DEF KeptAt

LEMMA UndoneAnswered ==
    ASSUME FlightInv, NEW d \in Device, NEW p, NEW k, UndoneAt(d, p, k), Answered(d),
           UNCHANGED <<server, gone>>
    PROVE  UndoneAt(d, p, k)'
<1>1. /\ OutstandingPuts(d) \subseteq Nat /\ ToGo(d) \subseteq OutstandingPuts(d)
  BY PutsInOrder
<1>2. PICK n \in OutstandingPuts(d) \ ToGo(d) :
        /\ \A i \in OutstandingPuts(d) : n <= i
        /\ OutstandingPuts(d)' = OutstandingPuts(d) \ {n}
        /\ ToGo(d)' = ToGo(d)
        /\ \A i \in OutstandingPuts(d) \ {n} : pending'[d][i].write = pending[d][i].write
  BY DEF Answered
<1>3. \A i, j \in OutstandingPuts(d) : i < j => j # n
  BY <1>1, <1>2
<1> QED
  BY <1>1, <1>2, <1>3 DEF UndoneAt

\* A put is made.
LEMMA KeptEntered ==
    ASSUME FlightInv, NEW d \in Device, NEW p \in Path, NEW k \in Key, KeptAt(d, p, k),
           NEW w \in Write, Entered(d, w), RecordWrite(d, w), UNCHANGED server
    PROVE  KeptAt(d, p, k)'
<1>1. /\ OutstandingPuts(d) \subseteq Nat /\ ToGo(d) \subseteq OutstandingPuts(d)
  BY PutsInOrder
<1>2. PICK n \in Nat :
        /\ \A i \in OutstandingPuts(d) : i < n
        /\ OutstandingPuts(d)' = OutstandingPuts(d) \cup {n}
        /\ ToGo(d)' = ToGo(d) \cup {n}
        /\ pending'[d][n].write = w
        /\ \A i \in OutstandingPuts(d) : pending'[d][i].write = pending[d][i].write
  BY DEF Entered
<1>3. CASE w = SetValue(p, k)
  BY <1>1, <1>2, <1>3, RemovesFacts DEF KeptAt
<1>4. CASE w # SetValue(p, k)
  <2>1. SUFFICES ASSUME <<p, k>> \in mine'[d]
                 PROVE  KeptAt(d, p, k)'
    BY DEF KeptAt
  <2>2. <<p, k>> \in mine[d] /\ ~Removes(w, p, k)
    <3>1. mine'[d] = IF w.op = "set" THEN mine[d] \cup {<<w.path, w.key>>}
                                     ELSE mine[d] \ Removed(w)
      BY DEF RecordWrite, FlightInv
    <3>2. CASE w.op = "set"
      <4>1. <<p, k>> # <<w.path, w.key>>
        BY <1>4, <3>2, RemovesFacts
      <4> QED
        BY <2>1, <3>1, <3>2, <4>1 DEF Removes
    <3>3. CASE w.op # "set"
      BY <2>1, <3>1, <3>3, RemovesFacts
    <3> QED
      BY <3>2, <3>3
  <2> QED
    BY <1>1, <1>2, <2>2 DEF KeptAt
<1> QED
  BY <1>3, <1>4

LEMMA UndoneEntered ==
    ASSUME FlightInv, NEW d \in Device, NEW p \in Path, NEW k \in Key, UndoneAt(d, p, k),
           NEW w \in Write, Entered(d, w), RecordWrite(d, w), UNCHANGED server,
           w = SetValue(p, k) => <<p, k>> \notin gone[d]
    PROVE  UndoneAt(d, p, k)'
<1>1. /\ OutstandingPuts(d) \subseteq Nat /\ ToGo(d) \subseteq OutstandingPuts(d)
  BY PutsInOrder
<1>2. PICK n \in Nat :
        /\ \A i \in OutstandingPuts(d) : i < n
        /\ OutstandingPuts(d)' = OutstandingPuts(d) \cup {n}
        /\ ToGo(d)' = ToGo(d) \cup {n}
        /\ pending'[d][n].write = w
        /\ \A i \in OutstandingPuts(d) : pending'[d][i].write = pending[d][i].write
  BY DEF Entered
<1>3. CASE Removes(w, p, k)
  BY <1>1, <1>2, <1>3, RemovesFacts DEF UndoneAt
<1>4. CASE ~Removes(w, p, k)
  <2>1. SUFFICES ASSUME <<p, k>> \in gone'[d]
                 PROVE  UndoneAt(d, p, k)'
    BY DEF UndoneAt
  <2>2. <<p, k>> \in gone[d] /\ w # SetValue(p, k)
    BY <2>1, <1>4, RemovesFacts DEF RecordWrite, FlightInv
  <2> QED
    BY <1>1, <1>2, <2>2 DEF UndoneAt
<1> QED
  BY <1>3, <1>4

\* The oldest that is to go reaches the server, which does it or refuses.
LEMMA KeptHandled ==
    ASSUME FlightInv, NEW d \in Device, NEW p \in Path, NEW k \in Key, KeptAt(d, p, k),
           NEW w \in Write, Handled(d, w),
           \/ /\ server' = [server EXCEPT ![w.path] = Applied(w, server[w.path])]
              /\ mine'[d] = mine[d]
           \/ UNCHANGED server /\ mine'[d] = mine[d] \ {<<w.path, w.key>>}
    PROVE  KeptAt(d, p, k)'
<1>1. /\ OutstandingPuts(d) \subseteq Nat /\ ToGo(d) \subseteq OutstandingPuts(d)
      /\ \A i \in OutstandingPuts(d) \ ToGo(d) : \A j \in ToGo(d) : i < j
  BY PutsInOrder
<1>2. PICK n \in ToGo(d) :
        /\ \A i \in ToGo(d) : n <= i
        /\ pending[d][n].write = w
        /\ OutstandingPuts(d)' = OutstandingPuts(d)
        /\ ToGo(d)' = ToGo(d) \ {n}
        /\ \A i \in OutstandingPuts(d) : pending'[d][i].write = pending[d][i].write
  BY DEF Handled
<1>3. SUFFICES ASSUME <<p, k>> \in mine'[d], <<p, k>> \in mine[d]
               PROVE  KeptAt(d, p, k)'
  BY DEF KeptAt
<1>4. \A i \in OutstandingPuts(d) :
          Removes(pending[d][i].write, p, k) =>
              \E j \in OutstandingPuts(d) : i < j /\ pending[d][j].write = SetValue(p, k)
  BY <1>3 DEF KeptAt
<1>5. k \notin server'[p] => \E j \in ToGo(d) \ {n} : pending[d][j].write = SetValue(p, k)
  <2>1. CASE Removes(w, p, k)
    <3>1. PICK j \in OutstandingPuts(d) : n < j /\ pending[d][j].write = SetValue(p, k)
      BY <1>1, <1>2, <1>4, <2>1
    <3>2. j \in ToGo(d) /\ j # n
      BY <1>1, <3>1
    <3> QED
      BY <3>1, <3>2
  <2>2. CASE w = SetValue(p, k)
    <3>1. server' = [server EXCEPT ![w.path] = Applied(w, server[w.path])]
      BY <1>3, <2>2, RemovesFacts
    <3> QED
      BY <3>1, <2>2, ServerWrites DEF FlightInv
  <2>3. CASE ~Removes(w, p, k) /\ w # SetValue(p, k)
    <3>1. k \in server'[p] <=> k \in server[p]
      BY <2>3, ServerWrites DEF FlightInv
    <3> QED
      BY <1>2, <1>3, <2>3, <3>1 DEF KeptAt
  <2> QED
    BY <2>1, <2>2, <2>3
<1> QED
  BY <1>1, <1>2, <1>4, <1>5 DEF KeptAt

LEMMA UndoneHandled ==
    ASSUME FlightInv, NEW d \in Device, NEW p \in Path, NEW k \in Key, UndoneAt(d, p, k),
           NEW w \in Write, Handled(d, w),
           \/ /\ server' = [server EXCEPT ![w.path] = Applied(w, server[w.path])]
              /\ gone'[d] = gone[d]
           \/ UNCHANGED server /\ gone'[d] = gone[d] \ Removed(w)
    PROVE  UndoneAt(d, p, k)'
<1>1. /\ OutstandingPuts(d) \subseteq Nat /\ ToGo(d) \subseteq OutstandingPuts(d)
      /\ \A i \in OutstandingPuts(d) \ ToGo(d) : \A j \in ToGo(d) : i < j
  BY PutsInOrder
<1>2. PICK n \in ToGo(d) :
        /\ \A i \in ToGo(d) : n <= i
        /\ pending[d][n].write = w
        /\ OutstandingPuts(d)' = OutstandingPuts(d)
        /\ ToGo(d)' = ToGo(d) \ {n}
        /\ \A i \in OutstandingPuts(d) : pending'[d][i].write = pending[d][i].write
  BY DEF Handled
<1>3. SUFFICES ASSUME <<p, k>> \in gone'[d], <<p, k>> \in gone[d]
               PROVE  UndoneAt(d, p, k)'
  BY DEF UndoneAt
<1>4. \A i \in OutstandingPuts(d) :
          pending[d][i].write = SetValue(p, k) =>
              \E j \in OutstandingPuts(d) : i < j /\ Removes(pending[d][j].write, p, k)
  BY <1>3 DEF UndoneAt
<1>5. k \in server'[p] => \E j \in ToGo(d) \ {n} : Removes(pending[d][j].write, p, k)
  <2>1. CASE w = SetValue(p, k)
    <3>1. PICK j \in OutstandingPuts(d) : n < j /\ Removes(pending[d][j].write, p, k)
      BY <1>1, <1>2, <1>4, <2>1
    <3>2. j \in ToGo(d) /\ j # n
      BY <1>1, <3>1
    <3> QED
      BY <3>1, <3>2
  <2>2. CASE Removes(w, p, k)
    <3>1. server' = [server EXCEPT ![w.path] = Applied(w, server[w.path])]
      BY <1>3, <2>2, RemovesFacts
    <3> QED
      BY <3>1, <2>2, ServerWrites DEF FlightInv
  <2>3. CASE ~Removes(w, p, k) /\ w # SetValue(p, k)
    <3>1. k \in server'[p] <=> k \in server[p]
      BY <2>3, ServerWrites DEF FlightInv
    <3> QED
      BY <1>2, <1>3, <2>3, <3>1 DEF UndoneAt
  <2> QED
    BY <2>1, <2>2, <2>3
<1> QED
  BY <1>1, <1>2, <1>4, <1>5 DEF UndoneAt

-----------------------------------------------------------------------------
(***************************************************************************)
(* The queues.  R is the set of requests of the callers, B the other       *)
(* blocks they put on the main queue.                                      *)
(***************************************************************************)

CallOf(R) ==
    [call : {"put"}, write : Write]
      \cup [call : {"observe"}, path : Path, request : R]
      \cup [call : {"removeObserver"}, path : Path]

EventOf(R) == [block : {"value"}, path : Path, request : R, snap : SUBSET Key]

QueuesOK(R, B) ==
    /\ calls \in [Device -> Seq(CallOf(R))]
    /\ waiting \in [Device -> [Path -> Seq(R)]]
    /\ mainq \in [Device -> Seq(EventOf(R) \cup B)]

LEMMA CallsAreOK ==
    ASSUME NEW R, NEW B, QueuesOK(R, B), NEW d \in Device
    PROVE  CallIsOK(d)
<1>1. SUFFICES ASSUME calls[d] # << >>
               PROVE  /\ Head(calls[d]).call = "put" => Head(calls[d]).write \in Write
                      /\ Head(calls[d]).call \in {"observe", "removeObserver"}
                            => Head(calls[d]).path \in Path
  BY DEF CallIsOK
<1>2. Head(calls[d]) \in CallOf(R)
  BY <1>1 DEF QueuesOK
<1> QED
  BY <1>2 DEF CallOf

\* The events of a list of requests.
LEMMA EventsOK ==
    ASSUME NEW R, NEW B, NEW p \in Path, NEW q \in Seq(R), NEW S \in SUBSET Key,
           NEW m \in Seq(EventOf(R) \cup B)
    PROVE  m \o Events(p, q, S) \in Seq(EventOf(R) \cup B)
<1>1. \A i \in DOMAIN q : Event(p, q[i], S) \in EventOf(R)
  BY DEF Event, EventOf
<1>2. Events(p, q, S) \in Seq(EventOf(R) \cup B)
  BY <1>1 DEF Events
<1> QED
  BY <1>2

LEMMA SnapTypes ==
    ASSUME NEW R, NEW B, QueuesOK(R, B), NEW d \in Device, NEW p \in Path, NEW S,
           ReceiveSnap(d, p, S), UNCHANGED calls
    PROVE  QueuesOK(R, B)'
<1>1. Overlay(pending[d], p, S) \in SUBSET Key
  BY DEF Overlay
<1>2. mainq[d] \o Events(p, waiting[d][p], Overlay(pending[d], p, S)) \in Seq(EventOf(R) \cup B)
  BY <1>1, EventsOK DEF QueuesOK
<1>3. << >> \in Seq(R)
  OBVIOUS
<1>4. CASE observers[d][p] = 0
  BY <1>4 DEF ReceiveSnap, QueuesOK
<1>5. CASE observers[d][p] # 0
  <2>1. /\ waiting' = [waiting EXCEPT ![d][p] = << >>]
        /\ mainq' = [mainq EXCEPT ![d] = @ \o Events(p, waiting[d][p], Overlay(pending[d], p, S))]
    BY <1>5 DEF ReceiveSnap
  <2>2. waiting' \in [Device -> [Path -> Seq(R)]]
    BY <2>1, <1>3 DEF QueuesOK
  <2>3. mainq' \in [Device -> Seq(EventOf(R) \cup B)]
    BY <2>1, <1>2 DEF QueuesOK
  <2> QED
    BY <2>2, <2>3 DEF QueuesOK
<1> QED
  BY <1>4, <1>5

\* The steps of a client keep its queues in order.
LEMMA ClientTypes ==
    ASSUME NEW R, NEW B, QueuesOK(R, B), FlightInv, NEW d \in Device, ClientStep(d)
    PROVE  QueuesOK(R, B)'
<1>1. CallIsOK(d)
  BY CallsAreOK
<1>2. calls[d] # << >> => Tail(calls[d]) \in Seq(CallOf(R))
  BY DEF QueuesOK
<1>3. CASE RunPut(d)
  <2>1. PICK w \in Write : w = Head(calls[d]).write
    BY <1>1, <1>3 DEF RunPut, CallIsOK
  <2>2. PICK P : P = WithPut(pending[d], putCounter[d], w)
    OBVIOUS
  <2>3. PICK p \in Path : p = w.path
    BY WriteFacts
  <2>4. PICK q : q = IF w.op = "clear" THEN waiting[d][p] ELSE << >>
    OBVIOUS
  <2>5. /\ calls[d] # << >> /\ calls' = [calls EXCEPT ![d] = Tail(@)]
        /\ mainq' = [mainq EXCEPT ![d] = @ \o Events(p, q, Overlay(P, p, cache[d][p]))]
        /\ waiting' = [waiting EXCEPT ![d][p] = IF w.op = "clear" THEN << >> ELSE @]
    BY <1>3, <2>1, <2>2, <2>3, <2>4 DEF RunPut
  <2>6. q \in Seq(R) /\ Overlay(P, p, cache[d][p]) \in SUBSET Key
    BY <2>4 DEF QueuesOK, Overlay
  <2>7. mainq[d] \o Events(p, q, Overlay(P, p, cache[d][p])) \in Seq(EventOf(R) \cup B)
    BY <2>6, EventsOK DEF QueuesOK
  <2>8. calls' \in [Device -> Seq(CallOf(R))]
    BY <2>5, <1>2 DEF QueuesOK
  <2>9. mainq' \in [Device -> Seq(EventOf(R) \cup B)]
    BY <2>5, <2>7 DEF QueuesOK
  <2>10. waiting' \in [Device -> [Path -> Seq(R)]]
    BY <2>5 DEF QueuesOK
  <2> QED
    BY <2>8, <2>9, <2>10 DEF QueuesOK
<1>4. CASE RunObserve(d)
  <2>1. PICK p \in Path, r \in R : p = Head(calls[d]).path /\ r = Head(calls[d]).request
    <3>1. Head(calls[d]) \in CallOf(R) /\ Head(calls[d]).call = "observe"
      BY <1>4 DEF RunObserve, QueuesOK
    <3> QED
      BY <3>1 DEF CallOf
  <2>2. /\ calls[d] # << >> /\ calls' = [calls EXCEPT ![d] = Tail(@)]
        /\ \/ /\ mainq' = [mainq EXCEPT ![d] = Append(@, Event(p, r, View(d, p)))]
              /\ UNCHANGED waiting
           \/ /\ waiting' = [waiting EXCEPT ![d][p] = Append(@, r)]
              /\ UNCHANGED mainq
    BY <1>4, <2>1 DEF RunObserve
  <2>3. Event(p, r, View(d, p)) \in EventOf(R)
    BY DEF Event, EventOf, View, Overlay
  <2>4. calls' \in [Device -> Seq(CallOf(R))]
    BY <2>2, <1>2 DEF QueuesOK
  <2>5. mainq' \in [Device -> Seq(EventOf(R) \cup B)]
    <3>1. Append(mainq[d], Event(p, r, View(d, p))) \in Seq(EventOf(R) \cup B)
      BY <2>3 DEF QueuesOK
    <3> QED
      BY <2>2, <3>1 DEF QueuesOK
  <2>6. waiting' \in [Device -> [Path -> Seq(R)]]
    <3>1. Append(waiting[d][p], r) \in Seq(R)
      BY DEF QueuesOK
    <3>2. PICK x : x = Append(waiting[d][p], r)
      OBVIOUS
    <3>3. UNCHANGED waiting \/ waiting' = [waiting EXCEPT ![d][p] = x]
      BY <2>2, <3>2
    <3>4. x \in Seq(R) /\ waiting \in [Device -> [Path -> Seq(R)]]
      BY <3>1, <3>2 DEF QueuesOK
    <3>5. waiting' = [waiting EXCEPT ![d][p] = x] => waiting' \in [Device -> [Path -> Seq(R)]]
      BY ONLY <3>4, p \in Path, d \in Device
    <3> QED
      BY ONLY <3>3, <3>4, <3>5
  <2> QED
    BY <2>4, <2>5, <2>6 DEF QueuesOK
<1>5. CASE RunRemoveObserver(d)
  BY <1>2, <1>5 DEF RunRemoveObserver, QueuesOK
<1>6. CASE ReceiveListened(d) \/ ReceiveData(d)
  <2>1. PICK p, S : p = Head(down[d]).path /\ S = Head(down[d]).snap
    OBVIOUS
  <2>2. ReceiveSnap(d, p, S) /\ UNCHANGED calls
    BY <1>6, <2>1 DEF ReceiveListened, ReceiveData
  <2>3. p \in Path
    <3>1. Head(down[d]) \in DownMsg
      BY <1>6 DEF ReceiveListened, ReceiveData, FlightInv
    <3> QED
      BY <1>6, <2>1, <3>1 DEF ReceiveListened, ReceiveData, DownMsg
  <2> QED
    BY <2>2, <2>3, SnapTypes
<1>7. CASE ReceiveAck(d)
  BY <1>7 DEF ReceiveAck, QueuesOK
<1> QED
  BY <1>3, <1>4, <1>5, <1>6, <1>7 DEF ClientStep
=============================================================================
