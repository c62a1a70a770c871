---------------------------- MODULE SessionProofs ---------------------------
(***************************************************************************)
(* The location service and the session that uses it.  For any number of   *)
(* requests: Location never leaves a group twice, never completes with an  *)
(* old position and completes in the order of the requests.  Launches,     *)
(* logins and sign-outs use Location.shared the way Location is specified, *)
(* so what is proved of Location holds of the composition, for any number  *)
(* of accounts, sign-ins and sign-outs.                                    *)
(***************************************************************************)
EXTENDS Session, SequenceTheorems, TLAPS

-----------------------------------------------------------------------------
(***************************************************************************)
(* Location                                                                *)
(***************************************************************************)
\* The queue of notify blocks holds requests that were made, in their order.
QueueInOrder ==
    /\ \A i \in 1 .. Len(notifyQ) : notifyQ[i] <= made
    /\ \A i, j \in 1 .. Len(notifyQ) : i < j => notifyQ[i] < notifyQ[j]

\* A group that is current is the newest one.  While a fix is owed it has not
\* been left; while it has not been left, everything older comes before it.
GroupIsNewest ==
    /\ group # NoGroup => group = made
    /\ outstanding => made > 0
    /\ group # NoGroup /\ outstanding => count[group] = 1
    /\ group # NoGroup /\ count[group] = 1 =>
          /\ result[group] = NoAnswer
          /\ \A i \in 1 .. Len(notifyQ) : notifyQ[i] < group

\* What was answered was asked before whatever still waits on the main queue.
AnsweredFirst ==
    \A r \in Request : result[r] # NoAnswer =>
        /\ r <= made
        /\ \A i \in 1 .. Len(notifyQ) : r < notifyQ[i]

\* A request remembers a fix that is not newer than the last one, and an older
\* one if its notify block waits: only a fix after the request submits it.
FixAfterRequest ==
    /\ \A r \in Request : reqAt[r] <= location
    /\ \A i \in 1 .. Len(notifyQ) : reqAt[notifyQ[i]] < location

\* The inductive invariant.
LocationInv ==
    /\ TypeOK
    /\ NoUnbalancedLeave
    /\ QueueInOrder
    /\ GroupIsNewest
    /\ AnsweredFirst
    /\ FixAfterRequest
    /\ AnswerIsFresh

-----------------------------------------------------------------------------
\* What submitting a notify block does to the main queue.
LEMMA QueueAppend ==
    ASSUME NEW q \in Seq(Request), NEW r \in Request
    PROVE  /\ Append(q, r) \in Seq(Request)
           /\ Len(Append(q, r)) = Len(q) + 1
           /\ Append(q, r)[Len(q) + 1] = r
           /\ \A i \in 1 .. Len(q) : Append(q, r)[i] = q[i]
  OBVIOUS

\* What running the oldest notify block does to it.
LEMMA QueueTail ==
    ASSUME NEW q \in Seq(Request), q # << >>
    PROVE  /\ Head(q) = q[1]
           /\ 1 \in 1 .. Len(q)
           /\ Head(q) \in Request
           /\ Tail(q) \in Seq(Request)
           /\ Len(Tail(q)) = Len(q) - 1
           /\ \A i \in 1 .. Len(Tail(q)) : Tail(q)[i] = q[i + 1]
  OBVIOUS

\* Location starts in the invariant.
LEMMA InvInit == Init => LocationInv
<1> SUFFICES ASSUME Init PROVE LocationInv
  OBVIOUS
<1>1. TypeOK
  <2>1. /\ outstanding \in BOOLEAN /\ crashed \in BOOLEAN
        /\ authorization \in Authorization
        /\ failed \subseteq Request
    BY DEF Init
  <2>2. notifyQ \in Seq(Request)
    BY DEF Init
  <2>3. made \in 0 .. MaxRequests /\ group \in 0 .. MaxRequests
    BY MaxRequestsAssumption DEF Init, NoGroup
  <2>4. /\ count \in [Request -> 0 .. 1]
        /\ location \in Nat
        /\ result \in [Request -> Nat \cup {NoAnswer}]
        /\ reqAt \in [Request -> Nat]
    BY DEF Init
  <2> QED BY <2>1, <2>2, <2>3, <2>4 DEF TypeOK
<1>2. notifyQ = << >> /\ Len(notifyQ) = 0
  BY DEF Init
<1>3. QueueInOrder /\ AnsweredFirst /\ FixAfterRequest /\ AnswerIsFresh
  BY <1>2 DEF Init, QueueInOrder, AnsweredFirst, FixAfterRequest,
              AnswerIsFresh
<1>4. NoUnbalancedLeave /\ GroupIsNewest
  BY DEF Init, NoUnbalancedLeave, GroupIsNewest
<1> QED BY <1>1, <1>3, <1>4 DEF LocationInv

\* Every step of the main thread keeps the invariant.
LEMMA InvStep == LocationInv /\ [Next]_vars => LocationInv'
<1> SUFFICES ASSUME LocationInv, [Next]_vars
             PROVE  LocationInv'
  OBVIOUS
<1> USE MaxRequestsAssumption
<1>0. /\ TypeOK /\ NoUnbalancedLeave /\ QueueInOrder /\ GroupIsNewest
      /\ AnsweredFirst /\ FixAfterRequest /\ AnswerIsFresh
  BY DEF LocationInv
<1>1. CASE GetCurrentLocation
  <2>1. made + 1 \in Request
    BY <1>0, <1>1 DEF GetCurrentLocation, TypeOK, Request
  <2>2. /\ TypeOK'
        /\ NoUnbalancedLeave'
    BY <1>0, <1>1, <2>1
       DEF GetCurrentLocation, TypeOK, NoUnbalancedLeave, Request
  <2>3. QueueInOrder'
    BY <1>0, <1>1, <2>1, SMTT(20) DEF GetCurrentLocation, TypeOK, QueueInOrder, Request
  <2>4. result[made + 1] = NoAnswer
    BY <1>0, <2>1 DEF TypeOK, AnsweredFirst, Request
  <2>5. GroupIsNewest'
    BY <1>0, <1>1, <2>1, <2>4, SMTT(20)
       DEF GetCurrentLocation, TypeOK, QueueInOrder, GroupIsNewest, Request,
           NoGroup
  <2>6. AnsweredFirst'
    BY <1>0, <1>1, <2>1
       DEF GetCurrentLocation, TypeOK, AnsweredFirst, Request
  <2>7. \A i \in 1 .. Len(notifyQ) : notifyQ[i] \in Request /\ notifyQ[i] # made + 1
    BY <1>0 DEF TypeOK, QueueInOrder, Request
  <2>8. FixAfterRequest'
    BY <1>0, <1>1, <2>1, <2>7
       DEF GetCurrentLocation, TypeOK, FixAfterRequest, Request
  <2>9. AnswerIsFresh'
    BY <1>0, <1>1, <2>1, <2>4
       DEF GetCurrentLocation, TypeOK, AnswerIsFresh
  <2> QED BY <2>2, <2>3, <2>5, <2>6, <2>8, <2>9 DEF LocationInv
<1>2. CASE AnswerPrompt
  BY <1>0, <1>2
     DEF AnswerPrompt, LocationInv, TypeOK, NoUnbalancedLeave, QueueInOrder,
         GroupIsNewest, AnsweredFirst, FixAfterRequest, AnswerIsFresh,
         Authorization
<1>3. CASE DidUpdateLocations
  <2>1. CASE group = NoGroup
    <3>1. /\ location' = location + 1
          /\ outstanding' = FALSE
          /\ UNCHANGED <<made, group, count, notifyQ, authorization, result,
                         crashed, reqAt, failed>>
      BY <1>3, <2>1 DEF DidUpdateLocations, LeaveGroup
    <3>2. TypeOK'
      <4>1. location' \in Nat
        BY <1>0, <3>1 DEF TypeOK
      <4> QED BY <1>0, <3>1, <4>1 DEF TypeOK
    <3>3. NoUnbalancedLeave' /\ QueueInOrder' /\ AnsweredFirst' /\ AnswerIsFresh'
      BY <1>0, <3>1
         DEF NoUnbalancedLeave, QueueInOrder, AnsweredFirst, AnswerIsFresh
    <3>4. GroupIsNewest'
      BY <1>0, <2>1, <3>1 DEF GroupIsNewest
    <3>5. \A i \in 1 .. Len(notifyQ) : reqAt[notifyQ[i]] \in Nat
      BY <1>0 DEF TypeOK
    <3>6. FixAfterRequest'
      BY <1>0, <3>1, <3>5 DEF TypeOK, FixAfterRequest
    <3> QED BY <3>2, <3>3, <3>4, <3>6 DEF LocationInv
  <2>2. CASE group # NoGroup
    <3>1. /\ group \in Request
          /\ group = made
          /\ count[group] = 1
          /\ result[group] = NoAnswer
      BY <1>0, <1>3, <2>2
         DEF DidUpdateLocations, TypeOK, GroupIsNewest, Request, NoGroup
    <3>2. /\ count' = [count EXCEPT ![group] = 0]
          /\ notifyQ' = Append(notifyQ, group)
          /\ location' = location + 1
          /\ outstanding' = FALSE
          /\ UNCHANGED <<made, group, authorization, result, crashed, reqAt,
                         failed>>
      BY <1>3, <2>2, <3>1 DEF DidUpdateLocations, LeaveGroup
    <3>3. /\ notifyQ' \in Seq(Request)
          /\ Len(notifyQ') = Len(notifyQ) + 1
          /\ notifyQ'[Len(notifyQ) + 1] = group
          /\ \A i \in 1 .. Len(notifyQ) : notifyQ'[i] = notifyQ[i]
          /\ Len(notifyQ) \in Nat
          /\ \A i \in 1 .. Len(notifyQ) : notifyQ[i] \in Request
      BY <1>0, <3>1, <3>2, QueueAppend DEF TypeOK
    <3>4. TypeOK' /\ NoUnbalancedLeave'
      <4>1. count' \in [Request -> 0 .. 1] /\ location' \in Nat
        BY <1>0, <3>1, <3>2 DEF TypeOK
      <4> QED BY <1>0, <3>2, <3>3, <4>1 DEF TypeOK, NoUnbalancedLeave
    <3>5. \A i \in 1 .. Len(notifyQ') :
             i \in 1 .. Len(notifyQ) \/ i = Len(notifyQ) + 1
      BY <3>3
    <3>6. QueueInOrder'
      <4>1. \A i \in 1 .. Len(notifyQ) : notifyQ[i] < group /\ notifyQ[i] <= made
        BY <1>0, <2>2, <3>1 DEF QueueInOrder, GroupIsNewest
      <4>2. \A i \in 1 .. Len(notifyQ') : notifyQ'[i] <= made'
        BY <1>0, <3>1, <3>2, <3>3, <3>5, <4>1 DEF TypeOK
      <4>3. ASSUME NEW i \in 1 .. Len(notifyQ'), NEW j \in 1 .. Len(notifyQ'),
                   i < j
            PROVE  notifyQ'[i] < notifyQ'[j]
        <5>1. i \in 1 .. Len(notifyQ)
          BY <3>3, <4>3
        <5>2. CASE j \in 1 .. Len(notifyQ)
          BY <1>0, <3>3, <4>3, <5>1, <5>2 DEF QueueInOrder
        <5>3. CASE j = Len(notifyQ) + 1
          BY <3>3, <4>1, <5>1, <5>3
        <5> QED BY <3>5, <5>2, <5>3
      <4> QED BY <4>2, <4>3 DEF QueueInOrder
    <3>7. GroupIsNewest'
      BY <1>0, <3>1, <3>2 DEF TypeOK, GroupIsNewest
    <3>8. AnsweredFirst'
      <4> SUFFICES ASSUME NEW r \in Request, result[r] # NoAnswer
                   PROVE  /\ r <= made
                          /\ \A i \in 1 .. Len(notifyQ') : r < notifyQ'[i]
        BY <3>2 DEF AnsweredFirst
      <4>1. r <= made /\ \A i \in 1 .. Len(notifyQ) : r < notifyQ[i]
        BY <1>0 DEF AnsweredFirst
      <4>2. r < group
        BY <1>0, <3>1, <4>1 DEF TypeOK, Request
      <4> QED BY <4>1, <4>2, <3>3, <3>5
    <3>9. FixAfterRequest'
      <4>1. \A r \in Request : reqAt[r] < location'
        BY <1>0, <3>2 DEF TypeOK, FixAfterRequest
      <4>2. \A i \in 1 .. Len(notifyQ') : notifyQ'[i] \in Request
        BY <3>1, <3>3, <3>5
      <4> QED BY <1>0, <3>2, <4>1, <4>2 DEF TypeOK, FixAfterRequest
    <3>10. AnswerIsFresh'
      BY <1>0, <3>2 DEF AnswerIsFresh
    <3> QED BY <3>4, <3>6, <3>7, <3>8, <3>9, <3>10 DEF LocationInv
  <2> QED BY <2>1, <2>2
<1>4. CASE DidFailWithError
  <2>1. made \in Request
    BY <1>0, <1>4 DEF DidFailWithError, TypeOK, GroupIsNewest, Request
  <2>2. TypeOK'
    BY <1>0, <1>4, <2>1 DEF DidFailWithError, TypeOK
  <2>3. GroupIsNewest'
    BY <1>0, <1>4 DEF DidFailWithError, GroupIsNewest
  <2>4. /\ NoUnbalancedLeave' /\ QueueInOrder' /\ AnsweredFirst'
        /\ FixAfterRequest' /\ AnswerIsFresh'
    BY <1>0, <1>4
       DEF DidFailWithError, NoUnbalancedLeave, QueueInOrder, AnsweredFirst,
           FixAfterRequest, AnswerIsFresh
  <2> QED BY <2>2, <2>3, <2>4 DEF LocationInv
<1>5. CASE RunNotify
  <2> DEFINE h == Head(notifyQ)
  <2>1. /\ h = notifyQ[1]
        /\ 1 \in 1 .. Len(notifyQ)
        /\ h \in Request
        /\ notifyQ' \in Seq(Request)
        /\ Len(notifyQ') = Len(notifyQ) - 1
        /\ Len(notifyQ) \in Nat
        /\ \A i \in 1 .. Len(notifyQ') : notifyQ'[i] = notifyQ[i + 1]
    BY <1>0, <1>5, QueueTail DEF RunNotify, TypeOK
  <2>2. /\ result' = [result EXCEPT ![h] = location]
        /\ group' = NoGroup
        /\ UNCHANGED <<made, count, authorization, outstanding, location,
                       crashed, reqAt, failed>>
    BY <1>5 DEF RunNotify
  <2> HIDE DEF h
  <2>3. TypeOK' /\ NoUnbalancedLeave' /\ GroupIsNewest'
    BY <1>0, <2>1, <2>2
       DEF TypeOK, NoUnbalancedLeave, GroupIsNewest, NoGroup
  <2>4. \A i \in 1 .. Len(notifyQ') :
           /\ i + 1 \in 1 .. Len(notifyQ)
           /\ 1 < i + 1
           /\ notifyQ'[i] = notifyQ[i + 1]
    BY <2>1
  <2>5. QueueInOrder'
    BY <1>0, <2>1, <2>2, <2>4, SMTT(20) DEF QueueInOrder
  <2>6. AnsweredFirst'
    BY <1>0, <2>1, <2>2, <2>4 DEF TypeOK, QueueInOrder, AnsweredFirst
  <2>7. FixAfterRequest'
    BY <1>0, <2>1, <2>2, <2>4 DEF FixAfterRequest
  <2>8. AnswerIsFresh'
    BY <1>0, <2>1, <2>2 DEF TypeOK, FixAfterRequest, AnswerIsFresh
  <2> QED BY <2>3, <2>5, <2>6, <2>7, <2>8 DEF LocationInv
<1>6. CASE UNCHANGED vars
  BY <1>0, <1>6
     DEF vars, LocationInv, TypeOK, NoUnbalancedLeave, QueueInOrder,
         GroupIsNewest, AnsweredFirst, FixAfterRequest, AnswerIsFresh
<1> QED BY <1>1, <1>2, <1>3, <1>4, <1>5, <1>6 DEF Next

\* Location.swift stays within the invariant in every behaviour.
THEOREM LocationInvariant == Spec => []LocationInv
  BY InvInit, InvStep, PTL DEF Spec

\* The variables of Location keep their types, for any number of requests.
THEOREM LocationTypes == Spec => []TypeOK
  BY LocationInvariant, PTL DEF LocationInv

\* didUpdateLocations never leaves a group once too often (Location.swift:56).
THEOREM LocationNeverTraps == Spec => []NoUnbalancedLeave
  BY LocationInvariant, PTL DEF LocationInv

\* A completion gets a position found after its request (Location.swift:48).
THEOREM LocationFresh == Spec => []AnswerIsFresh
  BY LocationInvariant, PTL DEF LocationInv

\* Completions are called at most once and in the order of their requests.
THEOREM LocationInOrder == Spec => AnswersInOrder
<1>1. LocationInv /\ [Next]_vars =>
        [\A r \in Request : result'[r] # result[r] =>
            /\ result[r] = NoAnswer
            /\ \A s \in Request : s > r => result[s] = NoAnswer]_vars
  <2> SUFFICES ASSUME LocationInv, [Next]_vars, NEW r \in Request,
                      result'[r] # result[r]
               PROVE  /\ result[r] = NoAnswer
                      /\ \A s \in Request : s > r => result[s] = NoAnswer
    OBVIOUS
  <2>1. CASE RunNotify
    <3>1. /\ notifyQ # << >>
          /\ result' = [result EXCEPT ![Head(notifyQ)] = location]
      BY <2>1 DEF RunNotify
    <3>2. /\ Head(notifyQ) = notifyQ[1]
          /\ 1 \in 1 .. Len(notifyQ)
      BY <3>1, QueueTail DEF LocationInv, TypeOK
    <3>3. r = notifyQ[1]
      BY <3>1, <3>2 DEF LocationInv, TypeOK
    <3>4. \A s \in Request : result[s] # NoAnswer => s < r
      BY <3>2, <3>3 DEF LocationInv, AnsweredFirst
    <3> QED BY <3>4, MaxRequestsAssumption DEF Request
  <2>2. CASE ~RunNotify
    BY <2>2 DEF Next, vars, GetCurrentLocation, AnswerPrompt,
                DidUpdateLocations, DidFailWithError
  <2> QED BY <2>1, <2>2
<1> QED BY <1>1, LocationInvariant, PTL DEF Spec, AnswersInOrder

-----------------------------------------------------------------------------
(***************************************************************************)
(* The session                                                             *)
(***************************************************************************)
Call == [name : Account, sheet : Nat]
Asked == [name : Account, sheet : Nat, after : Nat]
User == [name : Account, fix : Nat]

\* The tab bar makes the first sheet and every sign-out another one, each with
\* the tabs' controller or one of its own.
SheetsInv ==
    /\ phase \in {"launching", "launched", "appeared"}
    /\ signOuts \in 0 .. MaxSignOuts
    /\ sheets \in Seq(Controller)
    /\ Len(sheets) <= signOuts + 1
    /\ phase # "appeared" =>
          sheets = << >> /\ signOuts = 0 /\ asked = << >> /\ signingIn = << >>
    /\ sheet \in 0 .. Len(sheets)
    /\ google \in 0 .. Len(sheets)

\* Who logs in: through a sheet that was there, with a name that was signed in.
LoginsInv ==
    /\ auth \in SomeOf(Account)
    /\ auth # None => auth[1] \in wasAuth
    /\ signingIn \in Seq(Call)
    /\ \A i \in 1 .. Len(signingIn) : signingIn[i].sheet <= Len(sheets)
    /\ asked \in Seq(Asked)
    /\ Len(asked) = made
    /\ \A r \in 1 .. made : /\ asked[r].sheet <= Len(sheets)
                            /\ asked[r].name \in wasAuth
                            /\ asked[r].after <= signOuts

\* What a sign-out leaves: no user of the tabs that was set before it, and no
\* request after it while nobody is signed in.
SignOutInv ==
    /\ users[Shared] # None => setAt = signOuts
    /\ auth = None => \A r \in 1 .. made : asked[r].after < signOuts

SessionInv ==
    /\ LocationInv
    /\ SheetsInv
    /\ LoginsInv
    /\ SignOutInv
    /\ users \in [Controller -> Seq(User)]
    /\ UserIsNewestLogin

-----------------------------------------------------------------------------
\* A step of the screens asks for a position, runs a notify block, or leaves
\* Location.shared alone.
LEMMA SessionStep == [SessionNext]_allVars => [Next]_vars
<1> SUFFICES ASSUME [SessionNext]_allVars
             PROVE  Next \/ UNCHANGED vars
  OBVIOUS
<1>1. CASE DidFinishLaunching \/ SwipeSheet \/ GoogleSignInPressed \/ SignFailed
  BY <1>1 DEF DidFinishLaunching, SwipeSheet, GoogleSignInPressed, SignFailed, vars
<1>2. CASE ViewDidAppear
  BY <1>2 DEF ViewDidAppear, Ask, Next, vars
<1>3. ASSUME NEW a \in Account, Sign(a)
      PROVE  UNCHANGED vars
  BY <1>3 DEF Sign, vars
<1>4. ASSUME NEW i \in 1 .. MaxSignIns, AuthFailed(i)
      PROVE  UNCHANGED vars
  BY <1>4 DEF AuthFailed, vars
<1>5. ASSUME NEW i \in 1 .. MaxSignIns, AuthSucceeded(i)
      PROVE  Next \/ UNCHANGED vars
  BY <1>5 DEF AuthSucceeded, Ask, Next, vars
<1>6. CASE SignOutTapped
  BY <1>6 DEF SignOutTapped, vars
<1>7. CASE RunCompletion
  BY <1>7 DEF RunCompletion, Next
<1>8. CASE LocationStep
  BY <1>8 DEF LocationStep, Next
<1>9. CASE UNCHANGED allVars
  BY <1>9 DEF allVars
<1> QED
  BY <1>1, <1>2, <1>3, <1>4, <1>5, <1>6, <1>7, <1>8, <1>9 DEF SessionNext

\* The session implements Location, but for its fairness: the login screen, the
\* tab bar and the profile reach Location.shared through getCurrentLocation only.
THEOREM SessionImplements == SessionSpec => Init /\ [][Next]_vars
<1>1. SessionInit => Init
  BY DEF SessionInit
<1> QED
  BY <1>1, SessionStep, PTL DEF SessionSpec

\* Overlapping logins, sign-outs and launches never make libdispatch trap, and each
\* login is completed with a position that was found after it asked.
THEOREM SessionSafe == SessionSpec => [](NoUnbalancedLeave /\ AnswerIsFresh)
<1>1. LocationInv => NoUnbalancedLeave /\ AnswerIsFresh
  BY DEF LocationInv
<1> QED
  BY <1>1, SessionImplements, InvInit, InvStep, PTL

-----------------------------------------------------------------------------
\* A request is numbered like the closure that is kept for it.
LEMMA AskStep ==
    ASSUME SessionInv, NEW a \in Account, NEW s \in 0 .. Len(sheets), Ask(a, s)
    PROVE  /\ made' = made + 1 /\ result' = result
           /\ asked' \in Seq(Asked) /\ Len(asked') = made'
           /\ asked'[made'] = [name |-> a, sheet |-> s, after |-> signOuts]
           /\ \A r \in 1 .. made : asked'[r] = asked[r]
<1>1. made' = made + 1 /\ result' = result
  BY DEF Ask, GetCurrentLocation
<1>2. /\ asked \in Seq(Asked) /\ Len(asked) = made
      /\ signOuts \in Nat /\ Len(sheets) \in Nat
  BY SessionAssumption DEF SessionInv, SheetsInv, LoginsInv
<1>3. [name |-> a, sheet |-> s, after |-> signOuts] \in Asked
  BY <1>2 DEF Asked
<1> HIDE DEF Asked
<1> QED
  BY <1>1, <1>2, <1>3 DEF Ask

\* As long as no completion is called, the newest answered login of a controller
\* stays the same, whatever requests and sheets are added.
LEMMA UserKept ==
    ASSUME SessionInv, LocationInv', result' = result, made <= made',
           \A r \in 1 .. made : asked'[r] = asked[r],
           \A s \in 1 .. Len(sheets) : sheets'[s] = sheets[s],
           \A c \in Controller : users'[c] \in {users[c], None},
           wasAuth \subseteq wasAuth'
    PROVE  UserIsNewestLogin'
<1>1. /\ made \in Nat /\ made' \in 0 .. MaxRequests
      /\ \A r \in Request : result[r] # NoAnswer => r <= made
  BY MaxRequestsAssumption DEF SessionInv, LocationInv, TypeOK, AnsweredFirst
<1>2. \A r \in 1 .. made' : result[r] # NoAnswer => r \in 1 .. made
  BY <1>1, MaxRequestsAssumption DEF Request
<1>3. \A r \in 1 .. made :
         /\ asked[r].sheet \in 0 .. Len(sheets)
         /\ asked[r].name \in wasAuth
  <2>1. /\ sheets \in Seq(Controller) /\ asked \in Seq(Asked) /\ Len(asked) = made
        /\ \A r \in 1 .. made : asked[r].sheet <= Len(sheets) /\ asked[r].name \in wasAuth
    BY DEF SessionInv, SheetsInv, LoginsInv
  <2>2. \A r \in 1 .. made : asked[r] \in Asked
    BY <2>1
  <2> QED
    BY <2>1, <2>2 DEF Asked
<1>4. \A r \in 1 .. made :
         ControllerOf(asked[r].sheet)' = ControllerOf(asked[r].sheet)
  BY <1>3 DEF ControllerOf, NoSheet
<1>5. \A c \in Controller : AnsweredFor(c)' = AnsweredFor(c)
  BY <1>1, <1>2, <1>4 DEF AnsweredFor
<1>6. \A c \in Controller : \A r \in AnsweredFor(c) : r \in 1 .. made
  BY DEF AnsweredFor
<1> QED
  BY <1>3, <1>5, <1>6 DEF SessionInv, UserIsNewestLogin

\* What is left of a queue of calls is part of it.
LEMMA CallRemoved ==
    ASSUME NEW S, NEW q \in Seq(S), NEW i \in 1 .. Len(q)
    PROVE  LET rest == SubSeq(q, 1, i - 1) \o SubSeq(q, i + 1, Len(q))
           IN  /\ rest \in Seq(S)
               /\ \A j \in 1 .. Len(rest) : \E k \in 1 .. Len(q) : rest[j] = q[k]
<1> DEFINE a == SubSeq(q, 1, i - 1)
           b == SubSeq(q, i + 1, Len(q))
<1>1. /\ a \in Seq(S) /\ Len(a) = i - 1
      /\ \A j \in 1 .. Len(a) : a[j] = q[j]
  OBVIOUS
<1>2. /\ b \in Seq(S) /\ Len(b) = Len(q) - i
      /\ \A j \in 1 .. Len(b) : b[j] = q[i + j]
  OBVIOUS
<1> HIDE DEF a, b
<1>3. /\ a \o b \in Seq(S) /\ Len(a \o b) = Len(q) - 1
      /\ \A j \in 1 .. Len(a \o b) :
            (a \o b)[j] = IF j <= i - 1 THEN a[j] ELSE b[j - (i - 1)]
  <2>1. a \in Seq(S) /\ b \in Seq(S)
    BY <1>1, <1>2
  <2>2. /\ a \o b \in Seq(S) /\ Len(a \o b) = Len(a) + Len(b)
        /\ \A j \in 1 .. Len(a) + Len(b) :
              (a \o b)[j] = IF j <= Len(a) THEN a[j] ELSE b[j - Len(a)]
    BY ONLY <2>1, ConcatProperties
  <2>3. Len(a) = i - 1 /\ Len(b) = Len(q) - i /\ i \in Int /\ Len(q) \in Int
    BY <1>1, <1>2
  <2> QED
    BY <2>2, <2>3
<1>4. ASSUME NEW j \in 1 .. Len(a \o b)
      PROVE  \E k \in 1 .. Len(q) : (a \o b)[j] = q[k]
  <2>1. CASE j <= i - 1
    BY <1>1, <1>3, <2>1
  <2>2. CASE ~(j <= i - 1)
    <3>1. j - (i - 1) \in 1 .. Len(b) /\ j + 1 \in 1 .. Len(q)
      BY <1>2, <1>3, <2>2
    <3>2. (a \o b)[j] = q[j + 1]
      BY <1>2, <1>3, <2>2, <3>1
    <3> QED
      BY <3>1, <3>2
  <2> QED
    BY <2>1, <2>2
<1> QED
  BY <1>3, <1>4 DEF a, b

-----------------------------------------------------------------------------
\* The session starts in the invariant.
LEMMA SessionInvInit == SessionInit => SessionInv
<1> SUFFICES ASSUME SessionInit
             PROVE  SessionInv
  OBVIOUS
<1>1. LocationInv /\ made = 0
  BY InvInit DEF SessionInit, Init
<1>2. SheetsInv
  BY SessionAssumption DEF SessionInit, SheetsInv, Controller, NoSheet
<1>3. LoginsInv
  BY <1>1 DEF SessionInit, LoginsInv, SomeOf, None
<1>4. users \in [Controller -> Seq(User)] /\ Shared \in Controller /\ users[Shared] = None
  BY DEF SessionInit, None, Controller, Shared
<1>5. SignOutInv /\ UserIsNewestLogin
  BY <1>1, <1>4 DEF SessionInit, SignOutInv, UserIsNewestLogin
<1> QED
  BY <1>1, <1>2, <1>3, <1>4, <1>5 DEF SessionInv

\* Steps that touch neither the requests nor the sheets made so far: dialogs that
\* open and close, sheets that are swiped away, sign-ins that begin or fail.
LEMMA DialogStep ==
    ASSUME SessionInv, LocationInv',
           UNCHANGED <<made, result, phase, auth, sheets, users, asked, signOuts, wasAuth, setAt>>,
           sheet' \in 0 .. Len(sheets), google' \in 0 .. Len(sheets),
           signingIn' \in Seq(Call),
           \A i \in 1 .. Len(signingIn') : signingIn'[i].sheet <= Len(sheets),
           phase # "appeared" => signingIn' = << >>
    PROVE  SessionInv'
<1>1. SheetsInv' /\ LoginsInv' /\ SignOutInv'
  BY DEF SessionInv, SheetsInv, LoginsInv, SignOutInv
<1>2. UserIsNewestLogin'
  BY UserKept DEF SessionInv, LocationInv, TypeOK
<1> QED
  BY <1>1, <1>2 DEF SessionInv

\* The i-th call of Auth.signIn ends, one way or the other.
LEMMA SignInEnds ==
    ASSUME SessionInv, NEW i \in DOMAIN signingIn,
           signingIn' = SubSeq(signingIn, 1, i - 1)
                          \o SubSeq(signingIn, i + 1, Len(signingIn))
    PROVE  /\ signingIn[i].name \in Account
           /\ signingIn[i].sheet \in 0 .. Len(sheets)
           /\ signingIn' \in Seq(Call)
           /\ \A j \in 1 .. Len(signingIn') : signingIn'[j].sheet <= Len(sheets)
<1>0. /\ signingIn \in Seq(Call) /\ sheets \in Seq(Controller)
      /\ \A j \in 1 .. Len(signingIn) : signingIn[j].sheet <= Len(sheets)
  BY DEF SessionInv, LoginsInv, SheetsInv
<1>1. i \in 1 .. Len(signingIn) /\ Len(sheets) \in Nat
  BY <1>0
<1>2. signingIn[i] \in Call
  BY <1>0, <1>1
<1>3. /\ signingIn' \in Seq(Call)
      /\ \A j \in 1 .. Len(signingIn') :
            \E k \in 1 .. Len(signingIn) : signingIn'[j] = signingIn[k]
  BY <1>0, <1>1, CallRemoved
<1>4. signingIn[i].name \in Account /\ signingIn[i].sheet \in 0 .. Len(sheets)
  BY <1>0, <1>1, <1>2 DEF Call
<1> QED
  BY <1>0, <1>3, <1>4

\* The answer to the oldest request that waits: it is newer than every login that
\* was answered, so the user it makes is the newest of its controller.
LEMMA CompletionStep ==
    ASSUME SessionInv, LocationInv', RunCompletion
    PROVE  SessionInv'
<1>a. PICK r : r = Head(notifyQ)
  OBVIOUS
<1>b. PICK c : c = ControllerOf(asked[r].sheet)
  OBVIOUS
<1>1. /\ r \in Request /\ r \in 1 .. made
      /\ \A q \in Request : result[q] # NoAnswer => q < r
      /\ location \in Nat /\ made \in Nat
  <2>1. notifyQ \in Seq(Request) /\ notifyQ # << >>
    BY DEF SessionInv, LocationInv, TypeOK, RunCompletion, RunNotify
  <2>2. r = notifyQ[1] /\ 1 \in 1 .. Len(notifyQ) /\ r \in Request
    BY <1>a, <2>1, QueueTail
  <2>3. r <= made /\ location \in Nat /\ made \in Nat
    BY <2>2 DEF SessionInv, LocationInv, QueueInOrder, TypeOK
  <2>4. \A q \in Request : result[q] # NoAnswer => q < r
    BY <2>2 DEF SessionInv, LocationInv, AnsweredFirst
  <2> QED
    BY <2>2, <2>3, <2>4 DEF Request
<1>2. /\ made' = made
      /\ result' = [result EXCEPT ![r] = location]
      /\ users' = [users EXCEPT ![c] = <<[name |-> asked[r].name, fix |-> location]>>]
      /\ setAt' = IF c = Shared THEN signOuts ELSE setAt
      /\ sheet' = IF sheet = asked[r].sheet THEN NoSheet ELSE sheet
      /\ UNCHANGED <<phase, auth, sheets, google, signingIn, asked, signOuts, wasAuth>>
  BY <1>a, <1>b DEF RunCompletion, RunNotify
<1>3. /\ asked[r] \in Asked
      /\ asked[r].sheet \in 0 .. Len(sheets)
      /\ asked[r].name \in wasAuth
      /\ sheets \in Seq(Controller)
  <2>1. /\ asked \in Seq(Asked) /\ Len(asked) = made /\ sheets \in Seq(Controller)
        /\ \A q \in 1 .. made : asked[q].sheet <= Len(sheets) /\ asked[q].name \in wasAuth
    BY DEF SessionInv, SheetsInv, LoginsInv
  <2>2. asked[r] \in Asked
    BY <1>1, <2>1
  <2> QED
    BY <1>1, <2>1, <2>2 DEF Asked
<1>4. c \in Controller /\ Shared \in Controller
  <2>1. Shared \in Controller
    BY DEF Controller
  <2>2. asked[r].sheet # NoSheet => asked[r].sheet \in 1 .. Len(sheets)
    BY <1>3 DEF NoSheet
  <2> QED
    BY <1>b, <1>3, <2>1, <2>2 DEF ControllerOf
<1>5. users' \in [Controller -> Seq(User)]
  <2>1. [name |-> asked[r].name, fix |-> location] \in User
    BY <1>1, <1>3 DEF User, Asked
  <2>2. <<[name |-> asked[r].name, fix |-> location]>> \in Seq(User)
    BY <2>1
  <2> QED
    BY <1>2, <1>4, <2>2 DEF SessionInv
<1>6. SheetsInv' /\ LoginsInv'
  <2>1. Len(sheets) \in Nat
    BY <1>3
  <2>2. SheetsInv'
    BY <1>2, <2>1 DEF SessionInv, SheetsInv, NoSheet
  <2>3. LoginsInv'
    BY <1>2 DEF SessionInv, LoginsInv
  <2> QED
    BY <2>2, <2>3
<1>7. SignOutInv'
  BY <1>2, <1>4 DEF SessionInv, SignOutInv
<1>8. UserIsNewestLogin'
  <2>1. \A q : ControllerOf(asked[q].sheet)' = ControllerOf(asked[q].sheet)
    BY <1>2 DEF ControllerOf
  <2>2. /\ result'[r] = location /\ location # NoAnswer
        /\ \A q \in Request : q # r => result'[q] = result[q]
    BY <1>1, <1>2 DEF SessionInv, LocationInv, TypeOK, NoAnswer
  <2>3. 1 .. made \subseteq Request
    BY MaxRequestsAssumption DEF SessionInv, LocationInv, TypeOK, Request
  <2>4. AnsweredFor(c)' = AnsweredFor(c) \cup {r}
    BY <1>b, <1>1, <1>2, <2>1, <2>2, <2>3 DEF AnsweredFor
  <2>5. \A d \in Controller \ {c} : AnsweredFor(d)' = AnsweredFor(d)
    BY <1>b, <1>1, <1>2, <2>1, <2>2, <2>3 DEF AnsweredFor
  <2>6. \A d \in Controller : \A q \in AnsweredFor(d) : q \in Request /\ q < r
    BY <1>1, <2>3 DEF AnsweredFor
  <2> SUFFICES ASSUME NEW d \in Controller, users'[d] # None
               PROVE  \E p \in AnsweredFor(d)' :
                         /\ \A q \in AnsweredFor(d)' : q <= p
                         /\ users'[d][1] = [name |-> asked'[p].name, fix |-> result'[p]]
                         /\ users'[d][1].name \in wasAuth'
    BY DEF UserIsNewestLogin
  <2>7. CASE d = c
    <3>1. users'[d][1] = [name |-> asked[r].name, fix |-> location]
      BY <1>2, <1>4, <2>7 DEF SessionInv
    <3>2. \A q \in AnsweredFor(d)' : q <= r
      BY <1>1, <2>4, <2>6, <2>7 DEF Request
    <3>3. r \in AnsweredFor(d)' /\ asked' = asked /\ wasAuth' = wasAuth
      BY <1>2, <2>4, <2>7
    <3>4. /\ users'[d][1] = [name |-> asked'[r].name, fix |-> result'[r]]
          /\ users'[d][1].name \in wasAuth'
      BY <1>3, <2>2, <3>1, <3>3
    <3> QED
      BY <3>2, <3>3, <3>4
  <2>8. CASE d # c
    <3>1. users'[d] = users[d]
      BY <1>2, <2>8 DEF SessionInv
    <3>2. PICK p \in AnsweredFor(d) :
             /\ \A q \in AnsweredFor(d) : q <= p
             /\ users[d][1] = [name |-> asked[p].name, fix |-> result[p]]
             /\ users[d][1].name \in wasAuth
      BY <3>1 DEF SessionInv, UserIsNewestLogin
    <3>3. result'[p] = result[p]
      BY <1>1, <2>2, <2>6, <3>2 DEF Request
    <3> QED
      BY <1>2, <2>5, <2>8, <3>1, <3>2, <3>3
  <2> QED
    BY <2>7, <2>8
<1> QED
  BY <1>5, <1>6, <1>7, <1>8 DEF SessionInv

\* A sheet that is presented has a number and, for the tabs or for itself, a controller.
LEMMA PresentStep ==
    ASSUME SessionInv, NEW c \in Controller, Present(c)
    PROVE  /\ sheets' \in Seq(Controller) /\ Len(sheets') = Len(sheets) + 1
           /\ Len(sheets) \in Nat
           /\ sheet' \in 0 .. Len(sheets')
           /\ \A s \in 1 .. Len(sheets) : sheets'[s] = sheets[s]
<1>1. sheets \in Seq(Controller)
  BY DEF SessionInv, SheetsInv
<1>2. sheets' = Append(sheets, c) /\ sheet' = Len(sheets) + 1
  BY DEF Present
<1> QED
  BY <1>1, <1>2

\* The tab bar's first appearance: a request, a login sheet, or neither.
LEMMA AppearStep ==
    ASSUME SessionInv, LocationInv', ViewDidAppear
    PROVE  SessionInv'
<1>1. /\ phase = "launched" /\ phase' = "appeared"
      /\ UNCHANGED <<auth, google, signingIn, users, signOuts, wasAuth, setAt>>
  BY DEF ViewDidAppear
<1>2. /\ sheets = << >> /\ signOuts = 0 /\ asked = << >> /\ made = 0 /\ sheet = 0 /\ google = 0
      /\ users \in [Controller -> Seq(User)] /\ MaxSignOuts \in Nat
  BY <1>1, SessionAssumption DEF SessionInv, SheetsInv, LoginsInv
<1>3. CASE auth # None /\ auth[1] \notin Nameless
  <2>1. Ask(auth[1], NoSheet) /\ UNCHANGED <<sheets, sheet>>
    BY <1>3 DEF ViewDidAppear
  <2>2. auth[1] \in Account /\ auth[1] \in wasAuth
    BY <1>3 DEF SessionInv, LoginsInv, SomeOf, None
  <2>3. NoSheet \in 0 .. Len(sheets)
    BY <1>2 DEF NoSheet
  <2>4. /\ made' = made + 1 /\ result' = result
        /\ asked' \in Seq(Asked) /\ Len(asked') = made'
        /\ asked'[made'] = [name |-> auth[1], sheet |-> NoSheet, after |-> signOuts]
        /\ \A r \in 1 .. made : asked'[r] = asked[r]
    BY <2>1, <2>2, <2>3, AskStep
  <2>5. SheetsInv'
    BY <1>1, <1>2, <2>1 DEF SessionInv, SheetsInv
  <2>6. LoginsInv' /\ SignOutInv'
    BY <1>1, <1>2, <1>3, <2>1, <2>2, <2>4 DEF SessionInv, LoginsInv, SignOutInv, NoSheet
  <2>7. UserIsNewestLogin'
    BY <1>1, <1>2, <2>1, <2>4, UserKept
  <2> QED
    BY <1>1, <2>5, <2>6, <2>7 DEF SessionInv
<1>4. CASE auth # None /\ auth[1] \in Nameless
  <2>1. UNCHANGED <<made, result, asked, sheets, sheet>>
    BY <1>4 DEF ViewDidAppear, vars
  <2>2. SheetsInv' /\ LoginsInv' /\ SignOutInv'
    BY <1>1, <1>2, <2>1 DEF SessionInv, SheetsInv, LoginsInv, SignOutInv
  <2>3. UserIsNewestLogin'
    BY <1>1, <1>2, <2>1, UserKept
  <2> QED
    BY <1>1, <2>2, <2>3 DEF SessionInv
<1>5. CASE auth = None
  <2>1. Present(Shared) /\ UNCHANGED <<made, result, asked>>
    BY <1>5 DEF ViewDidAppear, vars
  <2>2. Shared \in Controller
    BY DEF Controller
  <2>3. /\ sheets' \in Seq(Controller) /\ Len(sheets') = 1
        /\ sheet' \in 0 .. Len(sheets')
        /\ \A s \in 1 .. Len(sheets) : sheets'[s] = sheets[s]
    BY <1>2, <2>1, <2>2, PresentStep
  <2>4. SheetsInv'
    BY <1>1, <1>2, <2>1, <2>3 DEF SheetsInv
  <2>5. LoginsInv' /\ SignOutInv'
    <3>1. signingIn \in Seq(Call) /\ \A i \in 1 .. Len(signingIn) : signingIn[i].sheet <= 0
      BY <1>2 DEF SessionInv, LoginsInv
    <3>2. \A i \in 1 .. Len(signingIn) : signingIn[i].sheet <= 1
      <4>1. \A i \in 1 .. Len(signingIn) : signingIn[i] \in Call
        BY <3>1
      <4> QED
        BY <3>1, <4>1 DEF Call
    <3> QED
      BY <1>1, <1>2, <2>1, <2>3, <3>1, <3>2 DEF SessionInv, LoginsInv, SignOutInv
  <2>6. UserIsNewestLogin'
    BY <1>1, <1>2, <2>1, <2>3, UserKept
  <2> QED
    BY <1>1, <2>4, <2>5, <2>6 DEF SessionInv
<1> QED
  BY <1>3, <1>4, <1>5

\* Auth.signIn succeeds: the account is signed in and, if it has a name, asks for a
\* position in the name and for the sheet the sign-in began with.
LEMMA SucceedStep ==
    ASSUME SessionInv, LocationInv', NEW i \in 1 .. MaxSignIns, AuthSucceeded(i)
    PROVE  SessionInv'
<1>1. /\ i \in DOMAIN signingIn
      /\ signingIn' = SubSeq(signingIn, 1, i - 1)
                         \o SubSeq(signingIn, i + 1, Len(signingIn))
      /\ auth' = <<signingIn[i].name>>
      /\ wasAuth' = wasAuth \cup {signingIn[i].name}
      /\ UNCHANGED <<phase, sheets, sheet, google, users, signOuts, setAt>>
  BY DEF AuthSucceeded
<1>2. /\ signingIn[i].name \in Account
      /\ signingIn[i].sheet \in 0 .. Len(sheets)
      /\ signingIn' \in Seq(Call)
      /\ \A j \in 1 .. Len(signingIn') : signingIn'[j].sheet <= Len(sheets)
  BY <1>1, SignInEnds
<1>3. PICK call : call = signingIn[i]
  OBVIOUS
<1>4. /\ auth' \in SomeOf(Account) /\ auth' # None /\ auth'[1] \in wasAuth'
      /\ wasAuth \subseteq wasAuth'
  BY <1>1, <1>2 DEF SomeOf, None
<1>5. signOuts \in Nat /\ made \in Nat /\ Len(sheets) \in Nat
  BY DEF SessionInv, SheetsInv, LocationInv, TypeOK
<1>6. CASE call.name \notin Nameless
  <2>1. Ask(call.name, call.sheet)
    BY <1>3, <1>6 DEF AuthSucceeded
  <2>2. /\ made' = made + 1 /\ result' = result
        /\ asked' \in Seq(Asked) /\ Len(asked') = made'
        /\ asked'[made'] = [name |-> call.name, sheet |-> call.sheet, after |-> signOuts]
        /\ \A r \in 1 .. made : asked'[r] = asked[r]
    BY <1>2, <1>3, <2>1, AskStep
  <2>3. \A r \in 1 .. made' : /\ asked'[r].sheet <= Len(sheets)
                              /\ asked'[r].name \in wasAuth'
                              /\ asked'[r].after <= signOuts
    <3>1. \A r \in 1 .. made : /\ asked'[r].sheet <= Len(sheets)
                               /\ asked'[r].name \in wasAuth'
                               /\ asked'[r].after <= signOuts
      BY <1>4, <2>2 DEF SessionInv, LoginsInv
    <3>2. /\ asked'[made'].sheet <= Len(sheets)
          /\ asked'[made'].name \in wasAuth'
          /\ asked'[made'].after <= signOuts
      BY <1>1, <1>2, <1>3, <1>5, <2>2
    <3> QED
      BY <1>5, <2>2, <3>1, <3>2
  <2>4. phase = "appeared"
    BY <1>1 DEF SessionInv, SheetsInv
  <2>5. SheetsInv' /\ LoginsInv' /\ SignOutInv'
    BY <1>1, <1>2, <1>4, <2>2, <2>3, <2>4 DEF SessionInv, SheetsInv, LoginsInv, SignOutInv
  <2>6. UserIsNewestLogin'
    BY <1>1, <1>4, <1>5, <2>2, UserKept
  <2> QED
    BY <1>1, <2>5, <2>6 DEF SessionInv
<1>7. CASE call.name \in Nameless
  <2>1. UNCHANGED <<made, result, asked>>
    BY <1>3, <1>7 DEF AuthSucceeded, vars
  <2>2. phase = "appeared"
    BY <1>1 DEF SessionInv, SheetsInv
  <2>3. SheetsInv' /\ LoginsInv' /\ SignOutInv'
    BY <1>1, <1>2, <1>4, <2>1, <2>2 DEF SessionInv, SheetsInv, LoginsInv, SignOutInv
  <2>4. UserIsNewestLogin'
    BY <1>1, <1>4, <1>5, <2>1, UserKept
  <2> QED
    BY <1>1, <2>3, <2>4 DEF SessionInv
<1> QED
  BY <1>6, <1>7

\* A sign-out: the tabs have no user, and a new sheet has a controller of its own.
LEMMA SignOutStep ==
    ASSUME SessionInv, LocationInv', SignOutTapped
    PROVE  SessionInv'
<1>1. /\ phase = "appeared" /\ signOuts < MaxSignOuts /\ signOuts' = signOuts + 1
      /\ auth' = None
      /\ users' = [users EXCEPT ![Shared] = None]
      /\ Present(Len(sheets) + 1)
      /\ UNCHANGED <<made, result, phase, google, signingIn, asked, wasAuth, setAt>>
  BY DEF SignOutTapped, vars
<1>2. /\ signOuts \in 0 .. MaxSignOuts /\ MaxSignOuts \in Nat
      /\ sheets \in Seq(Controller) /\ Len(sheets) <= signOuts + 1
      /\ google \in 0 .. Len(sheets)
      /\ users \in [Controller -> Seq(User)] /\ made \in Nat
  BY SessionAssumption DEF SessionInv, SheetsInv, LocationInv, TypeOK
<1>3. Len(sheets) + 1 \in Controller /\ Shared \in Controller
  BY <1>1, <1>2 DEF Controller, Sheet
<1>4. /\ sheets' \in Seq(Controller) /\ Len(sheets') = Len(sheets) + 1
      /\ Len(sheets) \in Nat
      /\ sheet' \in 0 .. Len(sheets')
      /\ \A s \in 1 .. Len(sheets) : sheets'[s] = sheets[s]
  BY <1>1, <1>3, PresentStep
<1>5. SheetsInv'
  BY <1>1, <1>2, <1>4 DEF SheetsInv
<1>6. /\ users' \in [Controller -> Seq(User)] /\ users'[Shared] = None
      /\ \A c \in Controller : users'[c] \in {users[c], None}
  BY <1>1, <1>2, <1>3 DEF None
<1>7. LoginsInv' /\ SignOutInv'
  <2>1. /\ signingIn \in Seq(Call) /\ asked \in Seq(Asked) /\ Len(asked) = made
        /\ \A j \in 1 .. Len(signingIn) : signingIn[j].sheet <= Len(sheets)
        /\ \A r \in 1 .. made : /\ asked[r].sheet <= Len(sheets)
                                /\ asked[r].name \in wasAuth
                                /\ asked[r].after <= signOuts
    BY DEF SessionInv, LoginsInv
  <2>2. /\ \A j \in 1 .. Len(signingIn) : signingIn[j] \in Call
        /\ \A r \in 1 .. made : asked[r] \in Asked
    BY <2>1
  <2>3. /\ \A j \in 1 .. Len(signingIn) : signingIn[j].sheet <= Len(sheets')
        /\ \A r \in 1 .. made : /\ asked[r].sheet <= Len(sheets')
                                /\ asked[r].after < signOuts'
                                /\ asked[r].after <= signOuts'
    <3>1. /\ \A j \in 1 .. Len(signingIn) : signingIn[j].sheet \in Nat
          /\ \A r \in 1 .. made : asked[r].sheet \in Nat /\ asked[r].after \in Nat
      BY <2>2 DEF Call, Asked
    <3>2. signOuts \in Nat /\ signOuts' = signOuts + 1 /\ Len(sheets') = Len(sheets) + 1
      BY <1>1, <1>2, <1>4
    <3> QED
      BY <1>4, <2>1, <3>1, <3>2
  <2> QED
    BY <1>1, <1>6, <2>1, <2>3 DEF LoginsInv, SignOutInv, SomeOf
<1>8. UserIsNewestLogin'
  BY <1>1, <1>2, <1>4, <1>6, UserKept
<1> QED
  BY <1>5, <1>6, <1>7, <1>8 DEF SessionInv

\* Every step of the session keeps the invariant.
LEMMA SessionInvStep == SessionInv /\ [SessionNext]_allVars => SessionInv'
<1> SUFFICES ASSUME SessionInv, [SessionNext]_allVars
             PROVE  SessionInv'
  OBVIOUS
<1>1. LocationInv'
  BY SessionStep, InvStep DEF SessionInv
<1>2. /\ sheets \in Seq(Controller) /\ Len(sheets) \in Nat
      /\ sheet \in 0 .. Len(sheets) /\ google \in 0 .. Len(sheets)
      /\ signingIn \in Seq(Call)
      /\ \A i \in 1 .. Len(signingIn) : signingIn[i].sheet <= Len(sheets)
      /\ phase # "appeared" => signingIn = << >> /\ sheets = << >>
  BY DEF SessionInv, SheetsInv, LoginsInv
<1>3. CASE DidFinishLaunching
  <2>1. /\ phase = "launching" /\ phase' = "launched"
        /\ auth' \in {auth, None}
        /\ UNCHANGED <<made, result, sheets, sheet, google, signingIn, users, asked,
                       signOuts, wasAuth, setAt>>
    BY <1>3 DEF DidFinishLaunching, vars
  <2>2. made = 0
    BY <2>1 DEF SessionInv, SheetsInv, LoginsInv
  <2>3. SheetsInv' /\ LoginsInv' /\ SignOutInv'
    BY <2>1, <2>2 DEF SessionInv, SheetsInv, LoginsInv, SignOutInv, SomeOf
  <2>4. UserIsNewestLogin'
    BY <1>1, <2>1, <2>2, UserKept
  <2> QED
    BY <1>1, <2>1, <2>3, <2>4 DEF SessionInv
<1>4. CASE SwipeSheet \/ GoogleSignInPressed \/ SignFailed
  BY <1>1, <1>2, <1>4, DialogStep DEF SwipeSheet, GoogleSignInPressed, SignFailed, vars, NoSheet
<1>5. ASSUME NEW a \in Account, Sign(a)
      PROVE  SessionInv'
  <2>1. /\ google # 0 /\ google' = 0
        /\ signingIn' = Append(signingIn, [name |-> a, sheet |-> google])
        /\ UNCHANGED <<made, result, phase, auth, sheets, sheet, users, asked, signOuts,
                       wasAuth, setAt>>
    BY <1>5 DEF Sign, vars, NoSheet
  <2>2. [name |-> a, sheet |-> google] \in Call
    BY <1>2 DEF Call
  <2>3. /\ signingIn' \in Seq(Call)
        /\ \A i \in 1 .. Len(signingIn') : signingIn'[i].sheet <= Len(sheets)
    BY <1>2, <2>1, <2>2
  <2>4. phase = "appeared"
    BY <1>2, <2>1
  <2> QED
    BY <1>1, <1>2, <2>1, <2>3, <2>4, DialogStep
<1>6. ASSUME NEW i \in 1 .. MaxSignIns, AuthFailed(i)
      PROVE  SessionInv'
  <2>1. /\ i \in DOMAIN signingIn
        /\ signingIn' = SubSeq(signingIn, 1, i - 1)
                           \o SubSeq(signingIn, i + 1, Len(signingIn))
        /\ UNCHANGED <<made, result, phase, auth, sheets, sheet, google, users, asked,
                       signOuts, wasAuth, setAt>>
    BY <1>6 DEF AuthFailed, vars
  <2>2. /\ signingIn' \in Seq(Call)
        /\ \A j \in 1 .. Len(signingIn') : signingIn'[j].sheet <= Len(sheets)
    BY <2>1, SignInEnds
  <2>3. phase = "appeared"
    BY <1>2, <2>1
  <2> QED
    BY <1>1, <1>2, <2>1, <2>2, <2>3, DialogStep
<1>7. ASSUME NEW i \in 1 .. MaxSignIns, AuthSucceeded(i)
      PROVE  SessionInv'
  BY <1>1, <1>7, SucceedStep
<1>8. CASE LocationStep
  <2>1. UNCHANGED <<made, result>> /\ UNCHANGED sessionVars
    BY <1>8 DEF LocationStep, AnswerPrompt, DidUpdateLocations, DidFailWithError
  <2> QED
    BY <1>1, <1>2, <2>1, DialogStep DEF sessionVars
<1>9. CASE UNCHANGED allVars
  BY <1>1, <1>2, <1>9, DialogStep DEF allVars, vars, sessionVars
<1> QED
  BY <1>1, <1>3, <1>4, <1>5, <1>6, <1>7, <1>8, <1>9, AppearStep, SignOutStep, CompletionStep
     DEF SessionNext

\* Whoever is logged in is the newest login that was answered for the controller, with
\* the name that login authenticated and the position its own request found, and a
\* sign-out is undone by nothing but an answer it overtook: for any number of
\* accounts, sign-ins, sign-outs and requests.
THEOREM SessionUsers == SessionSpec => []UserIsRight
<1>1. SessionInv => UserIsRight
  <2> SUFFICES ASSUME SessionInv, auth = None, users[Shared] # None
               PROVE  /\ setAt = signOuts
                      /\ \E r \in AnsweredFor(Shared) :
                            /\ \A q \in AnsweredFor(Shared) : q <= r
                            /\ asked[r].after < signOuts
    BY DEF SessionInv, UserIsRight, SignOutHolds
  <2>1. PICK r \in AnsweredFor(Shared) : \A q \in AnsweredFor(Shared) : q <= r
    BY DEF SessionInv, UserIsNewestLogin, Controller
  <2>2. r \in 1 .. made
    BY <2>1 DEF AnsweredFor
  <2> QED
    BY <2>1, <2>2 DEF SessionInv, SignOutInv
<1> QED
  BY <1>1, SessionInvInit, SessionInvStep, PTL DEF SessionSpec
=============================================================================
