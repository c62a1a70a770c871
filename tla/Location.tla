------------------------------ MODULE Location ------------------------------
(***************************************************************************)
(* Location.shared (Models/Location.swift): one-shot location requests on  *)
(* top of CLLocationManager, each answered through a DispatchGroup.        *)
(*                                                                         *)
(* getCurrentLocation makes a new group, enters it, asks for one location  *)
(* fix and registers a notify block.  The fix arrives at the delegate,     *)
(* which leaves WHATEVER group is current; the notify block runs later on  *)
(* the main queue, clears the current group WHATEVER it is by then, and    *)
(* calls the completion.  All these steps are turns of the main thread;    *)
(* what varies is their order.                                             *)
(*                                                                         *)
(* Requests are numbered in the order they are made and fixes in the order *)
(* they are delivered.  CLLocationManager is external: it keeps at most    *)
(* one outstanding requestLocation and answers it with one callback.       *)
(***************************************************************************)
EXTENDS Integers, Sequences

CONSTANT MaxRequests        \* bound on the calls of getCurrentLocation

ASSUME MaxRequestsAssumption == MaxRequests \in Nat

VARIABLES
    made,         \* number of calls of getCurrentLocation so far
    group,        \* the request whose DispatchGroup is current, 0 for nil
    count,        \* count[r]: enters minus leaves of request r's group
    notifyQ,      \* notify blocks submitted to the main queue, oldest first
    authorization,\* CLLocationManager.authorizationStatus()
    outstanding,  \* does CLLocationManager owe a delegate callback?
    location,     \* locationManager.location, as a fix number, 0 for nil
    result,       \* result[r]: what the completion of r was called with
    crashed,      \* DispatchGroup.leave() was called more often than enter()
    reqAt,        \* history: reqAt[r] is the last fix before request r
    failed        \* history: the requests that were the last one at a failure

vars == <<made, group, count, notifyQ, authorization, outstanding, location,
          result, crashed, reqAt, failed>>

-----------------------------------------------------------------------------
Request == 1 .. MaxRequests
NoGroup == 0
NoAnswer == -1                       \* the completion has not been called

\* The authorization statuses the code tells apart.
Authorization == {"notDetermined", "whenInUse", "denied"}

TypeOK ==
    /\ made \in 0 .. MaxRequests
    /\ group \in 0 .. MaxRequests
    /\ count \in [Request -> 0 .. 1]
    /\ notifyQ \in Seq(Request)
    /\ authorization \in Authorization
    /\ outstanding \in BOOLEAN
    /\ location \in Nat
    /\ result \in [Request -> Nat \cup {NoAnswer}]
    /\ crashed \in BOOLEAN
    /\ reqAt \in [Request -> Nat]
    /\ failed \subseteq Request

\* Location.shared before its first request.  The authorization may have
\* been settled by an earlier launch of the app.
Init ==
    /\ made = 0
    /\ group = NoGroup
    /\ count = [r \in Request |-> 0]
    /\ notifyQ = << >>
    /\ authorization \in Authorization
    /\ outstanding = FALSE
    /\ location = 0
    /\ result = [r \in Request |-> NoAnswer]
    /\ crashed = FALSE
    /\ reqAt = [r \in Request |-> 0]
    /\ failed = {}

-----------------------------------------------------------------------------
\* DispatchGroup.leave() on the current group, if there is one.  The last
\* leave submits the notify block; one leave too many traps.
LeaveGroup ==
    CASE group = NoGroup ->
            UNCHANGED <<count, notifyQ, crashed>>
      [] group # NoGroup /\ count[group] = 1 ->
            /\ count' = [count EXCEPT ![group] = 0]
            /\ notifyQ' = Append(notifyQ, group)
            /\ UNCHANGED crashed
      [] group # NoGroup /\ count[group] = 0 ->
            /\ crashed' = TRUE
            /\ UNCHANGED <<count, notifyQ>>

\* A request whose group is entered twice.
GetCurrentLocationTwoEnters ==
    /\ ~crashed
    /\ made < MaxRequests
    /\ made' = made + 1
    /\ group' = made + 1
    /\ count' = [count EXCEPT ![made + 1] = 2]
    /\ outstanding' = TRUE
    /\ reqAt' = [reqAt EXCEPT ![made + 1] = location]
    /\ UNCHANGED <<notifyQ, authorization, location, result, crashed, failed>>

\* A request whose group is never entered.
GetCurrentLocationNoEnter ==
    /\ ~crashed
    /\ made < MaxRequests
    /\ made' = made + 1
    /\ group' = made + 1
    /\ outstanding' = TRUE
    /\ reqAt' = [reqAt EXCEPT ![made + 1] = location]
    /\ UNCHANGED <<count, notifyQ, authorization, location, result, crashed,
                   failed>>

\* getCurrentLocation(completion:).  A group that is still entered is dropped
\* for the new one; its notify block stays registered and keeps it alive.
GetCurrentLocation ==
    /\ ~crashed
    /\ made < MaxRequests
    /\ made' = made + 1
    /\ group' = made + 1
    /\ count' = [count EXCEPT ![made + 1] = 1]
    /\ outstanding' = TRUE
    /\ reqAt' = [reqAt EXCEPT ![made + 1] = location]
    /\ UNCHANGED <<notifyQ, authorization, location, result, crashed,
                   failed>>

\* The user answers the prompt of requestWhenInUseAuthorization, which
\* requestLocationAuthorization shows while the status is undetermined.
AnswerPrompt ==
    /\ ~crashed
    /\ made > 0
    /\ authorization = "notDetermined"
    /\ authorization' \in {"whenInUse", "denied"}
    /\ UNCHANGED <<made, group, count, notifyQ, outstanding, location, result,
                   crashed, reqAt, failed>>

\* An update handler that forgets the group.
DidUpdateLocationsNoLeave ==
    /\ ~crashed
    /\ outstanding
    /\ authorization = "whenInUse"
    /\ outstanding' = FALSE
    /\ location' = location + 1
    /\ UNCHANGED <<made, group, count, notifyQ, authorization, result, crashed,
                   reqAt, failed>>

\* locationManager(_:didUpdateLocations:): a new fix.
DidUpdateLocations ==
    /\ ~crashed
    /\ outstanding
    /\ authorization = "whenInUse"
    /\ outstanding' = FALSE
    /\ location' = location + 1
    /\ LeaveGroup
    /\ UNCHANGED <<made, group, authorization, result, reqAt, failed>>

\* A failure handler that leaves the group as the update handler does.
DidFailWithErrorLeaving ==
    /\ ~crashed
    /\ outstanding
    /\ outstanding' = FALSE
    /\ failed' = failed \cup {made}
    /\ LeaveGroup
    /\ UNCHANGED <<made, group, authorization, location, result, reqAt>>

\* locationManager(_:didFailWithError:): only logs, so the group stays
\* entered and the request is never answered.
DidFailWithError ==
    /\ ~crashed
    /\ outstanding
    /\ outstanding' = FALSE
    /\ failed' = failed \cup {made}
    /\ UNCHANGED <<made, group, count, notifyQ, authorization, location,
                   result, crashed, reqAt>>

\* A notify block that is kept and runs again.
RunNotifyAgain ==
    /\ ~crashed
    /\ notifyQ # << >>
    /\ result' = [result EXCEPT ![Head(notifyQ)] = location]
    /\ group' = NoGroup
    /\ UNCHANGED <<made, count, notifyQ, authorization, outstanding, location,
                   crashed, reqAt, failed>>

\* The notify block at the head of the main queue: reads the last location,
\* clears the current group (possibly a later request's) and calls the
\* completion.
RunNotify ==
    /\ ~crashed
    /\ notifyQ # << >>
    /\ result' = [result EXCEPT ![Head(notifyQ)] = location]
    /\ notifyQ' = Tail(notifyQ)
    /\ group' = NoGroup
    /\ UNCHANGED <<made, count, authorization, outstanding, location, crashed,
                   reqAt, failed>>

Next ==
    \/ GetCurrentLocation
    \/ AnswerPrompt
    \/ DidUpdateLocations
    \/ DidFailWithError
    \/ RunNotify

\* CLLocationManager answers every request, one way or the other, and the
\* main queue runs what is submitted to it.  Nobody has to ask for a location
\* or to answer the prompt.
Fairness ==
    /\ WF_vars(DidUpdateLocations \/ DidFailWithError)
    /\ WF_vars(RunNotify)

Spec == Init /\ [][Next]_vars /\ Fairness

-----------------------------------------------------------------------------
(***************************************************************************)
(* Correctness.                                                            *)
(***************************************************************************)

\* didUpdateLocations never leaves a group that has already been left, which
\* would trap in libdispatch, although it leaves whatever group is current
\* and the notify block of the last one may not have run yet.
NoUnbalancedLeave == ~crashed

\* A completion is called with a fix that was delivered after the request was
\* made: never with nil and never with the position of an earlier request,
\* although the notify block reads locationManager.location only when it runs.
AnswerIsFresh ==
    \A r \in Request : result[r] # NoAnswer => result[r] > reqAt[r]

\* A completion is called at most once, and completions are called in the
\* order of their requests: the last login to be answered is the last one
\* that asked, so no older position overwrites a newer one.
AnswersInOrder ==
    [][\A r \in Request : result'[r] # result[r] =>
          /\ result[r] = NoAnswer
          /\ \A s \in Request : s > r => result[s] = NoAnswer]_vars

\* A request that is outstanding with no older notify block waiting is
\* answered, unless a later request replaces its group or CLLocationManager
\* fails to find a position.
\* Without the premise on the main queue this does not hold: an older block
\* clears the group of the new request and its fix leaves nothing.
LoneRequestAnswered ==
    \A r \in Request :
        (group = r /\ outstanding /\ notifyQ = << >>) ~>
            \/ result[r] # NoAnswer
            \/ made > r
            \/ r \in failed
=============================================================================
