------------------------------ MODULE Session -------------------------------
(***************************************************************************)
(* Who is logged in: the launch (AppDelegate), the tab bar's first         *)
(* appearance, the login sheet and the sign-out of the profile, composed   *)
(* with the location requests of module Location.  A login is finished     *)
(* only by the answer to a location request; the closure that waits for it *)
(* carries the name and the PostController to give the user to.            *)
(*                                                                         *)
(* One launch of the app is modelled.  What outlives it is in the initial  *)
(* state: the account Firebase Auth keeps in the keychain and the mark in  *)
(* the user defaults.  Google sign-in and Firebase Auth are external.  The *)
(* login sheets are page sheets: a swipe puts one away, and the view under *)
(* it does not appear again when it goes.                                  *)
(***************************************************************************)
EXTENDS Location

CONSTANTS
    Account,        \* the Google accounts
    Nameless,       \* those without a display name
    MaxSignIns,     \* bound on sign-ins with Google
    MaxSignOuts     \* bound on sign-outs

ASSUME SessionAssumption ==
    /\ Nameless \subseteq Account
    /\ MaxSignIns \in Nat /\ MaxSignOuts \in Nat

VARIABLES
    phase,      \* "launching", "launched" or, the tab bar on screen, "appeared"
    opened,     \* the user defaults hold "appFirstTimeOpend"
    auth,       \* Auth.auth().currentUser: << >> or <<account>>
    sheets,     \* sheets[s]: the PostController of the s-th login sheet
    sheet,      \* the login sheet on screen, 0 for none
    google,     \* the sheet whose Google dialog is open, 0 for none
    signingIn,  \* calls of Auth.signIn under way: [name, sheet]
    users,      \* users[c]: user of PostController c, << >> or <<[name, fix]>>
    asked,      \* asked[r]: who made location request r: [name, sheet], and
                \* after how many sign-outs
    signIns, signOuts,     \* so many of each so far
    wasAuth,    \* history: accounts that were signed in
    setAt       \* history: sign-outs before users[Shared] was last set

sessionVars == <<phase, opened, auth, sheets, sheet, google, signingIn, users,
                 asked, signIns, signOuts, wasAuth, setAt>>

allVars == <<vars, sessionVars>>

-----------------------------------------------------------------------------
Shared == 0                     \* the PostController of the tabs
NoSheet == 0
Sheet == 1 .. MaxSignOuts + 1
Controller == {Shared} \cup Sheet       \* a sheet's own has its number

None == << >>
SomeOf(S) == {None} \cup {<<x>> : x \in S}
SessionInit ==
    /\ Init
    /\ phase = "launching"
    /\ opened \in BOOLEAN
    /\ auth \in SomeOf(Account)
    /\ sheets = << >> /\ sheet = NoSheet /\ google = NoSheet
    /\ signingIn = << >>
    /\ users = [c \in Controller |-> None]
    /\ asked = << >>
    /\ signIns = 0 /\ signOuts = 0
    /\ wasAuth = IF auth = None THEN {} ELSE {auth[1]}
    /\ setAt = 0

-----------------------------------------------------------------------------
\* application(_:didFinishLaunchingWithOptions:).  On the first launch after
\* an installation the account left in the keychain is signed out; an error in
\* that is ignored.
DidFinishLaunching ==
    /\ phase = "launching"
    /\ phase' = "launched"
    /\ opened' = TRUE
    /\ auth' \in IF opened THEN {auth} ELSE {auth, None}
    /\ UNCHANGED <<vars, sheets, sheet, google, signingIn, users, asked,
                   signIns, signOuts, wasAuth, setAt>>

\* A request for the position of name, logging in through sheet s.
Ask(name, s) ==
    /\ GetCurrentLocation
    /\ asked' = Append(asked, [name |-> name, sheet |-> s, after |-> signOuts])

\* present(loginVC): a new sheet, whose controller is c.
Present(c) ==
    /\ sheets' = Append(sheets, c)
    /\ sheet' = Len(sheets) + 1

\* DefaultTabBarController.viewDidAppear: an account without a name gets
\* neither a location request nor a login sheet.
ViewDidAppear ==
    /\ phase = "launched"
    /\ phase' = "appeared"
    /\ \/ /\ auth # None /\ auth[1] \notin Nameless
          /\ Ask(auth[1], NoSheet)
          /\ UNCHANGED <<sheets, sheet>>
       \/ /\ auth # None /\ auth[1] \in Nameless
          /\ UNCHANGED <<vars, asked, sheets, sheet>>
       \/ /\ auth = None
          /\ Present(Shared)
          /\ UNCHANGED <<vars, asked>>
    /\ UNCHANGED <<opened, auth, google, signingIn, users, signIns, signOuts,
                   wasAuth, setAt>>

\* The user swipes the sheet down, which nothing forbids.
SwipeSheet ==
    /\ sheet # NoSheet /\ google = NoSheet
    /\ sheet' = NoSheet
    /\ UNCHANGED <<vars, phase, opened, auth, sheets, google, signingIn, users,
                   asked, signIns, signOuts, wasAuth, setAt>>

\* googleSignInPressed
GoogleSignInPressed ==
    /\ sheet # NoSheet /\ google = NoSheet
    /\ signIns < MaxSignIns
    /\ signIns' = signIns + 1
    /\ google' = sheet
    /\ UNCHANGED <<vars, phase, opened, auth, sheets, sheet, signingIn, users,
                   asked, signOuts, wasAuth, setAt>>

\* sign(_:didSignInFor:withError:) with an error, a cancelled dialog included,
\* or without an authentication.
SignFailed ==
    /\ google # NoSheet
    /\ google' = NoSheet
    /\ UNCHANGED <<vars, phase, opened, auth, sheets, sheet, signingIn, users,
                   asked, signIns, signOuts, wasAuth, setAt>>

\* sign(_:didSignInFor:withError:), up to the call of Auth.signIn.
Sign(a) ==
    /\ google # NoSheet
    /\ google' = NoSheet
    /\ signingIn' = Append(signingIn, [name |-> a, sheet |-> google])
    /\ UNCHANGED <<vars, phase, opened, auth, sheets, sheet, users, asked,
                   signIns, signOuts, wasAuth, setAt>>

\* The i-th call of Auth.signIn fails, which is only logged.
AuthFailed(i) ==
    /\ i \in DOMAIN signingIn
    /\ signingIn' = SubSeq(signingIn, 1, i - 1)
                      \o SubSeq(signingIn, i + 1, Len(signingIn))
    /\ UNCHANGED <<vars, phase, opened, auth, sheets, sheet, google, users,
                   asked, signIns, signOuts, wasAuth, setAt>>

\* It succeeds, whatever happened to the sheet in between.
AuthSucceeded(i) ==
    /\ i \in DOMAIN signingIn
    /\ LET call == signingIn[i]
       IN  /\ signingIn' = SubSeq(signingIn, 1, i - 1)
                             \o SubSeq(signingIn, i + 1, Len(signingIn))
           /\ auth' = <<call.name>>
           /\ wasAuth' = wasAuth \cup {call.name}
           /\ \/ call.name \notin Nameless /\ Ask(call.name, call.sheet)
              \/ call.name \in Nameless /\ UNCHANGED <<vars, asked>>
    /\ UNCHANGED <<phase, opened, sheets, sheet, google, users, signIns,
                   signOuts, setAt>>

\* A sign-out that also gives up the location request under way.
SignOutTappedCancelling ==
    /\ phase = "appeared" /\ sheet = NoSheet
    /\ signOuts < MaxSignOuts
    /\ signOuts' = signOuts + 1
    /\ auth' = None
    /\ users' = [users EXCEPT ![Shared] = None]
    /\ Present(Len(sheets) + 1)
    /\ group' = NoGroup
    /\ UNCHANGED <<made, count, notifyQ, authorization, outstanding, location,
                   result, crashed, reqAt, failed, phase, opened, google,
                   signingIn, asked, signIns, wasAuth, setAt>>

\* signOutTapped: the new sheet gets a PostController of its own.  A location
\* request or a sign-in that is under way goes on.  When Auth.signOut throws,
\* nothing that is modelled changes.
SignOutTapped ==
    /\ phase = "appeared" /\ sheet = NoSheet
    /\ signOuts < MaxSignOuts
    /\ signOuts' = signOuts + 1
    /\ auth' = None
    /\ users' = [users EXCEPT ![Shared] = None]
    /\ Present(Len(sheets) + 1)
    /\ UNCHANGED <<vars, phase, opened, google, signingIn, asked, signIns,
                   wasAuth, setAt>>

\* The controller a login through sheet s is for.
ControllerOf(s) == IF s = NoSheet THEN Shared ELSE sheets[s]

\* The closure uses the name that is signed in when the answer comes.
RunCompletionCurrentName ==
    /\ RunNotify
    /\ LET r == Head(notifyQ)
           c == ControllerOf(asked[r].sheet)
       IN  /\ auth # None
           /\ users' = [users EXCEPT ![c] = <<[name |-> auth[1], fix |-> location]>>]
           /\ setAt' = IF c = Shared THEN signOuts ELSE setAt
           /\ sheet' = IF sheet = asked[r].sheet THEN NoSheet ELSE sheet
    /\ UNCHANGED <<phase, opened, auth, sheets, google, signingIn, asked,
                   signIns, signOuts, wasAuth>>

\* The notify block of the oldest answered request calls its completion: the
\* controller gets its user, and the sheet is dismissed if it is still there.
RunCompletion ==
    /\ RunNotify
    /\ LET r == Head(notifyQ)
           c == ControllerOf(asked[r].sheet)
       IN  /\ users' = [users EXCEPT ![c] =
                          <<[name |-> asked[r].name, fix |-> location]>>]
           /\ setAt' = IF c = Shared THEN signOuts ELSE setAt
           /\ sheet' = IF sheet = asked[r].sheet THEN NoSheet ELSE sheet
    /\ UNCHANGED <<phase, opened, auth, sheets, google, signingIn, asked,
                   signIns, signOuts, wasAuth>>

\* CLLocationManager and the prompt.
LocationStep ==
    /\ AnswerPrompt \/ DidUpdateLocations \/ DidFailWithError
    /\ UNCHANGED sessionVars

SessionNext ==
    \/ DidFinishLaunching
    \/ ViewDidAppear
    \/ SwipeSheet
    \/ GoogleSignInPressed
    \/ SignFailed
    \/ \E a \in Account : Sign(a)
    \/ \E i \in 1 .. MaxSignIns : AuthFailed(i) \/ AuthSucceeded(i)
    \/ SignOutTapped
    \/ RunCompletion
    \/ LocationStep

\* As in Location.  Nobody has to log in or out, and Google and Auth need not
\* answer.
SessionFairness ==
    /\ WF_allVars((DidUpdateLocations \/ DidFailWithError) /\ UNCHANGED sessionVars)
    /\ WF_allVars(RunCompletion)

SessionSpec == SessionInit /\ [][SessionNext]_allVars /\ SessionFairness

-----------------------------------------------------------------------------
(***************************************************************************)
(* Correctness.                                                            *)
(***************************************************************************)

\* The requests for controller c that have been answered.
AnsweredFor(c) ==
    {r \in 1 .. made : result[r] # NoAnswer /\ ControllerOf(asked[r].sheet) = c}

\* A controller's user is the newest login that was answered for it: the name
\* is the one that login authenticated and the position the one its own
\* request found, although sign-ins overlap and the closure reads the position
\* late.
UserIsNewestLogin ==
    \A c \in Controller : users[c] # None =>
        \E r \in AnsweredFor(c) :
            /\ \A q \in AnsweredFor(c) : q <= r
            /\ users[c][1] = [name |-> asked[r].name, fix |-> result[r]]
            /\ users[c][1].name \in wasAuth

\* While nobody is signed in the tabs have no user, unless a location request
\* made before the last sign-out was answered after it: a sign-out is undone by
\* nothing but an answer it overtook.
SignOutHolds ==
    auth = None /\ users[Shared] # None =>
        /\ setAt = signOuts
        /\ \E r \in AnsweredFor(Shared) :
              /\ \A q \in AnsweredFor(Shared) : q <= r
              /\ asked[r].after < signOuts

\* A controller's user is one that logged in there and is still wanted: both of
\* the above.
UserIsRight == UserIsNewestLogin /\ SignOutHolds

\* Every step of the session is one that Location allows or leaves its state
\* alone, under the same fairness: the screens use Location.shared through
\* getCurrentLocation only.
UsesLocation == Spec

\* The sheet on screen is the one that made request r.
WaitsFor(r) == r <= made /\ sheet # NoSheet /\ asked[r].sheet = sheet

\* A login through a sheet that is waiting for its position, with no other
\* request around, ends with the sheet gone, unless the position cannot be
\* found or another login takes over.
SheetGoes ==
    \A r \in Request :
        (group = r /\ outstanding /\ notifyQ = << >> /\ WaitsFor(r)) ~>
            \/ ~WaitsFor(r)
            \/ made > r
            \/ r \in failed

\* A login comes to an end: its request is answered and its sheet goes.
LoginEnds == LoneRequestAnswered /\ SheetGoes
=============================================================================
