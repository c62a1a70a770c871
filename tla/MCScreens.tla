----------------------------- MODULE MCScreens ------------------------------
(***************************************************************************)
(* Three parts of the app that share no state: the session with its        *)
(* location requests, the create form, and the area of a user.  A          *)
(* behaviour is one of one part; the others stay in an initial state.      *)
(***************************************************************************)
EXTENDS Session

VARIABLES
    part,           \* "session", "form" or "area"
    loggedIn, title, text, gray, editing, tagsView, picker, picks, formPhase,
    posted, typed, picked,                                  \* Compose
    stored, lat, long        \* the posts stored and where the user is

formVars == <<loggedIn, title, text, gray, editing, tagsView, picker, picks,
              formPhase, posted, typed, picked>>
areaVars == <<stored, lat, long>>
screenVars == <<part, allVars, formVars, areaVars>>

Form == INSTANCE Compose
    WITH Tag <- {"general", "art", "news"}, MaxPicks <- 3,
         phase <- formPhase, stored <- posted

ASSUME FormAssumption == Form!ComposeAssumption

-----------------------------------------------------------------------------
(***************************************************************************)
(* parsePosts against a definition of the area on a globe: whatever posts  *)
(* are stored and wherever the user is.  Half a degree is the unit.        *)
(***************************************************************************)
HalfDegrees == 2

\* Places around the meridian of Greenwich and around the 180th; one that is
\* no number.
MCPlace ==
    << <<0, 0>>, <<0, 2>>, <<3, 0>>, <<0, 359>>, <<0, -359>>, <<-2, -360>> >>
MCPost == 1 .. 7
MCContent ==
    [k \in MCPost |->
       [dictionary |-> TRUE, author |-> "ann", date |-> <<k>>,
        lat |-> IF k = 7 THEN << >> ELSE <<MCPlace[k][1]>>,
        long |-> IF k = 7 THEN << >> ELSE <<MCPlace[k][2]>>]]
MCHere == {<<0, 0>>, <<1, 1>>, <<0, 3>>, <<-2, 358>>, <<0, 360>>, <<0, -359>>}

Posts == INSTANCE PostModel
    WITH Post <- MCPost, Content <- MCContent, Degree <- HalfDegrees

AreaInit ==
    /\ stored = {}
    /\ \E h \in MCHere : lat = <<h[1]>> /\ long = <<h[2]>>

Publish(k) ==
    /\ stored' = stored \cup {k}
    /\ UNCHANGED <<lat, long>>

Travel(h) ==
    /\ lat' = <<h[1]>> /\ long' = <<h[2]>>
    /\ UNCHANGED stored

AreaNext == (\E k \in MCPost : Publish(k)) \/ (\E h \in MCHere : Travel(h))

-----------------------------------------------------------------------------
ScreensInit ==
    /\ part \in {"session", "form", "area"}
    /\ SessionInit
    /\ part # "session" =>
          ~opened /\ auth = None /\ authorization = "notDetermined"
    /\ Form!Init
    /\ part # "form" => ~loggedIn
    /\ AreaInit
    /\ part # "area" => lat = <<0>> /\ long = <<0>>

ScreensNext ==
    \/ part = "session" /\ SessionNext /\ UNCHANGED <<part, formVars, areaVars>>
    \/ part = "form" /\ Form!Next /\ UNCHANGED <<part, allVars, areaVars>>
    \/ part = "area" /\ AreaNext /\ UNCHANGED <<part, allVars, formVars>>

ScreensSpec == ScreensInit /\ [][ScreensNext]_screenVars /\ SessionFairness

-----------------------------------------------------------------------------
\* What the user typed is in the view, or the view shows the placeholder in
\* gray: however often the description gains and loses the focus, and even
\* when the words typed are those of the placeholder, a text is never taken for
\* the placeholder or the other way round.  A stored post carries the text that
\* was typed, and for every finished picker each of its tags once: a tag
\* appears again only if it was picked again in another picker.
FormIsStored == Form!DescriptionIsTyped /\ Form!StoredIsForm

Turn == 360 * HalfDegrees

\* The difference of two longitudes, the shorter way round.
Around(a, b) ==
    LET d == (a - b) % Turn IN IF d <= Turn - d THEN d ELSE Turn - d

\* The posts within one degree of the user, on a globe.
AreaOnGlobe ==
    {k \in stored :
        /\ Posts!HasPlace(k)
        /\ Around(MCContent[k].lat[1], lat[1]) <= HalfDegrees
        /\ Around(MCContent[k].long[1], long[1]) <= HalfDegrees}

\* The user is more than a degree away from the 180th meridian.
Inland ==
    /\ long[1] + HalfDegrees < Turn \div 2
    /\ long[1] - HalfDegrees > -(Turn \div 2)

AllPlaced == \A k \in stored : Posts!HasPlace(k)

\* A user more than a degree away from the 180th meridian sees exactly the
\* posts of the area, its edges included, as long as every stored post has a
\* position; and nobody anywhere sees a post from outside the area.
AreaIsRight ==
    /\ Posts!PostsInArea(stored, lat, long) \subseteq AreaOnGlobe
    /\ AllPlaced /\ Inland =>
          Posts!PostsInArea(stored, lat, long) = AreaOnGlobe
=============================================================================
