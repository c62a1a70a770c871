------------------------------ MODULE Compose -------------------------------
(***************************************************************************)
(* The create screen (CreateMessageBoardViewController) with its tag       *)
(* picker (PostTagTableViewController): what a user who fills in the form  *)
(* in any order ends up storing.  (No tags at all are read back as the     *)
(* default of Post's initializer: Firebase stores no empty array.)         *)
(*                                                                         *)
(* A text is "" or one of a small set; Placeholder is what the empty       *)
(* description shows, and a user may type the very same words.  Whether    *)
(* the view holds the placeholder is told by its colour alone.             *)
(***************************************************************************)
EXTENDS Integers, Sequences, SequencesExt

CONSTANTS
    Tag,            \* Tag.allCases
    MaxPicks        \* bound on taps in tag pickers

ComposeAssumption == "general" \in Tag /\ MaxPicks \in Nat

VARIABLES
    loggedIn,   \* postController.user is there, with a position
    title,      \* titleTextField.text
    text,       \* descriptionTextView.text
    gray,       \* its textColor is lightGray
    editing,    \* the description is being edited
    tagsView,   \* the tags shown
    picker,     \* << >>, or <<tags>>: the open tag picker
    picks,      \* taps in tag pickers
    phase,      \* "form", "posted" or "dropped"
    stored,     \* what createPost was given: [title, description, tags]
    typed,      \* history: what the user last typed as description
    picked      \* history: picked[t] finished pickers had t chosen

vars == <<loggedIn, title, text, gray, editing, tagsView, picker, picks, phase,
          stored, typed, picked>>

-----------------------------------------------------------------------------
Placeholder == "Text Post"
Text == {"", "hello", Placeholder}
NoPost == [title |-> "", description |-> "", tags |-> << >>]

\* viewDidLoad, setUpTextView
Init ==
    /\ loggedIn \in BOOLEAN
    /\ title = ""
    /\ text = Placeholder /\ gray = TRUE
    /\ editing = FALSE
    /\ tagsView = << >>
    /\ picker = << >> /\ picks = 0
    /\ phase = "form"
    /\ stored = NoPost
    /\ typed = "" /\ picked = [t \in Tag |-> 0]

OnForm == phase = "form" /\ picker = << >>

TypeTitle(t) ==
    /\ OnForm
    /\ t # Placeholder
    /\ title' = t
    /\ UNCHANGED <<loggedIn, text, gray, editing, tagsView, picker, picks,
                   phase, stored, typed, picked>>

\* A view that goes by its words instead of its colour.
TextViewDidBeginEditingByText ==
    /\ OnForm /\ ~editing
    /\ editing' = TRUE
    /\ text' = IF text = Placeholder THEN "" ELSE text
    /\ gray' = FALSE
    /\ UNCHANGED <<loggedIn, title, tagsView, picker, picks, phase, stored,
                   typed, picked>>

\* textViewDidBeginEditing
TextViewDidBeginEditing ==
    /\ OnForm /\ ~editing
    /\ editing' = TRUE
    /\ text' = IF gray THEN "" ELSE text
    /\ gray' = FALSE
    /\ UNCHANGED <<loggedIn, title, tagsView, picker, picks, phase, stored,
                   typed, picked>>

TypeText(t) ==
    /\ OnForm /\ editing
    /\ text' = t
    /\ typed' = t
    /\ UNCHANGED <<loggedIn, title, gray, editing, tagsView, picker, picks,
                   phase, stored, picked>>

\* textViewDidEndEditing, also under an open picker.
TextViewDidEndEditing ==
    /\ phase = "form" /\ editing
    /\ editing' = FALSE
    /\ text' = IF text = "" THEN Placeholder ELSE text
    /\ gray' = (text = "")
    /\ UNCHANGED <<loggedIn, title, tagsView, picker, picks, phase, stored,
                   typed, picked>>

\* prepare(for:sender:): the segue makes a new picker, with no tag chosen.
OpenPicker ==
    /\ OnForm
    /\ picks < MaxPicks
    /\ picker' = << << >> >>
    /\ UNCHANGED <<loggedIn, title, text, gray, editing, tagsView, picks, phase,
                   stored, typed, picked>>

\* tableView(_:didSelectRowAt:)
DidSelectRow(tag) ==
    /\ picker # << >>
    /\ picks < MaxPicks
    /\ picks' = picks + 1
    /\ picker' = <<IF Contains(picker[1], tag)
                     THEN SelectSeq(picker[1], LAMBDA t : t # tag)
                     ELSE Append(picker[1], tag)>>
    /\ UNCHANGED <<loggedIn, title, text, gray, editing, tagsView, phase,
                   stored, typed, picked>>

\* doneButtonTapped and tagsWerePicked: the tags are added to those shown.
DoneButtonTapped ==
    /\ picker # << >>
    /\ tagsView' = tagsView \o picker[1]
    /\ picked' = [t \in Tag |->
                     picked[t] + IF Contains(picker[1], t) THEN 1 ELSE 0]
    /\ picker' = << >>
    /\ UNCHANGED <<loggedIn, title, text, gray, editing, picks, phase, stored,
                   typed>>

\* The picker is swiped away.
SwipePicker ==
    /\ picker # << >>
    /\ picker' = << >>
    /\ UNCHANGED <<loggedIn, title, text, gray, editing, tagsView, picks, phase,
                   stored, typed, picked>>

\* postMessageBoard and the dismissal that follows, whether or not the form
\* was complete.
PostButtonTapped ==
    /\ OnForm
    /\ IF title # "" /\ text # "" /\ loggedIn
         THEN /\ phase' = "posted"
              /\ stored' = [title |-> title, description |-> text,
                            tags |-> tagsView]
         ELSE phase' = "dropped" /\ UNCHANGED stored
    /\ UNCHANGED <<loggedIn, title, text, gray, editing, tagsView, picker, picks,
                   typed, picked>>

Next ==
    \/ \E t \in Text : TypeTitle(t) \/ TypeText(t)
    \/ TextViewDidBeginEditing
    \/ TextViewDidEndEditing
    \/ OpenPicker
    \/ \E tag \in Tag : DidSelectRow(tag)
    \/ DoneButtonTapped
    \/ SwipePicker
    \/ PostButtonTapped

Spec == Init /\ [][Next]_vars

-----------------------------------------------------------------------------
\* What the user typed is in the view, or the view shows the placeholder in
\* gray: however often the description gains and loses the focus, and even
\* when the words typed are those of the placeholder, a text is never taken for
\* the placeholder or the other way round.
DescriptionIsTyped ==
    IF gray THEN text = Placeholder /\ ~editing /\ typed = ""
            ELSE text = typed

\* A stored post carries the text that was typed, or the placeholder when none
\* was, and for every finished picker each of its tags once: a tag appears
\* again only if it was picked again in another picker.
StoredIsForm ==
    phase = "posted" =>
        /\ stored.description = IF typed = "" THEN Placeholder ELSE typed
        /\ \A t \in Tag :
              Len(SelectSeq(stored.tags, LAMBDA u : u = t)) = picked[t]
=============================================================================
