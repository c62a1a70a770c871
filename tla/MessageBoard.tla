---------------------------- MODULE MessageBoard ----------------------------
(***************************************************************************)
(* ZipR on one phone: PostController and CommentController between the     *)
(* screens (message board, recent activity, post detail) and the database  *)
(* client of RealtimeDatabase.  Everything here runs on the main thread,   *)
(* one tap, notification or main-queue block at a time.  Other people's    *)
(* phones appear as writes that reach the server.                          *)
(*                                                                         *)
(* The three screens share one PostController and its posts array, and     *)
(* every fetch empties that array first, so fetches that overlap meet in   *)
(* it.  A table shows the rows of its last reloadData, which comes in a    *)
(* block of its own after the array changed.                               *)
(***************************************************************************)
EXTENDS PostModel, RealtimeDatabase

CONSTANTS
    Phone, Comment,
    Account,       \* what a login may yield: records [name, lat, long]
    Scopes         \* the scopes: what may be posted, and the bounds

VARIABLES
    scope,         \* the scope of this behaviour
    user,          \* postController.user: << >> for nil, else <<account>>
    posts,         \* postController.posts
    detached,      \* the login screen holds a PostController of its own
    tab,           \* the selected tab
    usersLat, usersLong, localPosts,    \* MessageBoardTableViewController
    deletionObservers,    \* its registrations for the "Deletion" notification
    usersPosts,           \* MyRecentActivtyTableViewController
    boardRows, activityRows,  \* the rows the two tables show
    detail, comments,     \* DetailPostViewController: post, and its comments
    commentRows,          \* the comments its table shows
    opened,               \* number of the last detail screen
    crashed,              \* a trap: index out of range, or a forced unwrap
    used,                 \* ids that were drawn
    taps, logins, remotes, dropped, killed,  \* counters for the bounds
    lastSnap,      \* history: the last snapshot given to fetchPosts
    boardSnap,     \* history: the last one it fetched for the board
    owner,         \* history: the name of the last user, "" for none
    deleted        \* history: posts whose removal was called on this phone

PostsPath == <<"Posts">>
CommentsPath(k) == <<"Comments", k>>

\* What the database client is used for.
ASSUME DatabaseUse ==
    /\ Device = {Phone}
    /\ Path = {PostsPath} \cup {CommentsPath(k) : k \in Post}
    /\ Key = Post \cup Comment

\* A scope has the posts and comments that may be made and the bounds on what
\* the user does, on the logins that complete, on what others write, on lost
\* connections and on process deaths.
ASSUME ScopesAssumption ==
    Scopes \subseteq [posts : SUBSET Post, comments : SUBSET Comment,
                     taps : Nat, logins : Nat, remotes : Nat,
                     disconnects : Nat, kills : Nat]

controllerVars == <<user, posts, detached>>
boardVars == <<usersLat, usersLong, localPosts, deletionObservers, boardRows>>
activityVars == <<usersPosts, activityRows>>
detailVars == <<detail, comments, commentRows, opened>>
appVars == <<controllerVars, tab, boardVars, activityVars, detailVars, crashed>>
boundVars == <<scope, taps, logins, remotes, dropped, killed>>
historyVars == <<lastSnap, boardSnap, owner, deleted>>

\* The client's state but for the queue of calls.
clientRest ==
    <<pending, putCounter, observers, waiting, cache, filled, netVars, mine, gone>>

vars == <<dbVars, appVars, used, boundVars, historyVars>>

Rows == Seq(Post)
Tab == {"board", "activity", "profile"}

TypeOK ==
    /\ DBTypeOK
    /\ user \in Optional(Account)
    /\ posts \subseteq Post
    /\ detached \in BOOLEAN
    /\ tab \in Tab
    /\ localPosts \in Rows /\ usersPosts \in Rows
    /\ boardRows \in Rows /\ activityRows \in Rows
    /\ deletionObservers \in Nat
    /\ detail \in Optional(Post)
    /\ comments \subseteq Comment /\ commentRows \subseteq Comment
    /\ opened \in Nat
    /\ crashed \in BOOLEAN
    /\ lastSnap \subseteq Post /\ boardSnap \subseteq Post
    /\ deleted \subseteq Post

\* A launch: the board is the selected tab and has appeared once.
Launched ==
    /\ user = << >>
    /\ posts = {}
    /\ detached = FALSE
    /\ tab = "board"
    /\ usersLat = <<0>> /\ usersLong = <<0>> /\ localPosts = << >>
    /\ deletionObservers = 1
    /\ usersPosts = << >>
    /\ boardRows = << >> /\ activityRows = << >>
    /\ detail = << >> /\ comments = {} /\ commentRows = {} /\ opened = 0
    /\ crashed = FALSE
    /\ lastSnap = {} /\ boardSnap = {}
    /\ owner = ""
    /\ deleted = {}

\* Other people's posts may be there already.
Init ==
    /\ scope \in Scopes
    /\ \E S \in SUBSET scope.posts :
          /\ DBInit([p \in Path |-> IF p = PostsPath THEN S ELSE {}])
          /\ used = S
    /\ Launched
    /\ taps = 0 /\ logins = 0 /\ remotes = 0 /\ dropped = 0 /\ killed = 0

-----------------------------------------------------------------------------
(***************************************************************************)
(* Calls into the database client.                                         *)
(***************************************************************************)

\* The app's thread appends cs to the client's queue.
Calling(cs) ==
    /\ calls' = [calls EXCEPT ![Phone] = @ \o cs]
    /\ UNCHANGED <<mainq, clientRest>>

\* fetchPosts, up to its return.  The closure that follows the fetch is one of
\* "board" (updateViews), "created" (postButtonWasTapped), "activity".
FetchPosts(kind) == <<ObserveCall(PostsPath, kind)>>

\* createPost
CreatePostCall(k) == <<PutCall(SetValue(PostsPath, k))>>

\* createComment
CreateCommentCall(k, c) == <<PutCall(SetValue(CommentsPath(k), c))>>

\* fetchCommentsforPost, for the n-th detail screen
FetchComments(k, n) == <<ObserveCall(CommentsPath(k), n)>>

\* The comments first.
DeleteItsCommentsFirst(k) ==
    <<PutCall(ClearPath(CommentsPath(k))), PutCall(RemoveValue(PostsPath, k))>>

\* deletePostandItsComments: two writes, one after the other.
DeletePostandItsComments(k) ==
    <<PutCall(RemoveValue(PostsPath, k)), PutCall(ClearPath(CommentsPath(k)))>>

\* The "Deletion" notification runs updateViews once per registration.
PostDeletion == [i \in 1 .. deletionObservers |-> ObserveCall(PostsPath, "board")]

-----------------------------------------------------------------------------
(***************************************************************************)
(* The user.                                                               *)
(***************************************************************************)

Tap ==
    /\ ~crashed
    /\ taps < scope.taps
    /\ taps' = taps + 1
    /\ UNCHANGED <<scope, logins, remotes, dropped, killed>>

LoggedIn ==
    /\ ~crashed
    /\ logins < scope.logins
    /\ logins' = logins + 1
    /\ UNCHANGED <<scope, taps, remotes, dropped, killed>>

\* The answer to a location request for the shared PostController, which the
\* tab bar makes at launch and its login screen at every sign-in.  It may come
\* late, even after a sign-out.  "UserWasLoggedIn" makes the board fetch
\* (updateViews).
LogIn(a) ==
    /\ LoggedIn
    /\ user' = <<a>>
    /\ owner' = a.name
    /\ posts' = {}
    /\ Calling(FetchPosts("board"))
    /\ UNCHANGED <<detached, tab, boardVars, activityVars, detailVars, crashed,
                   used, lastSnap, boardSnap, deleted>>

\* signOutTapped: the login screen it presents is given a new PostController.
SignOut ==
    /\ Tap
    /\ tab = "profile"
    /\ user' = << >>
    /\ detached' = TRUE
    /\ UNCHANGED <<dbVars, posts, tab, boardVars, activityVars, detailVars,
                   crashed, used, historyVars>>

\* A login after that reaches the board as a notification only.
LogInDetached ==
    /\ LoggedIn
    /\ detached
    /\ posts' = {}
    /\ Calling(FetchPosts("board"))
    /\ UNCHANGED <<user, detached, tab, boardVars, activityVars, detailVars,
                   crashed, used, historyVars>>

\* The board's viewDidAppear registers for "Deletion" once more.
SelectBoard ==
    /\ Tap
    /\ tab # "board"
    /\ tab' = "board"
    /\ deletionObservers' = deletionObservers + 1
    /\ UNCHANGED <<dbVars, controllerVars, usersLat, usersLong, localPosts,
                   boardRows, activityVars, detailVars, crashed, used,
                   historyVars>>

\* The activity list's viewWillAppear fetches.
SelectActivity ==
    /\ Tap
    /\ tab # "activity" /\ detail = << >>
    /\ tab' = "activity"
    /\ posts' = {}
    /\ Calling(FetchPosts("activity"))
    /\ UNCHANGED <<user, detached, boardVars, activityVars, detailVars, crashed,
                   used, historyVars>>

SelectProfile ==
    /\ Tap
    /\ tab # "profile" /\ detail = << >>
    /\ tab' = "profile"
    /\ UNCHANGED <<dbVars, controllerVars, boardVars, activityVars, detailVars,
                   crashed, used, historyVars>>

\* The fetch before the write.
PostMessageBoardFetchFirst(k) ==
    /\ Tap
    /\ tab = "board" /\ detail = << >>
    /\ user # << >>
    /\ k \notin used
    /\ Content[k].dictionary /\ Content[k].author = user[1].name
    /\ Content[k].lat = user[1].lat /\ Content[k].long = user[1].long
    /\ used' = used \cup {k}
    /\ posts' = {}
    /\ Calling(FetchPosts("created") \o CreatePostCall(k))
    /\ UNCHANGED <<user, detached, tab, boardVars, activityVars, detailVars,
                   crashed, historyVars>>

\* postMessageBoard with a filled form: createPost, then at once the board's
\* postButtonWasTapped.
PostMessageBoard(k) ==
    /\ Tap
    /\ tab = "board" /\ detail = << >>
    /\ user # << >>
    /\ k \notin used
    /\ Content[k].dictionary /\ Content[k].author = user[1].name
    /\ Content[k].lat = user[1].lat /\ Content[k].long = user[1].long
    /\ used' = used \cup {k}
    /\ posts' = {}
    /\ Calling(CreatePostCall(k) \o FetchPosts("created"))
    /\ UNCHANGED <<user, detached, tab, boardVars, activityVars, detailVars,
                   crashed, historyVars>>

\* Swiping row i away (commit editingStyle): the row is one the table shows,
\* the post is the one the array has there by now.
DeleteRow(i) ==
    /\ Tap
    /\ tab = "activity"
    /\ i \in DOMAIN activityRows /\ i \in DOMAIN usersPosts
    /\ LET k == usersPosts[i]
           rest == RemoveAt(usersPosts, i)
       IN  /\ usersPosts' = rest
           /\ activityRows' = rest
           /\ Calling(DeletePostandItsComments(k) \o PostDeletion)
           /\ deleted' = deleted \cup {k}
    /\ posts' = {}
    /\ UNCHANGED <<user, detached, tab, boardVars, detailVars, crashed, used,
                   lastSnap, boardSnap, owner>>

\* Tapping row i of the board opens the post and fetches its comments.
OpenDetail(i) ==
    /\ Tap
    /\ tab = "board" /\ detail = << >>
    /\ i \in DOMAIN boardRows /\ i \in DOMAIN localPosts
    /\ detail' = <<localPosts[i]>>
    /\ comments' = {} /\ commentRows' = {}
    /\ opened' = opened + 1
    /\ Calling(FetchComments(localPosts[i], opened + 1))
    /\ UNCHANGED <<controllerVars, tab, boardVars, activityVars, crashed, used,
                   historyVars>>

\* A row that the array no longer has: index out of range.
TapStaleRow ==
    /\ Tap
    /\ detail = << >>
    /\ \/ tab = "activity" /\ Len(activityRows) > Len(usersPosts)
       \/ tab = "board" /\ Len(boardRows) > Len(localPosts)
    /\ crashed' = TRUE
    /\ UNCHANGED <<dbVars, controllerVars, tab, boardVars, activityVars,
                   detailVars, used, historyVars>>

CloseDetail ==
    /\ Tap
    /\ detail # << >>
    /\ detail' = << >>
    /\ comments' = {} /\ commentRows' = {}
    /\ UNCHANGED <<dbVars, controllerVars, tab, boardVars, activityVars, opened,
                   crashed, used, historyVars>>

\* postComment: createComment, then at once fetchCommentsforPost.
PostComment(c) ==
    /\ Tap
    /\ detail # << >> /\ user # << >>
    /\ c \notin used
    /\ used' = used \cup {c}
    /\ Calling(CreateCommentCall(detail[1], c) \o FetchComments(detail[1], opened))
    /\ UNCHANGED <<appVars, historyVars>>

-----------------------------------------------------------------------------
(***************************************************************************)
(* The main queue.                                                         *)
(***************************************************************************)

Reload(table) == [block |-> "reload", table |-> table]
ReloadComments(n) == [block |-> "reloadComments", screen |-> n]

\* A block leaves the main queue, appends cs to the client's calls and more to
\* the main queue.
Ran(cs, more) ==
    /\ mainq' = [mainq EXCEPT ![Phone] = Tail(@) \o more]
    /\ calls' = [calls EXCEPT ![Phone] = @ \o cs]
    /\ UNCHANGED clientRest

\* The block at the head is the snapshot of a fetch of this kind.
Arrived(path, kind) ==
    /\ ~crashed
    /\ mainq[Phone] # << >>
    /\ Head(mainq[Phone]).block = "value"
    /\ Head(mainq[Phone]).path = path
    /\ Head(mainq[Phone]).request = kind

Snap == Head(mainq[Phone]).snap

\* fetchPosts' callback for a snapshot without posts: no completion.
NoPostsArrived ==
    /\ \E kind \in {"board", "created", "activity"} : Arrived(PostsPath, kind)
    /\ Snap = {}
    /\ lastSnap' = {}
    /\ boardSnap' = IF Head(mainq[Phone]).request = "activity"
                      THEN boardSnap ELSE {}
    /\ Ran(<<RemoveObserverCall(PostsPath)>>, << >>)
    /\ UNCHANGED <<appVars, used, boundVars, owner, deleted>>

\* fetchPosts' callback otherwise, followed by the closure of the fetch.
PostsArrived(kind) ==
    /\ Arrived(PostsPath, kind)
    /\ Snap # {}
    /\ lastSnap' = Snap
    /\ boardSnap' = IF kind = "activity" THEN boardSnap ELSE Snap
    /\ posts' = Readable(Snap)

\* updateViews, asking for itself again.
BoardArrivedRefetching ==
    /\ PostsArrived("board")
    /\ usersLat' = IF user = << >> THEN << >> ELSE user[1].lat
    /\ usersLong' = IF user = << >> THEN << >> ELSE user[1].long
    /\ LET area == PostsInArea(posts', usersLat', usersLong')
       IN  /\ ~OrderTraps(area)
           /\ localPosts' \in orderPostsByDate(area)
    /\ Ran(<<RemoveObserverCall(PostsPath)>> \o FetchPosts("board"),
           <<Reload("board")>>)
    /\ UNCHANGED <<user, detached, tab, deletionObservers, boardRows,
                   activityVars, detailVars, crashed, used, boundVars, owner,
                   deleted>>

\* updateViews: the board moves to where the user is and shows that area.
BoardArrived ==
    /\ PostsArrived("board")
    /\ usersLat' = IF user = << >> THEN << >> ELSE user[1].lat
    /\ usersLong' = IF user = << >> THEN << >> ELSE user[1].long
    /\ LET area == PostsInArea(posts', usersLat', usersLong')
       IN  /\ ~OrderTraps(area)
           /\ localPosts' \in orderPostsByDate(area)
    /\ Ran(<<RemoveObserverCall(PostsPath)>>, <<Reload("board")>>)
    /\ UNCHANGED <<user, detached, tab, deletionObservers, boardRows,
                   activityVars, detailVars, crashed, used, boundVars, owner,
                   deleted>>

\* The array changes and the table is not told.
CreatedArrivedNoReload ==
    /\ PostsArrived("created")
    /\ LET area == PostsInArea(posts', usersLat, usersLong)
       IN  /\ ~OrderTraps(area)
           /\ localPosts' \in orderPostsByDate(area)
    /\ Ran(<<RemoveObserverCall(PostsPath)>>, << >>)
    /\ UNCHANGED <<user, detached, tab, usersLat, usersLong, deletionObservers,
                   boardRows, activityVars, detailVars, crashed, used,
                   boundVars, owner, deleted>>

\* postButtonWasTapped: the board stays where it was.
CreatedArrived ==
    /\ PostsArrived("created")
    /\ LET area == PostsInArea(posts', usersLat, usersLong)
       IN  /\ ~OrderTraps(area)
           /\ localPosts' \in orderPostsByDate(area)
    /\ Ran(<<RemoveObserverCall(PostsPath)>>, <<Reload("board")>>)
    /\ UNCHANGED <<user, detached, tab, usersLat, usersLong, deletionObservers,
                   boardRows, activityVars, detailVars, crashed, used,
                   boundVars, owner, deleted>>

\* The activity list keeps the user's own posts.
ActivityArrived ==
    /\ PostsArrived("activity")
    /\ LET own == PostsByUser(posts', IF user = << >> THEN "" ELSE user[1].name)
       IN  /\ ~OrderTraps(own)
           /\ usersPosts' \in orderPostsByDate(own)
    /\ Ran(<<RemoveObserverCall(PostsPath)>>, <<Reload("activity")>>)
    /\ UNCHANGED <<user, detached, tab, boardVars, activityRows, detailVars,
                   crashed, used, boundVars, owner, deleted>>

\* Ordering posts of which one has no date traps.
OrderingTraps ==
    /\ \E kind \in {"board", "created", "activity"} : Arrived(PostsPath, kind)
    /\ LET kind == Head(mainq[Phone]).request
           here == user # << >>
           kept == CASE kind = "board" /\ here ->
                          PostsInArea(Readable(Snap), user[1].lat, user[1].long)
                     [] kind = "board" /\ ~here -> {}
                     [] kind = "created" ->
                          PostsInArea(Readable(Snap), usersLat, usersLong)
                     [] kind = "activity" ->
                          PostsByUser(Readable(Snap),
                                      IF here THEN user[1].name ELSE "")
       IN  OrderTraps(kept)
    /\ crashed' = TRUE
    /\ UNCHANGED <<dbVars, controllerVars, tab, boardVars, activityVars,
                   detailVars, used, boundVars, historyVars>>

\* The comments go to the n-th detail screen, if it is still the open one.
OnScreen(n) == detail # << >> /\ n = opened

\* fetchCommentsforPost's callback, and the closure of the fetch, which ignores
\* the nil it gets when there are no comments.
CommentsArrived ==
    \E k \in Post, n \in 1 .. opened :
        /\ Arrived(CommentsPath(k), n)
        /\ comments' = IF OnScreen(n) /\ Snap # {} THEN Snap ELSE comments
        /\ Ran(<<RemoveObserverCall(CommentsPath(k))>>,
               IF Snap # {} THEN <<ReloadComments(n)>> ELSE << >>)
        /\ UNCHANGED <<controllerVars, tab, boardVars, activityVars, detail,
                       commentRows, opened, crashed, used, boundVars,
                       historyVars>>

RunReloadComments ==
    /\ ~crashed
    /\ mainq[Phone] # << >>
    /\ Head(mainq[Phone]).block = "reloadComments"
    /\ commentRows' = IF OnScreen(Head(mainq[Phone]).screen)
                        THEN comments ELSE commentRows
    /\ Ran(<< >>, << >>)
    /\ UNCHANGED <<controllerVars, tab, boardVars, activityVars, detail,
                   comments, opened, crashed, used, boundVars, historyVars>>

\* reloadData: the table shows its array.
RunReload ==
    /\ ~crashed
    /\ mainq[Phone] # << >>
    /\ Head(mainq[Phone]).block = "reload"
    /\ IF Head(mainq[Phone]).table = "board"
         THEN boardRows' = localPosts /\ UNCHANGED activityRows
         ELSE activityRows' = usersPosts /\ UNCHANGED boardRows
    /\ Ran(<< >>, << >>)
    /\ UNCHANGED <<controllerVars, tab, usersLat, usersLong, localPosts,
                   deletionObservers, usersPosts, detailVars, crashed, used,
                   boundVars, historyVars>>

RunMain ==
    \/ NoPostsArrived
    \/ BoardArrived
    \/ CreatedArrived
    \/ ActivityArrived
    \/ OrderingTraps
    \/ CommentsArrived
    \/ RunReload
    \/ RunReloadComments

-----------------------------------------------------------------------------
(***************************************************************************)
(* Everybody else, the network and the process.                            *)
(***************************************************************************)

Remote(w) ==
    /\ remotes < scope.remotes
    /\ remotes' = remotes + 1
    /\ ServerRemote(w)
    /\ UNCHANGED <<appVars, scope, taps, logins, dropped, killed, historyVars>>

RemotePost(k) ==
    /\ k \notin used
    /\ used' = used \cup {k}
    /\ Remote(SetValue(PostsPath, k))

RemoteDelete(k) ==
    /\ k \in server[PostsPath]
    /\ Remote(RemoveValue(PostsPath, k))
    /\ UNCHANGED used

\* The second half of a deletion elsewhere.
RemoteClear(k) ==
    /\ k \in used \ server[PostsPath]
    /\ Remote(ClearPath(CommentsPath(k)))
    /\ UNCHANGED used

RemoteComment(k, c) ==
    /\ k \in used /\ c \notin used
    /\ used' = used \cup {c}
    /\ Remote(SetValue(CommentsPath(k), c))

Drop ==
    /\ dropped < scope.disconnects
    /\ dropped' = dropped + 1
    /\ Disconnect(Phone)
    /\ UNCHANGED <<appVars, used, scope, taps, logins, remotes, killed,
                   historyVars>>

\* The same after a restart.
Relaunched ==
    /\ user' = << >>
    /\ posts' = {}
    /\ detached' = FALSE
    /\ tab' = "board"
    /\ usersLat' = <<0>> /\ usersLong' = <<0>> /\ localPosts' = << >>
    /\ deletionObservers' = 1
    /\ usersPosts' = << >>
    /\ boardRows' = << >> /\ activityRows' = << >>
    /\ detail' = << >> /\ comments' = {} /\ commentRows' = {} /\ opened' = 0
    /\ crashed' = FALSE
    /\ lastSnap' = {} /\ boardSnap' = {}
    /\ owner' = ""
    /\ deleted' = {}

\* The user or the system ends the process, or it trapped; it is launched again.
Kill ==
    /\ killed < scope.kills
    /\ killed' = killed + 1
    /\ Killed(Phone)
    /\ Relaunched
    /\ UNCHANGED <<used, scope, taps, logins, remotes, dropped>>

Client ==
    /\ ClientStep(Phone)
    /\ UNCHANGED <<appVars, used, boundVars, historyVars>>

Server ==
    /\ ServerStep(Phone)
    /\ UNCHANGED <<appVars, used, boundVars, historyVars>>

Restore ==
    /\ Reconnect(Phone)
    /\ UNCHANGED <<appVars, used, boundVars, historyVars>>

User ==
    \/ \E a \in Account : LogIn(a)
    \/ SignOut
    \/ LogInDetached
    \/ SelectBoard
    \/ SelectActivity
    \/ SelectProfile
    \/ \E k \in scope.posts : PostMessageBoard(k)
    \/ \E i \in 1 .. Cardinality(Post) : DeleteRow(i) \/ OpenDetail(i)
    \/ TapStaleRow
    \/ CloseDetail
    \/ \E c \in scope.comments : PostComment(c)

Others ==
    \/ \E k \in scope.posts : RemotePost(k) \/ RemoteDelete(k) \/ RemoteClear(k)
    \/ \E k \in scope.posts, c \in scope.comments : RemoteComment(k, c)

Next ==
    \/ User
    \/ RunMain
    \/ Others
    \/ Client
    \/ Server
    \/ Restore
    \/ Drop
    \/ Kill

\* The main queue, the client's queue, the server and the reconnect timer make
\* progress.  Nobody has to tap or write anything.
Fairness ==
    /\ WF_vars(RunMain)
    /\ WF_vars(Client)
    /\ WF_vars(Server)
    /\ WF_vars(Restore)

Spec == Init /\ [][Next]_vars /\ Fairness

-----------------------------------------------------------------------------
(***************************************************************************)
(* Correctness.                                                            *)
(***************************************************************************)

\* Nothing is under way on the phone or on its connection.
Quiescent ==
    /\ ~crashed
    /\ calls[Phone] = << >> /\ mainq[Phone] = << >> /\ pending[Phone] = << >>
    /\ connected[Phone] /\ up[Phone] = << >> /\ down[Phone] = << >>

\* A table whose rows differ from its array has a reloadData waiting on the
\* main queue, on every path that changes the array.
TablesInSync ==
    /\ boardRows # localPosts => Contains(mainq[Phone], Reload("board"))
    /\ activityRows # usersPosts => Contains(mainq[Phone], Reload("activity"))

\* Once everything has settled, the shared array holds what the last fetch
\* delivered, if it delivered any posts.
PostsMatchLastFetch ==
    Quiescent /\ lastSnap # {} => posts = Readable(lastSnap)

\* What a table shows is its array, and what is in the shared array is what the
\* server sent last: both of the above.
ArraysInSync == TablesInSync /\ PostsMatchLastFetch

\* Only posts of the user who logged in are ever deleted from this phone,
\* also when the row that is swiped away is not the one the array holds, when
\* fetches of several screens overlap in the shared posts array, and after
\* signing out with the list still on the screen.
DeletedAreOwn == \A k \in deleted : Content[k].author = owner

\* Once everything has settled, a post made on this phone that nobody removed
\* is on the board, if it lies in the area the board is looking at and every
\* post can be placed: the fetch after createPost does not wait for the write
\* to be acknowledged and meets other fetches on the way.
OwnPostOnBoard ==
    Quiescent /\ (\A j \in boardSnap : HasPlace(j)) =>
        \A k \in Post :
            /\ <<PostsPath, k>> \in mine[Phone]
            /\ k \in PostsInArea({k}, usersLat, usersLong)
            => k \in ToSet(localPosts)

\* Once everything has settled, a post made and deleted on this phone is gone
\* from the board, unless the board's last fetch found no posts at all (then
\* fetchPosts returns early and the board keeps what it had) or a connection
\* was lost (then the write that made the post may still be in the write tree,
\* its acknowledgement held back, when the one that removed it has left it).
OwnDeletionOnBoard ==
    Quiescent /\ boardSnap # {} /\ dropped = 0 =>
        \A k \in Post :
            <<PostsPath, k>> \in gone[Phone] => k \notin ToSet(localPosts)

\* Once everything has settled, a comment made on the open detail screen that
\* nobody removed is listed there.
OwnCommentShown ==
    Quiescent /\ detail # << >> =>
        \A c \in Comment :
            <<CommentsPath(detail[1]), c>> \in mine[Phone] => c \in commentRows

\* Once everything has settled the user sees what he did: the three above.
OwnChangesShown == OwnPostOnBoard /\ OwnDeletionOnBoard /\ OwnCommentShown

\* The two writes of a deletion may be torn apart by a lost connection or by a
\* process that dies between them, but only one way round: comments are never
\* taken away from a post that is still there.
CommentsGoLast ==
    [][\A k \in Post :
          ~(server[CommentsPath(k)] \subseteq server'[CommentsPath(k)]) =>
              k \notin server[PostsPath]]_vars

\* "ZipR provides an easy access message board to those in your area"
\* (README.md): once everything has settled, a post made on this phone where
\* the user is, which nobody removed, is on the user's board.
AreaBoard ==
    Quiescent /\ user # << >> =>
        \A k \in Post :
            /\ <<PostsPath, k>> \in mine[Phone]
            /\ k \in PostsInArea({k}, user[1].lat, user[1].long)
            => k \in ToSet(localPosts)

\* The phone comes to rest: notifications, fetches and reloads do not set each
\* other off for ever, and no fetch is left without an answer.
Settles == <>[](Quiescent \/ crashed)
=============================================================================
