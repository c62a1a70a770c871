# ZipR: a TLA+ verification project

ZipR is an iOS message board for the people around you. Posts and comments live
in a Firebase Realtime Database, a user logs in with Google, and the position of
the phone decides which posts the board shows. The app is small; what is hard in
it is the order of things. Every answer (a position, a snapshot, an
acknowledgement) arrives in a callback, several callbacks write to the same
fields, and nobody waits for anybody. This project models those orders, checks
them with TLC and proves the part that is about arbitrarily many requests.

The repository also carries the sources of the pods the app is linked with. Two
of them keep state that is hard to get right and are modelled too: LevelDB, the
store behind FirebaseDatabase's persistence, and nanopb, which reads and writes
the messages of the Firebase diagnostics. They run on the user's phone with
ZipR's name on it, although ZipR leaves persistence off.

## 1. Inventory

| Part | State | Operations | Talks to |
|---|---|---|---|
| `Location` | current `DispatchGroup`, last position | `getCurrentLocation`, two delegate callbacks, notify block | CLLocationManager (delegate), its callers (completion) |
| `PostController` | `user`, `posts` | `createPost`, `fetchPosts`, `deletePostandItsComments`; pure: `parsePosts`, `orderPostsByDate`, `filterPostsByUserandDate` | database client; shared by all tabs |
| `CommentController` | none | `createComment`, `fetchCommentsforPost` | database client |
| Message board screen | `usersLat`, `usersLong`, `localPosts`, the rows shown, notification registrations | `updateViews`, `postButtonWasTapped`, opening a post | PostController; "UserWasLoggedIn" and "Deletion" notifications |
| Recent activity screen | `usersPosts`, the rows shown | fetch on appearing, deleting a row | PostController; posts "Deletion" |
| Detail screen | `post`, `comments`, the rows shown | fetch on loading, `postComment` | CommentController, `PostController.user` |
| Create screen, tag picker | the form, picked tags | `postMessageBoard`, `tagsWerePicked`, toggling a tag | PostController, the board (delegate) |
| Session: tab bar, login, profile, launch | `postController` of the tabs, of the login screen | launch, login, sign-out | Auth, Google sign-in, `Location` |
| Firebase database client (pod) | write tree, outstanding puts, held acknowledgements, listens, server caches | `setValue`, `removeValue`, `observeSingleEvent`; reconnecting | the server; the app's main queue |
| LevelDB: log files | block offset, the reader's buffer | `AddRecord`, `ReadRecord` | write path, manifest, recovery |
| LevelDB: write path | queue of writers, two memtables, sequence numbers, background thread | `Write`, `Get`, `MakeRoomForWrite`, `CompactMemTable`, `DB::Open`, closing | logs, versions, environment |
| LevelDB: versions, compaction | the files of each level, snapshots, references | picking, merging, installing, deleting | write path (flushes in between), iterators |
| LevelDB: MANIFEST, CURRENT | the files on disk, what of them is synced | `NewDB`, `LogAndApply`, `Recover`, `SetCurrentFile` | the file system |
| LevelDB: iterators, skip list, caches | positions, links, reference counts | the moves of `Iterator`, `Insert`, `Lookup`, `Evict` | tables, memtables |
| LevelDB: blocks, tables, filters | the block being built | `Add`, `Finish`, `Seek`, `InternalGet` | table cache |
| LevelDB: POSIX environment | locks, limits, queue of work, write buffers | `LockFile`, `Schedule`, `Append`, `Sync` | the system |
| nanopb | stream, message iterator | `pb_encode`, `pb_decode` and the varints | its callers |
| Cells, colours, scene delegate, other pods | presentation | | |

The app itself runs on the main thread. Concurrency comes from four sides: the
user, blocks on the main queue, the database client on a serial queue of its own
with a network behind it, and other people's phones. LevelDB adds threads that
write and read, one background thread, and a disk that keeps only what was
synced. What can go wrong and a test would hardly reach is listed, line by line,
under `hazards` in `PROJECT.json`. In short:

- *overlap*: two location requests share one `group` field; three screens share
  one `posts` array, which each fetch empties first; a memtable is flushed in the
  middle of a compaction; a skip list grows under its readers;
- *not waiting*: the board and the comments are fetched right after a write that
  has not reached the server;
- *stale lookups*: a table row is looked up in an array that changed since the
  table was reloaded; the board filters by a position it may not have yet; a Get
  reads memtables and tables that are being replaced;
- *missing completions*: a failed location request and a fetch that finds no
  posts call nobody back; a wakeup that is missed leaves a writer for ever;
- *re-sending*: after a lost connection the client repeats what had no answer,
  and what was held back before the loss is still there;
- *restarts*: nothing of the app is on disk, a deletion is two writes, and a
  stored post without a date traps the app; LevelDB must come back from a crash
  between any two steps.

## 2. Modules

    MCScreens ---> Session ---> Location
        |--------> Compose
        `--------> PostModel <------.
                                    |
    MCMessageBoard -> MessageBoard -+-> RealtimeDatabase <- DatabaseClient <- MCDatabase

    MCDBImpl -> DBImpl (implements KVStore)      MCCompaction -> Compaction
    MCReaders -> DBIter (on MergingIterator), TwoLevelIterator, Block (on Bytes), all
                 implementing Cursor (on Positions); SkipList; TableCache (on LRUCache)
    MCEnvironment -> Manifest, PosixLock, PosixFile, PosixSchedule, WritableFile
        `----------> MCFormats -> LogFormat, Table (on Bytes), PbVarint, PbMessage

    SessionProofs -> Session, Location      ManifestProofs -> Manifest
    PosixProofs -> PosixLock, PosixFile, PosixSchedule, WritableFile
    SkipListProofs -> SkipList
    DatabaseProofs -> DatabaseClient, RealtimeDatabaseProofs -> RealtimeDatabase
    MessageBoardProofs -> MessageBoard, RealtimeDatabaseProofs
    DBImplProofs -> DBImpl

An operator next to another one and named after it with a suffix
(`PostMessageBoardFetchFirst`, `NearInside`) is a deliberately wrong variant. No
specification uses it; each one shows that a property notices the mistake.

### The app

**Location** (`Models/Location.swift`). Requests are numbered as they are made
and positions ("fixes") as they are delivered. `group` is the request whose
`DispatchGroup` the field holds, `count[r]` its enters minus leaves, `notifyQ`
the notify blocks that wait on the main queue. Actions: `GetCurrentLocation`,
`AnswerPrompt`, `DidUpdateLocations`, `DidFailWithError`, `RunNotify`.
`crashed` records the trap of libdispatch on one leave too many; `reqAt` and
`failed` are history. CLLocationManager is external: it answers an outstanding
request once, with a fix or a failure, and a further `requestLocation` before
that adds nothing.

**Session** (tab bar, login, profile, launch) extends `Location`. A request of
`Location` is made by the tab bar at a launch with a signed-in account or by a
login sheet after Google and Firebase have accepted the account; `RunCompletion`
is `RunNotify` with the closure that was passed. There are two kinds of
`PostController`: the one the tabs share, and the one `signOutTapped` makes for the
login screen it presents. `UsesLocation` says that the composition implements
`Location!Spec`.

**Compose** (create screen, tag picker): the title, the description with its
placeholder, which the code tells from a text by its colour, focus that comes
and goes, pickers that are finished or swiped away, and the stored post.

**PostModel** holds what `PostController` computes from posts: `PostsInArea`
(`parsePosts`), `orderPostsByDate`, `PostsByUser` (`filterPostsByUserandDate`),
and `OrderTraps`, the forced unwrap in the sort. A string that is parsed as a
number is `<< >>` when that fails and `<<v>>` otherwise. The posts come out of a
dictionary, in any order, and the sort leaves posts of one date as they came, so
`orderPostsByDate` is the set of the results it may have.

**RealtimeDatabase** (pod FirebaseDatabase, the part ZipR uses). For each device:
`calls` is the serial queue, `pending` the write tree together with
`outstandingPuts` and `putsToAck`, from the number `putCounter` gave a put to the
put (status `sent` is outstanding; `ok` and
`denied` are answers held back while a listen is under way), `observers`,
`waiting`, `cache` and `filled` are the views, `up` and `down` the connection.
A path holds a set of children; what a child contains is of no interest here.
`Overlay` is what the write tree does to server data: the last write to a child
decides. The server is external: one request of a connection at a time, pushes
before the acknowledgement. The data of a listen and its answer are one message.
`mine` and `gone` are history: the children a device created, and created and
removed. The module has actions and no `Next`; two modules use them.

**DatabaseClient** lets devices make any call ZipR's controllers could make, at
any time, and adds lost connections and dying processes.

**MessageBoard** is one phone: the controllers and the three screens on top of
`RealtimeDatabase`. A fetch is an `ObserveCall` that carries the closure to run
("board", "created", "activity", or the number of a detail screen). One action
per tap (`PostMessageBoard`, `DeleteRow`, `OpenDetail`, `PostComment`,
`SelectActivity`, ...), one per main-queue block (`BoardArrived`,
`CreatedArrived`, `ActivityArrived`, `NoPostsArrived`, `CommentsArrived`,
`RunReload`, `RunReloadComments`), `OrderingTraps` and `TapStaleRow` for the two
traps. The rows a table shows and the array behind it are separate variables,
because `reloadData` comes in a block of its own. `LogIn` is the completion of a
location request on the shared controller; it may come at any time, also after
a sign-out. After a sign-out the login screen holds a `PostController` of its
own, and a login there reaches the board as a notification only
(`LogInDetached`). Other phones are writes at the server.

### LevelDB

**KVStore** is what `DB` promises: a batch takes effect at once or not at all; a
write that was synced, or that returned before a process merely exited, is
there after the next `Open`; a prefix of the others is.

**DBImpl** (`db/db_impl.cc`) is the write path at the grain of the mutex: the
queue of writers and their groups (`BuildBatchGroup`), `MakeRoomForWrite` with its
delays and waits, the append, the sync and the insertion without the mutex, the
flush and its edit, merges by their effect, `Get`, exits, power failures, closing
and the steps of `DB::Open`. Threads asleep on a condition variable are in
`asleep`. `Store` maps its state to KVStore's; `KVSpec` is the refinement.

**Compaction** (`db/version_set.cc`, `db/db_impl.cc`) has the files of each level,
a memtable, snapshots and iterators. A compaction is picked (by size, by seeks or
by hand), widened (`SetupOtherInputs`, `AddBoundaryInputs`), run, with a flush
possibly in the middle, and installed; obsolete files are deleted. Sizes are
numbers of entries.

**Manifest** (`NewDB`, `LogAndApply`, `Recover`, `SetCurrentFile`,
`DeleteObsoleteFiles`) on a file system with inodes and a directory. `dirs` is the
history of the directory since it was last synced: after a power failure it is one
of them, and a file is what of it was synced. `Recover` reads the manifest and looks for
the tables it names (`Whole`, the "missing files" of `db_impl.cc:343`). With
`ReuseManifest` it goes on to `DeleteObsoleteFiles` with nothing recorded and nothing
synced, as `DB::Open` does; the history variable `reliance` says whether an Open has gone on with
records that were not synced, and whether power failed before they were. The tables that
`DB::Open` makes of log files are left to **DBImpl**.

**LogFormat** (`db/log_writer.cc`, `db/log_reader.cc`) at the grain of cells, a
header being several; a checksum is whether the cells are those that were
written. **Bytes**, **Block** and **Table** are comparators, prefix compression
with restart points, index keys, filter blocks and lookups. **Cursor** is what
`Iterator` promises; **TwoLevelIterator**, **MergingIterator** with **DBIter**, and
Block's iterator implement it. **SkipList** is one pointer load or store per step;
`max_height_` is loaded relaxed, so a reader may see any value it ever had.
**LRUCache** and **TableCache** are the cache under its mutex and the threads that
open tables outside it. **PosixLock**, **PosixFile**, **PosixSchedule** and
**WritableFile** are the four parts of `util/env_posix.cc` that threads or errors
make hard.

### nanopb

**PbVarint** encodes and decodes integers at a reduced width, byte by byte, and
stores them in fields of every size. **PbMessage** is the decoder as a stack of
open messages and the encoder as a function: required, optional, repeated, packed,
fixed count, oneof, bytes, submessage and extension fields.

### Sums and scopes

`MCScreens`, `MCReaders` and `MCEnvironment`, which takes `MCFormats` in, put components that share no
state into one instance: a variable `part` picks the component that moves, the
others stay in an initial state, so the instance has exactly the behaviours of its
parts. In `DatabaseClient`, `MessageBoard`, `DBImpl`, `Compaction` and `Manifest` a
variable `scope` holds the bounds and options of a behaviour; it is chosen initially
from `Scopes` and stays. What one large bound for everything would not let a
checker finish is covered by several scopes, each generous in another direction.

## 3. Runs

| Run | Instance | States | Shows |
|---|---|---|---|
| `screens` | `MCScreens` | 77 thousand | of the location service as the session uses it: `TypeOK`, `NoUnbalancedLeave`, `AnswerIsFresh`, `AnswersInOrder`; of the session: `UserIsRight` (newest login, sign-outs hold), `LoginEnds` (requests are answered, the sheet goes), `UsesLocation` (refinement of Location); `FormIsStored` of the form; `AreaIsRight` of `parsePosts` against an area on a globe |
| `database` | `MCDatabase` | 163 thousand | `ReadYourWrites`, `RemovedStaysRemoved`, `NoLostWrite`; liveness `CallsAnswered` (fetches and puts) |
| `message_board` | `MCMessageBoard` | 1.5 million | `TypeOK`, `ArraysInSync` (rows, arrays, last fetch), `DeletedAreOwn`, `OwnChangesShown` (posts, deletions, comments), `CommentsGoLast` |
| `board_live` | `MCMessageBoard` | 646 thousand | `Settles`: the phone comes to rest, also after a deletion that meets two Deletion registrations |
| `db_impl` | `MCDBImpl` | 91 thousand | `SnapshotsAreRight` (whole batches, unique sequence numbers, `Get`, synced writes), `KVSpec` (refinement of KVStore), liveness `WritesReturn` |
| `compaction` | `MCCompaction` | 62 thousand | `VersionIsSound` (levels disjoint, newer above older, files there), `GetIsRight` |
| `readers` | `MCReaders` | 656 thousand | `ListIsSafe` of the skip list, `CacheIsSafe` of the caches, `NoSilentLoss` of damaged blocks; `IteratorIsRight`, `TablesAreCursors` (refinements of Cursor) |
| `environment` | `MCEnvironment` | 522 thousand | `DatabaseOpens`, `NothingForgotten` of the manifest; `OneOwner` of the lock file, `WithinLimits` of open files, `WorkRuns` of the queue of work, `NothingLost` of a write buffer; what is written is read back: `LogIsRead`, `TableIsRight`, `VarintsKeepValues`, `MessageIsRight`; liveness `DecodingEnds` |
| `database_held_ack` | `MCDatabase` | | `ReadYourWrites`, violated: finding 1 |
| `area_board` | `MCMessageBoard` | | `AreaBoard`, violated: finding 2 |
| `compaction_split` | `MCCompaction` | | `GetIsRight`, violated: finding 3 |
| `compaction_gap` | `MCCompaction` | | `LevelsDisjoint`, violated: finding 4 |

Several of these are conjunctions of named parts, each with a comment of its own: in
`Session`, `DatabaseClient`, `MessageBoard`, `DBImpl` and `Compaction` the parts stand right
above, and the `MC` modules of the sums put together what their components state.

**Bounds.** Every bound is a constant or a field of a scope.
*App*: three location requests let an old notify block meet two newer requests;
two sign-ins and two sign-outs put sheets of different controllers before one
location service. Four calls to the database client are a write, its removal and
two fetches in any order, or two devices with a write and a fetch. Four taps
after a login are a post, a visit to the activity list, a deletion and the way
back; one remote write is enough to change what overlapping fetches see; the
second post belongs to somebody else, which is what `DeletedAreOwn` is about, and a
third has no date, which takes the app through its trap and a restart. In `board_live`
a deletion with two Deletion registrations takes four taps after the login (the activity
list, the board, the activity list, the deletion); one of its two scopes allows five, with a
second post that is left for the two fetches to bring, and the other two logins and a
write of the other phone, with one post.
*LevelDB*: two crashes meet a recovery that is itself cut short; three writers make
a group and a next leader; three writes over two or three keys fill three levels,
because a memtable holds one entry and a table two. The manifest's scopes are an existing
database without `reuse_logs`, one whose manifest is always reused, and a new database whose
manifest is reused; a manifest that is sometimes reused and sometimes too long for that is
in the theorem only. The log's blocks hold seven
cells and its headers three, so that all fragment types and trailers occur.
A cache of two for three tables, a hash table that starts with one chain and
grows, a skip list of height two, blocks of up to four keys of up to two
bytes with a restart at every key and at every third. Write buffers hold three bytes.
*nanopb*: a byte of the varint carries three bits instead of seven, which keeps the
straddling byte and the sign extension; inputs of up to three bytes to the message
decoder are enumerated, longer ones are encoded messages and chosen tails.
`CHECK_DEADLOCK FALSE` is set everywhere because the bounds make every behaviour
end, and because a phone that nobody touches stops.

**Fairness.** `Location` and `Session`: CLLocationManager answers a request one way
or the other, and the main queue runs what it is given. Database: the serial queue,
the main queue and the server make progress, and a client that lost its connection
reconnects, which `tryScheduleReconnect` repeats for ever. LevelDB: threads that can
run do; `background_work_mutex_` is also fair to the one background thread (strong
fairness of `LockQueue`, for callers may take the mutex again and again). Whoever
reads a log or decodes a message goes on. No user, prompt, remote phone,
disconnect, crash or process death is ever assumed to happen.

**What is deliberately conditional.** `LoneRequestAnswered` has the premise that
no older notify block waits; without it an older block clears the newer
request's group and the newer completion is never called. `OwnPostOnBoard` is
about the area the board looks at (finding 2) and about boards whose posts
all have a position, since one post without empties the list.
`OwnDeletionOnBoard` and `PostsMatchLastFetch` exclude a last fetch that found
nothing, and the former a connection that was lost: an acknowledgement that was held
back before lets the deleted post appear once more (finding 1). `ReadYourWrites` is
checked without disconnects where paths are cleared (finding 1). The scopes of
`compaction` have too few writes for a split key (finding 3) and for a gap in what
`CompactRange` merges (finding 4). `AreaIsRight` is
about users more than a degree away from the 180th meridian and posts that all have a
position. `NeverCorrupt` is about databases whose creation is complete, and excludes a power
failure after an Open went on with records that were not synced (the deviation at
`db_impl.cc:1499` below); `TablesExist` holds then, too. The manifest's power failures lose
all that is not synced.

### Findings

1. *Held acknowledgements* (`FPersistentConnection.m:374`, `:689`). A listen
   under way makes the client hold acknowledgements back. `onDisconnect` resets
   the count of such listens and keeps what was held; after the reconnect the
   answer to a later put takes effect at once and so before an earlier one. A
   view then shows the earlier removal of a path without the later write to it,
   until another listen completes. `FIRDatabaseReference.h:81` promises "The
   effect of the write will be visible immediately".
2. *The first post* (`MessageBoardTableViewController.swift:101`). The board
   filters by `usersLat` and `usersLong`, which stay "0" until a fetch of
   `updateViews` has found posts. After a login on an empty database the user's
   own first post is compared with (0, 0) and is not shown.
3. *A deletion that is forgotten* (`db_impl.cc:951`). The entries of one user key
   may be split over two files of a level. A compaction from the level above
   takes boundary files along for its upper inputs only; when it takes the first of
   the two files from the lower level, it drops the deletion there as obsolete and
   leaves the older value in the second.
4. *A memtable in a gap* (`db_impl.cc:522`). `CompactRange` takes all files of a level in
   its range, also files with a gap between them, and merges them into outputs that
   span it. A memtable flushed meanwhile (`:912`) is placed by the current version
   alone: with its keys in the gap it overlaps none of the inputs and goes straight to
   the level the outputs go to. Once these are installed two files of a level overlap,
   where `MaybeAddFile` asserts "Must not overlap" (`version_set.cc:747`).

### Other deviations

Met while modelling, and kept out of the checked properties by the premises above
or by the choice of scopes:

- `PostController.swift:41`: a fetch that finds no posts returns before it touches
  `posts`, so the array keeps what an overlapping fetch stored, although the comment
  says it "updates self.posts with all posts on Firebase".
- `PostController.swift:70`: one stored post whose position is no number empties
  the board of everybody; `:71`: longitudes are compared as numbers, so posts on
  the other side of the 180th meridian are missed.
- `db_impl.cc:1215`: a log append that fails half-way sets no background error; the
  next unsynced write is appended behind the torn record, returns OK, and is
  lost when the process exits. (`options.h` promises that a mere process crash
  loses no write.)
- `db_impl.cc:1303`: the null batch of `TEST_CompactMemTable` may join the group of
  the writer before it; then no memtable is switched and nothing flushed.
- `db_impl.cc:201`: `NewDB` does not sync the first manifest, `SetCurrentFile` does sync
  CURRENT; power that fails between them leaves a database that does not open.
- `db_impl.cc:1499`: with `reuse_logs` Open keeps a manifest whose last record may never have
  been synced (the sync failed, or the process ended before it), syncs nothing
  (`version_set.cc:1013`), and unlinks the tables which that record deletes. Power that
  fails now may take the record and leave the unlinked names gone: the manifest names a table that
  is not there and the database does not open. TLC finds this in the scopes of `environment`
  when the premise `reliance # "lost"` of `NeverCorrupt` is dropped.
- `log_writer.cc:103`: a manifest record is handed to the system before the directory
  is synced; a system that writes it out at once and loses power names a table
  whose directory entry is gone.
- `env_posix.cc:627`: a thread that the lock table refuses closes its descriptor of
  LOCK, and with it goes the fcntl lock of its whole process.
- `pb_decode.c:233`: the bits of a varint's fifth byte that do not fit are checked only
  if it is the last byte; with padding behind it they are dropped.

## 4. Proofs

`SessionProofs` begins with the location service and proves, for every value of
`MaxRequests` in `Nat` (the only assumption, `MaxRequestsAssumption`):

- `LocationTypes`: `Spec => []TypeOK`;
- `LocationNeverTraps`: `Spec => []NoUnbalancedLeave`;
- `LocationFresh`: `Spec => []AnswerIsFresh`;
- `LocationInOrder`: `Spec => AnswersInOrder`, an action property.

None of the three invariants is inductive. Why no group is left twice is a fact
about *three* things at once: a group that is current is the newest
(`GroupIsNewest`), so only the fix owed to the newest request can leave it, and
while that fix is owed the count is 1. Freshness needs to know that whatever is
queued was submitted by a fix that came after its request (`FixAfterRequest`),
and the order of completions needs the queue to be sorted (`QueueInOrder`) and
everything that was answered to be older than everything queued
(`AnsweredFirst`). Their conjunction with the three invariants is `LocationInv`;
`InvInit` and `InvStep` show that it holds initially and is preserved
by each of the five actions, `LocationInvariant` puts it together, and the
theorems above follow. `QueueAppend` and `QueueTail` say what the two operations
on the queue do.

Of the session it proves, for any accounts and any bounds in `Nat`
(`MaxRequestsAssumption`, `SessionAssumption`):

- `SessionImplements`: `SessionSpec => Init /\ [][Next]_vars`, that is, the session
  implements `Location` without its fairness; the fairness half of `UsesLocation`
  is model-checked;
- `SessionSafe`: `SessionSpec => [](NoUnbalancedLeave /\ AnswerIsFresh)`, which
  carries the theorems about `Location` over to the session that uses it;
- `SessionUsers`: `SessionSpec => []UserIsRight`.

`UserIsRight` is not inductive. That the user of a controller is its newest login
needs `LocationInv` (answers come in order, so the latest answer is the newest
request); that nothing but an overtaken answer undoes a sign-out needs to know
that no request is made while nobody is signed in and that a user of the tabs was
set after the last sign-out (`SignOutInv`); and both need the bookkeeping of
sheets and sign-ins (`SheetsInv`, `LoginsInv`). Their conjunction is `SessionInv`;
one lemma per larger action shows that it is preserved, `SessionInvStep` puts them
together.

`PosixProofs` is about the four small parts of the POSIX environment, whose runs
have a few threads, calls and bytes:

- `LockOneOwner`: `LockSpec => []OneOwner`, for any threads and processes (`HomesAssumption`: a
  case gives each thread a process), and its two halves `LockPerProcess` and `LockExclusive`.
  Within a process the invariant is `TableIsRight`: from its insertion into
  the lock table to its removal, the entry of a process belongs to one thread of it. Between
  processes it is `OwnerIsRight`, whoever holds the lock has it from the system, which is true
  where each process locks from one thread (`OneThreadEach`). Without that the database can
  have two owners: a thread that the table refuses closes its descriptor and drops the lock of
  its process;
- `FilesWithinLimits`: `FileSpec => []WithinLimits`, for any finite set of threads
  (`ThreadAssumption`) and any limits in `Nat` (`LimitAssumption`). A limiter's counter may be
  negative while it refuses somebody, so the limit alone (`CountsWithinLimits`) is not
  inductive: it is `NothingLeaks`, the exact count of those between their `fetch_sub` and
  their `fetch_add`, that shows that a thread which found something left found all the
  others within the limit (`LimiterInv`);
- `WorkRunsInOrder`: `WorkSpec => []WorkInOrder`, the safety half of `WorkRuns`
  (`ItemAssumption`): items have run, run, or wait, one behind the other without a gap (`WorkInv`);
- `NoByteIsLost`: `BufferSpec => []NothingLost`, for any size of the buffer (`BufferAssumption`).
  `BufferInv` is about the place where the buffer begins (`Written`): the buffer holds the
  bytes from there to the last one appended, the file some before it in order, and all of
  them while nothing has failed. `BytesJoin` and `BytesPrefix` say how runs of bytes are put
  together and cut.

`SkipListProofs` proves `ReadersNeedNoLock`, `Spec => []ListIsSafe` for any number of
keys and any height (`SizeAssumption`). Along a level the links lead upwards and pass
over no node of that level (`Sorted`), whatever is not linked on a level has no link
there but the one the writer is making (`OffLevel`), and a node is on all levels below
its highest (`Nested`): together these say that wherever a search stops to go
down, it is at a node of the next level and before its key. The writer's part is that
`prev`, found before the first store, is still the place of its key at every level
that is not linked yet (`WriterIsRight`), which holds because there is one writer.

`RealtimeDatabaseProofs` has the lemmas about the database client that do not
depend on who calls it, and `DatabaseProofs` concludes, for any devices, paths and
keys (`PathAssumption`: the paths are finitely many, so that a dictionary of listens can
be sent; `ScopesAssumption`: a scope is made of devices and paths):

- `NoWriteIsLost`: `Spec => []NoLostWrite`;
- `RemovalsWin`: `Spec => []RemovedStaysRemoved`.

Both are about the last write to a child winning although connections are lost
between a put and its answer and puts are sent again, and neither is inductive. The
argument has four parts. *The connection* (`FlightInv`): the outstanding puts of a
connected client are, in the order of their numbers, first those whose answers are on
the way down and then those on the way up; an answer names the put that it answers; a
client that is not connected has nothing on the way, and what it sends on its
return are its outstanding puts, all of them and in order. *The last write decides* (`Kept`): while a child is `mine`, each
outstanding put that removes it is followed by one that sets it, and if the server lacks
it the put that sets it has yet to reach the server. `Undone` is the same with sets and
removals exchanged. A put that the server has handled and
whose answer was lost goes back from "answered" to "to be sent", which is why both parts
quantify over all outstanding puts and not only over those the server has yet to see.
*Keys* (`Fresh`): a key that `childByAutoId` has drawn is known to one device, and is
set once; without it a second device could set what the first removed. `DatabaseInv` is
their conjunction with the types of the queues (`QueuesOK`); there is one lemma
per action for each part, the server's steps with those of another device included.

`MessageBoardProofs` puts the app on top of the same lemmas and proves, for any posts,
comments, accounts and scopes (`DatabaseUse`: which paths the app listens to;
`ScopesAssumption`):

- `BoardTypes`: `Spec => []TypeOK`;
- `TablesFollowArrays`: `Spec => []ArraysInSync`;
- `OnlyOwnAreDeleted`: `OnePerson, PostsAreSigned => (Spec => []DeletedAreOwn)`;
- `CommentsStay`: `~MayDeny => (Spec => CommentsGoLast)`, an action property.

That the shared array ends up holding what the last fetch delivered is a fact about fetches
that never end: `fetchPosts` empties the array and only an answer fills it again. The
invariant (`FetchOK`) is that the array is right, or some fetch of the posts is a queued call,
an observer that waits, or an event on the main queue. What has to be excluded is an
observer that waits when nothing is on the way any more, and that takes the database
client apart. Of each view, the observers are at least those that wait, those
whose event is on the main queue and those whose `removeObserver` is a queued call
(`Observing`): the count in `FSyncTree` never loses one that waits. A filled view has
observers, none of which waits (`FilledOK`), and while the connection is up a view
with observers that is not filled has its listen on the way up or the answer on
the way down (`ListensOK`). What is read, shown and removed are posts of one set `S`
(`Shape`, `AppOK`); `BoardInv` is the conjunction of these with `TablesInSync` and
`FlightInv`, one lemma for each action shows that it is preserved, and that a step of the
database takes no block off the main queue and no fetch from its way (`Behind`).

`CommentsStay` needs to know more of the puts: when a put that clears the comments of a post
reaches the server, the post must be gone. A post is `Doomed` by some puts if each outstanding
put that makes it is followed by one of them that removes it and, while it is on the server,
one of them that removes it has yet to get there; the invariant is that a put that clears the
comments of a post follows puts by which the post is doomed (`PutsClear`), and that a queued
call that clears them finds it doomed or follows a queued removal (`CallsClear`). A lost
connection sends all outstanding puts again, those that make the post included, which is why
the removal must come between. What could still break it is a post that is made
after it was deleted. It is not: an id is drawn once and its post is queued once
(`OnceMade`), and the app deletes only posts that have left the queue, since it shows only
what the client reported. This is `BoardInv(S)` again, with `S` the posts that have got
further than the queue (`Reached`), a set that grows with the steps; the lemmas about
`BoardInv` are stated for every `S` for this reason. The hypothesis `~MayDeny`
is needed: the app does not look at the answers to its writes, so where the
server refuses the removal of the post the comments go all the same.

`OnlyOwnAreDeleted` is about one person's phone, as the run is: `DeletedAreOwn` compares
everything deleted since the launch with the last login, so it says nothing useful of a phone
on which a second person signs in (`OnePerson`). While nobody is signed in the activity list
keeps the posts whose author is the empty string, so no post may have that one
(`PostsAreSigned`). The invariant (`OwnInv`) is that the list, which outlives the sign-out,
and what was deleted hold posts of `owner` only, and that `owner` is the user while there is one;
the swiped row may be stale because what is deleted is taken from the list, not from the row.

`ManifestProofs` proves of the files of a LevelDB database, for any scopes and any bounds on
file numbers, crashes and errors (`SettingAssumption`), where the system writes
no data back before it is synced (`~WriteBack`, as in the run):

- `DatabaseAlwaysOpens`: `Spec => []DatabaseOpens`, that is, `NeverCorrupt`, `TablesExist` and
  `TypeOK`;
- `NothingIsForgotten`: `Spec => NothingForgotten`, an action property.

Power may fail at any moment, so what matters is what each file name would then stand for. A
*view* is a directory together with the contents of its files: `Now` is the view of a
process that is restarted, `Durables` are those after a power failure, one for each
directory since the last sync, each file cut to what of it was synced. The proof has two
layers. The first is about files alone (`FilesOK`: no inode is written under one name
and needed under another, and CURRENT is only ever replaced): `CreateChanges`,
`AddRecordChanges`, `SyncChanges`, `DropChanges`, `RenameChanges` and `PowerChanges` say what
each operation does to all views at once. The second says what the database keeps in them. A
view is `Good` if CURRENT names a manifest whose last record has a next file number, in which
a table it names is the one it was, if it is there, and has a number below that one, and which
makes a version in `tried`; or if the database need not be there yet. It is `Complete` if the
tables are there. `Views` says that all views are good, that none names a number beyond those
of the present manifest (`Below`), so that a number given from now on stands for nothing in
any of them, and which views are complete (`Relied`): all, as long as nobody relied on
records that were not synced; the present one, while an Open does, for what it unlinks by
those records the durable views may still name (`FrameDrop`); and perhaps none once the
power has failed then, but in that case there is only one view left, and the next Open finds
all its tables, or reports that they are missing and goes no further. That is why `TablesExist`
needs no exception and `NeverCorrupt` does. `Phase` adds what `LogAndApply`, `SetCurrentFile` and
`NewDB` have done at each place where a crash may find them. It is here that the orders in the code
are needed: the table is synced before its record is appended, the directory before the
manifest, and the new manifest before CURRENT is renamed. `Inv` is
their conjunction; a failed call deletes a file only where no view needs it (`Abandoned`,
`Spares`). Where `WriteBack` holds the theorems are not stated: `TablesExist` then fails (see
the deviation at `log_writer.cc:103`).

`DBImplProofs` proves of LevelDB's write path, for any writers and batches, any buffer sizes
and any bounds on crashes, failing file operations and failed appends (`DBAssumption`: the
batches are sequences of keys and the trigger and stop of level 0 are ordered;
`ScopesAssumption`):

- `SnapshotsHold`: `Spec => []SnapshotsAreRight`, that is, `TypeOK`, `AllOrNothing`,
  `SequencesUnique`, `GetIsSnapshot` and `SyncedStay`;
- `NoShownIsLost`: `Spec => ShownStay`; no step but a crash of the machine takes an entry out of
  `Visible`. `options.h` promises this of "just the process that crashes";
- `WritesTakeEffectInOrder`: `Spec => WritesInOrder`; the entries that a step adds to `Visible` are newer
  than all that were there. While the database is open they are those of writes that this step answers
  with success, and each such write is shown then; when it goes down, those of writes that were not
  answered with success (in flight, or in a log whose sync failed).

The last two and `SyncedStay` are what `KVStore` says of a step, for sets of entries in place of its
sequence of writes. No run has them as properties of their own: on the runs' instances `KVSpec` implies
them.

`SyncedStay` and `ShownStay` have the premise `torn = 0`, no append has failed: behind a torn
record nothing is sure to be read again (the deviation at `db_impl.cc:1215`).

An entry may at one moment be in a memtable, in a record of a log, in the tables of the
version, in those of the manifest, in an edit that is half written and in what a recovery has
read. The proof calls each of these sets a *piece* (`Pieces`) and looks at all of them at once.
`Sound(Pieces)` says that a piece has all of a write's entries or none, that an entry of a
write that another piece has too is in both, and that no two entries of two pieces share a
number. A step that moves entries makes pieces that are unions of pieces (`PiecesMove`), so it
keeps this (`SoundUnion`); only `AddRecord` makes a new one, the group's record, and that is fresh
(`SoundFresh`) because its writers have not been answered while those of all other pieces have
(`Answered`) and because its numbers are beyond `lastSequence` while all others are not
(`Counted`). The last needs three facts that no single step shows: what a log still has after a
failed sync was counted all the same; a recovery, which only looks at the last number of each
record (`LastIsMax`) and at the manifest's, finds a number beyond everything it keeps; and the
numbers that are lost with a crash were given to entries that are lost with them.
For `Get` the invariant has the order (`OrderInv`): whatever is in tables comes before what is
in the newest log, older logs come before newer ones, and the tables come before the
immutable memtable, so that the first place with a key has its newest entry
(`GotIsNewest`). `ReaderIsRight` says that what a reader took under the mutex shows, up to
its snapshot, just what is in memory now, whatever was switched, inserted or flushed since
(`ReaderStays`, one case per step that moves entries). `QueueInv`, `BgInv` and `FilesInv` are what
these rest on: a group is the front of the queue, an edit adds the immutable memtable to the
version, a memtable is in its log, and a log that is deleted is in tables.

What stays needs a second invariant, `StayInv`. All that is in memory is on disk, where the next
recovery looks: the tables are in the manifest, a memtable is in its log, or, once the edit of its
flush was saved, in the manifest (`DiskInv`). What asked for sync gets into memory only when it is
synced in that log, because the leader of a group asked for sync if a writer of the group did
(`GroupInv`); so a crash, which leaves all that was synced of a log (`LeftStays`), leaves it. A
recovery has read every log that counts before it saves what it read (`ReadInv`), and reads no
record that the machine may still lose (`SyncInv`). `ShownStays` draws from these that steps keep what is
shown, `OkComes` that a write is answered with success only when its group is in memory.

What is new needs a third. `Hidden` is what the logs have and memory has not: `HiddenInv` says that it is
the group at work, or, behind a background error, that of a failed sync, after which no group is built
(`LeaderStays`, `ErrorStays`); either way it is newer than all that is in memory and not answered with
success. Without it a crash might bring up a write older than one it keeps. `SavedInv` says that a
recovery makes nothing up.

**Only model-checked.** Liveness (`LoginEnds`, `CallsAnswered`, `Settles`, `WritesReturn`,
`WorkRuns`, `DecodingEnds`, the fairness half of `UsesLocation`) is outside what the proof
system handles, as is everything built on recursive
operators (`Block`, `Table`, `LogFormat`, `PbVarint`, `PbMessage`).
`ReadYourWrites`, `GetIsRight` and `VersionIsSound` are false in general (findings 1, 3
and 4) and checked where they hold.
`KVSpec` itself, which sorts what is visible into a sequence (the order, the whole groups and what
stays are proved above), `OwnChangesShown` of the board, the screens that create posts
(`FormIsStored`, `AreaIsRight`) and the rest of LevelDB have no proofs.

## 5. Not modelled

- *App*: cells, colours and the scene delegate (presentation without state).
- *Firebase Auth, Google sign-in, the tab bar and tag list pods, and all other
  pods*: the app is modelled from what it asks of them. Most of their C-family files
  in the repository are public headers: declarations and documentation, with the
  implementation in Objective-C or in binaries.
- *Database client*: transactions, merges, queries, priorities, `onDisconnect`
  writes, `keepSynced`, disk persistence and authentication of the connection, none of
  which ZipR uses; the text of posts and comments.
- *LevelDB*: `repair.cc`, `dumpfile.cc` and the C binding, which nothing here calls;
  hashes, checksums, codings, arena, histogram and status, which are arithmetic or
  plain data and appear as what they promise; `version_edit.cc`, the encoding of edits;
  `GetProperty`, `GetApproximateSizes`, `DestroyDB`; logging and statistics;
  compression; the headers.
- *nanopb*: callback and pointer fields, floating point, streams other than buffers.
- `fbase64.c`: a table coder for one handshake header.

Of the lines of C, C++ and header files in the repository the map covers about a
tenth: of the roughly 52 thousand, 33 thousand are headers of pods without code to
model, and of LevelDB's and nanopb's own sources a good third is mapped, the rest
being the parts above, comments, and code whose only effect is on what is left out.

## 6. Plan

1. **Proofs**: `OwnChangesShown` of `MessageBoard`; from the theorems of `DBImplProofs` to `KVSpec`, for
   which the sequence that `Store` sorts must be shown to exist.
2. **MessageBoard** composed with `Session`, so that `LogIn` is the completion of a
   request, and shown to implement `DatabaseClient`.
3. **Compaction** and **DBImpl** composed, with the manifest between them.
