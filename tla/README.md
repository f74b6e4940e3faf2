# BucketList: a TLA+ model of the app

BucketList is an iOS app (Swift, UIKit, Firebase) in which people create
*buckets* (lists of things they want to do), file *posts* in them, comment,
befriend one another and talk.  There is no server code: every device writes
the documents of one Firestore database itself, and the relations between
documents are kept by sequences of separate writes and reads, tied together by
completion closures.  What can go wrong is therefore mostly what happens
*between* those writes: another device writes, a closure never runs, an answer
comes late, a screen has moved on.

The models follow the Swift code under `src/BucketList/BucketList` and
`src/BucketList/BucketFirebaseFunctions.swift`.  `src/BucketList/Pods` is
vendored; the Firestore client in it is read for what the app relies on (see
*The environment*), the rest is left aside.

Paths below are short for the file names: FF is `Helpers/FirebaseFunctions.swift`,
BF `BucketFirebaseFunctions.swift`, EP, CP and PV
`View Controllers/Post/EditPost`-, `CreatePost`- and `PostViewController.swift`, BL
`Buckets/BucketListTableViewController.swift`, PR `Friends/ProfileViewController.swift`,
CC `Model Controllers/ConversationController.swift`, FL
`Model Controllers/FriendsListModelController.swift`.

## The parts of the system

| Component | Code | State it keeps | What must hold | Module |
|---|---|---|---|---|
| Posts and the buckets they are filed in | FF createPost, editPost, deletePost, fetchPost; BF createBucket, deleteBucket; EP, CP, BucketItTableViewController | documents `posts/{uid}` (bucketID), `buckets/{id}` (postsIDs), `comments/{id}`; the screen's bucketID and oldBucketID | a live bucket lists the posts that name it, and nothing else; deleted documents stay deleted | PostBuckets |
| Fan-out fetches | BF fetchBuckets, fetchBucket; FF fetchAllPosts, fetchAllPostsForUser, fetchUsersData, fetchPost, fetchUserData | a DispatchGroup and an array per round | each round is answered once, with all of its documents | FanOut, Gather |
| Bucket screens | BL, BucketItem- and CreateBucketViewController | the two sections, the rows last loaded, one listener per load | the sections show the buckets there are, each once; a swipe hits its row | BucketScreens |
| Accounts | Login/*; FF usernameIsAvaliable, createUser, signInUser; PR sign out | Auth session, `users/{uid}`, `friends/{uid}` | a taken user name is refused; each account has its documents | Accounts |
| Friends | FL; FF fetchFriends; FriendsListTableViewController | `friends/{uid}`, loggedInUserID | lists hold what their owner put there, and keep it | Accounts |
| Post screen and comments | PV | static currentPost, static postID of EP, postUser | the screen shows, and edits, the post it was opened for | PostScreens |
| Profile | PR and its cells | static profileUser, loggedInUser | the buttons act on the user who is shown; the picture button belongs to its owner | PostScreens |
| Conversations | CC, Messages/*, ConversationTableViewCell | `conversations/{id}` and sub-collections, conversationsID of the users, shared conversations and messages arrays | lists name conversations that exist; screens show their own; members see them | Conversations |
| Feed | FeedTableViewController and its cell; FF fetchCurrentUser, fetchFriendz | static posts, friendsPosts, friendsList, blocked | – | fetch in FanOut, opening a row in PostScreens; else not modelled |
| Search | SearchUserTableViewController | users | – | not modelled |
| Models, helpers, app lifecycle | Models/*, Helpers/*, Resources/* | none | – | – |
| Disabled code | OldProfile*, AddBlockReportViewController | commented out from end to end | – | – |

How they interact: every screen calls the static functions of FF and BF with a
closure; the closures run on the main queue, and change the screen's fields,
the static fields of *other* screens, or issue further writes.  Screens hand one
another a bucket through the delegate `BucketItPicked`, and a post or a user
through the statics `currentPost`, `postID` and `profileUser`.  Conversations share the
arrays of one ConversationController.  Devices interact only through the database.

The hard behaviours are listed, each at its line, under `hazards` in
`PROJECT.json`: a second write issued by the closure of a first; edits racing
deletions; values captured before a request and used after it; listeners that
are never removed and whose rounds overlap; groups left too early or never;
arrays and statics shared by all screens; a session read before Auth has answered; an app
ended between two writes.

## The environment

What the code relies on, with the place in the vendored client that says so
(`Pods/FirebaseFirestore/Firestore/core/src` unless stated otherwise).  The definitions that
model it are mapped to these lines.

* Completion closures and snapshots run on the main queue
  (`Source/API/FIRFirestoreSettings.mm`, `core/event_listener.h`), so two closures never
  overlap.
* A write is handed to the client's own thread, stored there, applied to the
  device's own view at once, and its listeners are told; it is sent later
  (`core/firestore_client.cc`, `core/sync_engine.cc`, `local/local_documents_view.cc`).
* The server takes the stored writes of one device in their order, and its outcomes
  come back in that order (`remote/remote_store.cc`).
* Each signed-in user has a queue of writes; those of the present one are sent
  (`local/local_store.cc`, HandleUserChange).
* All listeners of one query are told together, in the order in which they were
  added (`core/event_manager.cc`).
* Stored writes survive the end of the app; the closures do not, nor do writes
  the app had not handed over.
* `updateData` on a missing document is refused, `setData` creates it;
  `document("")` raises an exception (`api/collection_reference.cc`).
* `getDocument` of a device with a connection answers with the server's
  document under the device's own queued writes (`api/document_reference.cc`).

Left out: answers from the cache while there is no connection, security rules
(the repository has none), and writes refused for any other reason than a
missing document.

## The modules

### PostBuckets

The core: the two ends of the relation between posts and buckets.

| Variable | In the code |
|---|---|
| `posts`, `status`, `postsIDs`, `comments` | the documents on the server; a bucket's id is drawn by `UUID()` and used once, so its document is unborn, live or dead |
| `queue` | writes issued by a device and not yet taken by the server |
| `acks` | outcomes whose closure has not run |
| `screen` | the screen in front: feed, create, edit, the last two perhaps under the bucket picker; with bucketID, oldBucketID and how far `fetchPost` has come |
| `ops`, `kills` | bounded: MaxOps visits, deletions and new buckets, MaxKills ended apps |
| `crashed` | devices on which an exception ended the app |
| `filed` | history: the pairs of post and bucketID the server has accepted |

A post's id is its author's uid (FF:298, `let postID: String = currentUserID`), so a new
post takes the place of the author's last one, and `Users` is the set of devices
and of posts.  nil bucket ids become `""` (`Empty`) by `?? ""`; `"0"` (`Zero`)
is the default of CP:22.

The actions follow one write from tap to closure:
`OpenCreate`/`OpenEdit`, `TapBucketIt` (EP:82 takes the bucketID of the moment
as the old one), `BucketItPicked`, `CreatePost`/`EditPost` (the tap that issues
the write and leaves the screen), `ApplySetPost`/`ApplyUpdatePost`/
`RejectUpdatePost` (the server), `PostCreated`/`PostMoved`/`PostKept`/
`EditRefused` (the closures, with the writes they issue), and `ApplyAddToBucket`
or `ApplyRemoveOld` (the server again).  `CrashOnNoOldBucket` is the closure of
`editPost` with an empty oldBucketID.  `AnswerFetch` and `ShowFetched` split
`fetchPost` into the server's answer and the closure that shows it, so that the
answer may be old when it is shown, and a tap may come before it.

What another user may do is not restricted: PV lets every user edit and delete every
post, so the model does.

`Shelves` is what the documents promise when the devices are left out: a post is in one
place at a time, a bucket is opened once and closed for good, lists only what was put in
it while it is open, and comments are kept only for posts there have been.  In
`Docs == INSTANCE Shelves WITH ...` the documents on the server are those of
`Shelves`: each write the server takes is `File`, `Remove`, `Discuss`, `Open`, `List` or
`Close`, or changes nothing; every other step is a stutter.

### FanOut and Gather

`Gather` is the promise: a function asked for a set of documents answers at
most once, with one entry for each.  `FanOut` is how the four functions do it: a
snapshot (or one request) gives the ids; the loop starts one `getDocument` for
each and enters the group as often; each callback appends its entry and leaves;
the last one makes the group notify; the notification hands over the array.
`main` is the main queue, `rounds` the rounds of all calls; `rounds[r].open`
are requests under way, `inside` the ids for which the group has not been left.
A change of the collection starts a new round while older ones are under way.
`fun` is the function; they differ in `WaitsFor` (fetchAllPosts leaves its
group in the loop), `CallsBack` (fetchPost makes an empty post of a missing
document, fetchUserData passes over a missing user, fetchBucket raises) and
`Tell` (fetchUsersData asks once).  The refinement is
`G == INSTANCE Gather WITH asked <- ..., answer <- ...`.

### BucketScreens

The list screen on top of the rounds of `fetchBuckets`.  `loadData` (opening the
screen, pulling it down, the completion of a deletion) empties `sections` and adds a
listener that nobody removes; with every change each listener starts a round;
the answer of a round is appended as far as the section does not hold it yet
(`New`, `Extended`).  `table` is what the last `reloadData` saw, and `UpdateViews`
puts that reload on the main queue as a block of its own, so that `table` and
`sections` differ in between; a swipe reads the row from the one and the bucket from the
other (`Swipe`, `CrashOnRow`).  The histories `past` (buckets deleted while
a round is under way) and `pulled` are only read by the properties.
The order in which answers come within a round is any, so the rows of one round
are in any order in which its answers may have come.

### Accounts

`stack`, `typed` and `forms` are the four forms of signing up and the checks of the
user name that the first form starts and nobody waits for: `LookAtNames` is the
server's answer, `AnswerCheck` the closure, which pops whatever screen is in
front.  `CreateUser` (the last form) asks Auth for an account and in the same step writes
the friends list of whoever is signed in; without a session `uid!` raises
(`CrashOnNoSession`).  `MakeAccount`, `SignInNew` and `UserCreated` are Auth's answer, the new
session, and the closure that writes the user document.  `queue` is kept per device
*and* user.  `AddFriend` and `Block` write the lists of `loggedInUserID` (`ListOwner`),
read once when the instance was made (`listed`).

### Conversations

`worker` is what the app has handed to the client's thread, `queue` what is
stored there; `known`, `heard` and `got` are the cache.  `Create` writes the conversation, and per
member its document followed by the lists of *all* members (`PerMember`: the
completion is called in the loop).  `OpenList` asks twice for the user
(viewDidLoad and viewWillAppear); `UserFetched` adds a listener that keeps the
conversationsID of that moment.  `ShowList` sets the shared array,
`ReloadTable` (a block of its own) the rows; `OpenTalk` opens the entry of the shared
array at the tapped row.  `ShowMessages` fills and copies the shared messages in one block.
`Kill` ends the app: what was not stored is lost.  Only the screens of the users in
`Followed` are modelled, the others write.

`Directory` is what the documents promise together when queues, caches and screens are left
out: a conversation is made once, for those who were picked; its members and the lists
that name it are theirs; only they open it and write in it; and its own document
is on the server before anything that refers to it.  In `Docs == INSTANCE Directory`
`Create` is `Make`, `Send` is `Say`, `Serve` is `Put`, `Join`, `List` or `Publish` by the
write it takes, `OpenTalk` is `Open`, `LeaveTalk` and the end of an app are `Close`; every
other step is a stutter.

### PostScreens

The navigation stack, with a record per screen: what it was opened for (`own`), what it
draws (`shown`), who it knows of (`user`).  A post screen draws the static
`currentPost`, a profile draws and acts on the static `profileUser`, an edit screen saves to the
static `editing`.  Requests outlive their screen where their closure sets a static
(`Pop`).  `mixed` is history: the static was set for another screen since.  A
screen asks for its data as it is pushed: nothing else runs on the main thread
between the tap and viewDidLoad.

### The MC and proof modules

Each `MC*` module gives TLC the small values and symmetry of one model.
`MCPostMoves` adds to `MCPostBuckets` the history `moved`: the moves between two live
buckets that `editPost` has asked for, each forgotten when its post is created anew or
listed by the old bucket again.  With `ApplyRemoveOld` taking the post's id out of
`postsIDs`, TLC finds no violation of `OldBucketForgets` under the same cfg (340,012
states): what violates it is that removal alone.
`PostBucketsProofs`, `PostBucketsFiledProofs`, `FanOutProofs`, `BucketScreensProofs`,
`AccountsProofs`, `ConversationsProofs`, `ConversationRowsProofs` and `PostScreensProofs`
hold the theorems.

## The runs

| Run | Distinct states | What it shows |
|---|---|---|
| filing | 335,910 | `Filed`, `NoCrash`: with two devices, two buckets and three operations, created posts and edits that wait for their post and pick once are never left out of a live bucket, and no closure asks for the document `""` |
| hazards | 2,120,986 | `TypeOK`, `OnlyFiled`, `HasComments`, `NoRevival`, `DeadStaysDead` and `Shelved` (PostBuckets implements Shelves), with deletions, early taps and an ended app on top |
| live | 83,712 | `CreatedIsFiled`: each new post ends up listed, unless its bucket is deleted |
| repick | stops at the violation | `Filed` with a second visit to the picker: see the findings |
| move | stops at the violation | `OldBucketForgets` with two live buckets and the history of the moves between them: see the findings |
| groups | 339,811 | `Gathers` (FanOut implements Gather), `NoneHangs` and `EachAnswered`, for fetchBuckets, fetchAllPostsForUser and fetchUsersData: no group waits for nothing, each round is answered |
| early | stops at the violation | `FetchesAll` for fetchAllPosts: see the findings |
| lists | 1,011,260 | `EachOnce`, `RowsCatchUp`, `RowIsBucket`, `NoneForgotten`, `OnlyOldRoundsRevive`, `Appears`: overlapping rounds show each bucket once, a swipe hits its row, only old rounds revive a deleted bucket, what there is is shown or on its way, and appears |
| people | 500,976 | `TakenIsRefused`, `BlockedStay`, `OwnLists`, `DocumentComing`, `OwnDocument`, `GetsDocument`: sign-ups that overtake one another, blocking on one device and on two |
| base | stops at the violation | `HasFriendsList`: see the findings |
| talk | 179,370 | `ListedExists`, `NoneDropped`, `NewestWins`, `RowIsConversation`, `OwnMessages`, `ShowsSeen`, `Directed` (Conversations implements Directory), `AllListed`, `Arrives`: conversations and messages, and an app ended between two writes |
| nav | 4,296,263 | `ShowsOwn`, `EditsOpened`, `ActsOnShown`, `PictureIsMine`: every way through five screens, with late answers |

Bounds.

* PostBuckets: two users are an author and another device; two buckets are an old and a
  new one.  Three operations let an edit by one device run between the two writes
  of the other and a deletion hit both; each operation is the whole visit, so up
  to nine writes come of three of them.  One ended app loses closures of either write.
* FanOut: two changes give three overlapping rounds of up to two requests, one of which
  may fail.
* BucketScreens: two loads give two listeners, and a swipe's completion a third; the
  one change, by another or by a swipe, falls into rounds under way.  Both buckets are in one section, where
  rows can be mixed up; the proofs hold for any number and for both sections.
* Accounts and Conversations have *budgets*: a behaviour has one of a few combinations
  of bounds (`MCBudgets`), each chosen for one kind of interplay, as all of them at
  once are too many.  Accounts: two forms next to a member, with an ended app; two
  members on two devices who sign in, block and are ended; one sign-up amid two members
  who block.  Conversations: a first one made; a second one with an ended app; two
  visited, with a message; two messages with an ended app.
* PostScreens: five screens let a post be opened over a profile over another post, and
  a late My Profile push a profile over an edit screen.

The runs set `CHECK_DEADLOCK FALSE` because the bounded operations run out and the
app then rests, or has crashed.  Symmetry is used only in runs without liveness.

Fairness.  `PostBuckets` assumes that the server in the end takes the writes of
each device (Firestore retries a write until it is answered) and that the main
queue runs the closures; nobody has to tap.  `FanOut` assumes that
requests are answered, perhaps with an error, and that the main queue runs, but not that a
listener is told of a change.  `BucketScreens` assumes the same two, that listeners are told
and that deletions are acknowledged.
`Accounts` assumes that Auth answers, its closures run, and the
writes of the user who is signed in are taken.  `Conversations` assumes the client's thread,
the main queue, the server and its listeners.  No step of a user is assumed.

What the properties except, they name: an ended app, an error, a tap before the
rows were loaded again.  These are cases in which the code does do the wrong thing,
and they are described with the hazards.

* `ShowsOwn` excepts a post screen over which another post was opened, or for whose static another
  answer came: it then draws the other post.
* `EditsOpened` excepts an edit screen over which a late answer of My Profile pushed a
  profile, if the menu of another post was opened from there: Post then saves to the
  other post.
* `ActsOnShown` excepts a profile in front when My Profile answers for a post screen
  already left: its buttons then act on the signed-in user.
* `RowIsBucket` excepts the moment after pulling down, when a row has no bucket.
* `OwnLists` excepts users whose lists an instance went on writing after another
  user had signed in; `BlockedStay` those signed in when someone signed up.
* `TakenIsRefused` speaks of answers that find the second form in front.

## What is proved

`PostBucketsProofs`, for all sets of users and buckets and all bounds:

* `TypeCorrect`: `Spec => []TypeOK`.
* `OnlyFiledHolds`: a bucket lists only what the server accepted.  `OnlyFiled`
  alone is not inductive: the listing is issued one step after the acceptance
  and served later.  `FiledInv` adds that each queued listing, and each accepted
  outcome, is of an accepted pair.
* `DeadStaysDeadHolds`: with `BucketInv`: each bucket's creation is queued at
  most once, only before it is born, and only live buckets list anything.
* `NoRevivalHolds`: with `ByAuthor`: a creation of post p is queued on device p only.
* `HasCommentsHolds`: as long as no app is ended.  Between the two writes of createPost
  there is a closure, and other devices edit and delete the post meanwhile.  `CommentsInv`
  speaks of devices that have not crashed: each of their queued creations still has
  its closure, so what the server has taken is followed by an outcome, and that by the
  comments document.
* `ShelvedHolds`: `Spec => Shelved`, that is, `PostBuckets` implements `Shelves`.
  `ShelfInv` is `FiledInv` and `BucketInv` with `DocsWereFiled` (a queued comments document
  is of a post that was filed).  `FiledInv` is what `List` asks for when a late listing is
  served, `BucketInv` that a queued creation finds its bucket unborn.  `ApplySetPost` and
  `ApplyUpdatePost` map to `File`, `ApplyDeletePost` to `Remove`, the comments document to
  `Discuss`, the bucket writes to `Open`, `List` and `Close`, or to a stutter when the
  bucket is not live.

`PostBucketsFiledProofs`, under `Undisturbed` (no app is ended, no second visit to
the picker, no tap before the answer, no deleted post):

* `FiledHolds`: `Filed` and `NoCrash`; `NeverCrashes`: the second alone.  The
  invariant `CoverInv` speaks of the
  future of a queue: "at n" means once the writes before the n-th have been
  served.  A write that does not move its post is covered at its place (its
  bucket lists the post, will, or is dead); the same holds of what an edit
  screen shows at the end of its queue, and of an answer that has not been
  shown yet.  The four conditions are needed: TLC finds `Filed` violated when
  any one of them is dropped (deleted posts with four operations).
  `Undisturbed` is what users and the system do, not what the code ensures; the
  `repick` run shows one of the cases.

`FanOutProofs`, for all sets of documents and calls and all bounds:

* `TypeCorrect`: `Spec => []TypeOK`.
* `GathersHolds`: `Spec => Gathers`, that is, `FanOut` implements `Gather`, for
  functions that leave the group in the callback (`LeaveInCallback`; the `early`
  run shows why fetchAllPosts is excepted).  `GatherInv` ties the three places
  in which a request can be: under way (`open`), in a block of the main queue
  (in `inside`, no longer in `open`, and in no second block), or in the array
  (no longer in `inside`); a notification is on the queue only for a group that
  is empty and has not notified yet.  So a notification finds the array whole,
  and there is no second one.  `StartRound` maps to `Ask`, `Deliver` to
  `Answer`, every other step to a stutter.
* `NoneHangsHolds` (`NoneHangs`), for fetchAllPosts too: the converse of
  `GatherInv`: whoever a group waits for is at one of those places, and only running it takes
  a notification from the queue.  It is inductive with `TypeOK`.

`BucketScreensProofs`, for all finite sets of buckets, any of them public, and all bounds:

* `TypeCorrect`, `OneRowEach` (`EachOnce`), `TableFollows` (`RowsCatchUp`),
  `SwipedIsDeleted` (`RowIsBucket`).  `IInv` is their conjunction with `Fresh` (nothing has
  been loaded before the first listener).  Rows only grow between two
  `loadData`, so a table loaded earlier is a prefix of the sections; where
  they differ, the reload is still on the queue.
* `OldRoundsRevive` (`OnlyOldRoundsRevive`), with `RInv`: what a round has got is in the
  documents or was deleted since the round began (`RoundSound`), and an outcome on the queue
  belongs to a request of its round (`BlockSound`, `Distinct`), so that a deletion
  between answer and delivery is marked.
* `ForgetsNone` (`NoneForgotten`), with `UInv`: every round that has something goes on
  (`RoundsGoOn`), so what is neither shown nor in a change still to be told is in one.
  `loadData` empties the sections and adds a listener in the same step: what was shown
  comes again.

`AccountsProofs`, for all devices, names, finite sets of users and budgets:

* `TypeCorrect`, `RefusedInTime` (`TakenIsRefused`), `DocumentIsOwn` (`OwnDocument`),
  `BlocksStand` (`BlockedStay`), `ListsAreOwn` (`OwnLists`), from one invariant in three
  parts.  `FormsInv`: the form whose contents a device hands on is open, its own and not
  yet used, and one refused in time is handed on nowhere and asks for no account; so a
  refusal in time cannot be overtaken.  `DocsInv`: the write of a user document is in one
  callback or at one place of one queue, and nobody's document exists before it, so
  whoever's queue it waits in, it is served at most once and for its own account.
  `ListsInv`: a queued write that empties a list belongs to a user marked as wiped, and one
  that blocks was asked for by its owner, unless that owner is marked as stale.
* `DocumentComes` (`DocumentComing`), with `WayInv`: a request belongs to the device on
  which its form was filled in, and one whose closure is gone was sent before its app was
  ended, so the document an end of the app loses is that of a lost form.

`PostScreensProofs`, for all sets of users, any number of screens and crashes:

* `TypeCorrect`, `OwnPost` (`ShowsOwn`), `EditsItsPost` (`EditsOpened`),
  `ActsOnWhoIsShown` (`ActsOnShown`), `OwnPicture` (`PictureIsMine`), from one inductive
  invariant over the stack and the requests under way: a request is of what its screen was opened
  for, and the static is that of any screen that is not marked.

`ConversationsProofs`, for all finite sets of users and conversations and all budgets:

* `TypeCorrect`: `Spec => []TypeOK`.  That the arrays are typed rests on `Ordered`
  finding a sequence for any finite set of numbers, which needs an induction over finite
  sets; it is done by a minimal counterexample (`LargestExists`, `OrderExists`).
* `ConversationFirst` (`ListedExists`), with `ListsLed`: on the app's thread and on the
  queue no write to a list comes before that of its conversation, unless the latter has
  gone on already (`Led`).  A conversation's first write is in front and its
  members' lists behind it, and the end of an app cuts off only the rest.
* `DropsNone` (`NoneDropped`): each write a conversation or a message needs has been
  applied, is on the app's thread or in the queue of some device, or was lost with an app.
  It is inductive by itself: `Create` hands over all of them, each step moves one on, and
  what the server has applied stays, as nothing takes a conversation out of a list.
* `LatestListenerWins` (`NewestWins`), with `NewestTold`: the last block of the main
  queue that sets the array brings what the device now sees, for the
  listener that came last.
* `OnlyOwnMessages` (`OwnMessages`), with `TalkSound`: tasks, listeners and blocks
  whose screen is the one in front are of its conversation, and each message on the
  way is of the conversation it was sent to.

`ConversationRowsProofs`, on top of it:

* `RowsAreConversations` (`RowIsConversation`).  A visit passes through four queues before
  it is a listener: the request for the user, a block of the main queue, a task of
  Firestore's thread, the list of listeners.  `InOrder` says that no visit overtakes
  another one in any of them, so the listener of the screen in front is the last to be
  told.  `RowsFollow`: then the last block that sets the array is of this screen, and where
  the rows still differ, the reload it added is on the queue.
* `ShowsAllSeen` (`ShowsSeen`).  `Following`: once its reader is there, what the screen in
  front shows, or the last block of the main queue that is for it, is what the device sees
  of the conversation.  What the device sees changes with its own writes as well as with
  the server's answers, and either way all readers are told in the same step.
* `DirectedHolds`: `Spec => Directed`, that is, `Conversations` implements `Directory`.
  `DirInv` follows a conversation on its way to the screen: what the server lists for a
  user and what the cache has heard (`Sources`), the ids in tasks, listeners and blocks
  (`WaysFine`), and what the shared array holds and the message screen has open (`AtHand`) are
  conversations that user was picked for (`Mine`).  It holds of the shared array since
  `ShowList` keeps of all conversations only those in the ids of its listener, and these come
  from the user's own list, however old.  The other half is the order: what the array holds is
  on the server or in the queue of that device (`There`), so a message, like a member, follows
  its conversation on the way (`NamesLed`, with `ListsLed` for the lists).  The steps of the
  queues are told apart only by their shape (`Moves`), those of listeners, blocks
  and screens one by one (`Held`).

Only model-checked: the liveness properties
(`CreatedIsFiled`, `EachAnswered`, `Appears`, `GetsDocument`, `AllListed`, `Arrives`), as
liveness is out of the prover's reach.  Their safety cores, that nothing which still has to
come is dropped on its way, are proved: `NoneHangs` for `EachAnswered`, `NoneForgotten`
for `Appears`, `DocumentComing` for `GetsDocument`, `NoneDropped` for `AllListed` and
`Arrives`, and `HasComments` and `Filed` for `CreatedIsFiled`.

## Findings

* `editPost` takes the old bucket's *own id* out of a field `postIDs` that
  nothing else uses, where the comment (FF:351) says the post's id is removed
  from the old bucket's array: a post moved between two live buckets stays listed
  by the old one, although it was neither created anew nor listed there again
  (run `move`).
* `bucketItBtn` overwrites oldBucketID with the bucket picked a moment ago: once
  the picker is opened again on that bucket, the post is written with a bucket that
  never lists it, though FF:348 says the post is added (run `repick`).
* `fetchAllPosts` leaves its group in the loop: the completion runs before the
  posts have come (run `early`).
* `createUser` writes the friends list of whoever is signed in before Auth has answered,
  where the comment (FF:72) says it creates the new user's: that user has none, and the
  other one's friends and blocks are emptied (run `base`).

## What is not modelled, and why

* Texts, images, reactions, comments and dates: no property depends on them.
* Cells, storyboards and layout; what a reused cell shows while answers come late.
* The feed's static lists and the search: the code orders nothing there and no
  comment says what they should hold; rounds only add to them.
* The friends screen, which asks for the members of a list it has not fetched
  yet, and `removeFriend` and `addUsers`, which nobody calls.
* The first request of `fetchUsersData` failing (it answers with an empty list at
  once), and lists of ids that repeat an id or hold the empty string.
* In `Accounts`, the end of an app before a write was stored; `Conversations` has it.
* Uploading a picture.
* The vendored libraries below the queue, the listeners and the local view of the Firestore
  client: transport, storage, cryptography.  They are most of the lines of the
  repository and no part of this program's logic.
