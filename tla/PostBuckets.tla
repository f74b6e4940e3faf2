---------------------------- MODULE PostBuckets ----------------------------
(***************************************************************************)
(* Posts and the buckets they are filed in.                                *)
(*                                                                         *)
(* A post document posts/{uid} names one bucket (its bucketID); a bucket   *)
(* document buckets/{id} lists the posts filed in it (its postsIDs).  The  *)
(* app keeps the two ends of that relation with two separate writes: first *)
(* the post, and, when the server acknowledges it, the bucket.  The module *)
(* follows every write from the tap that issues it, through the queue of   *)
(* the device and the server, to the completion closure that issues the    *)
(* next ones.                                                              *)
(*                                                                         *)
(* One device per user, signed in as that user.  The id of a post is the   *)
(* uid of its author, so Users is also the set of post ids.                *)
(***************************************************************************)
EXTENDS Naturals, Sequences

CONSTANTS
  Users,        \* uids: devices, and ids of post documents
  Buckets,      \* ids of bucket documents (each is drawn once, by UUID())
  Zero,         \* the bucketID "0" of a post for which no bucket was picked
  Empty,        \* the bucketID "", which nil becomes wherever it is used
  NoPost,       \* there is no such post document
  MaxOps,       \* bound: visits to the create and edit screens, deletions, new buckets
  MaxKills,     \* bound: times the system ends the app
  Repick,       \* may a user open the picker again after choosing a bucket
  EarlyPost,    \* may a user tap Post before the edited post has arrived
  DeletePosts   \* may a user delete posts

BucketIDs == Buckets \cup {Zero, Empty}

ASSUME Distinct ==
  /\ Zero \notin Buckets
  /\ Empty \notin Buckets
  /\ Zero # Empty
  /\ NoPost \notin BucketIDs

ASSUME Bounds ==
  /\ MaxOps \in Nat
  /\ MaxKills \in Nat
  /\ Repick \in BOOLEAN
  /\ EarlyPost \in BOOLEAN
  /\ DeletePosts \in BOOLEAN

VARIABLES
  posts,     \* server: the bucketID of each post document, or NoPost
  status,    \* server: is the bucket document "unborn", "live" or "dead"
  postsIDs,  \* server: the postsIDs array of each bucket document
  comments,  \* server: the posts with a comments/{postID} document
  queue,     \* per device: writes the server has not applied yet, in order
  acks,      \* per device: outcomes whose completion closure has not run yet
  screen,    \* per device: the screen in front
  ops,       \* visits, deletions and new buckets so far
  kills,     \* times the system ended the app so far
  crashed,   \* devices on which the app has ended with an exception
  filed      \* history: the <<post, bucketID>> pairs the server has accepted

server == <<posts, status, postsIDs, comments>>
device == <<queue, acks, screen>>
vars == <<posts, status, postsIDs, comments, queue, acks, screen, ops, kills,
          crashed, filed>>

----------------------------------------------------------------------------
(* Writes.  "hook" tells whether a completion closure is waiting for the   *)
(* outcome: it is lost when the app ends, the write is not.                *)

PostWrites == {"setPost", "updatePost"}

WriteOps == PostWrites \cup {"deletePost", "setComments", "removeOld",
                             "addToBucket", "setBucket", "deleteBucket"}

Writes == [op : WriteOps, post : Users, bucket : BucketIDs, old : BucketIDs,
           hook : BOOLEAN]

Outcomes == [write : Writes, ok : BOOLEAN]

Write(op, p, b, old) ==
  [op |-> op, post |-> p, bucket |-> b, old |-> old, hook |-> op \in PostWrites]

Issue(c, w) == queue' = [queue EXCEPT ![c] = Append(@, w)]

Count == ops < MaxOps /\ ops' = ops + 1

----------------------------------------------------------------------------
(* Screens: the feed, the new-post screen or the edit screen, the last two *)
(* possibly covered by the bucket picker.  "fetch" is how far the edit     *)
(* screen's request for the post has come.                                 *)

Screens == [at : {"feed", "create", "edit"}, picking : BOOLEAN, post : Users,
            bucket : BucketIDs, old : BucketIDs,
            fetch : {"asked", "answered", "shown"}, answer : BucketIDs]

Feed(c) == [at |-> "feed", picking |-> FALSE, post |-> c, bucket |-> Empty,
            old |-> Empty, fetch |-> "asked", answer |-> Empty]

Show(c, s) == screen' = [screen EXCEPT ![c] = s]

----------------------------------------------------------------------------
(* What a device sees of the documents: the server's, with its own queued  *)
(* writes on top.                                                          *)

Queued(c, p, kinds) ==
  {i \in DOMAIN queue[c] : queue[c][i].post = p /\ queue[c][i].op \in kinds}

\* The last queued set or delete decides whether the document exists; an
\* update of a missing document changes nothing.
SeesPost(c, p) ==
  LET made == Queued(c, p, {"setPost"})
      gone == Queued(c, p, {"deletePost"})
  IN \/ posts[p] # NoPost /\ gone = {}
     \/ \E i \in made : \A j \in gone : j < i

\* Fault: a missing document is passed on as it is.
AnswersRaw(c, p) == {posts[p]}

\* The bucketID fetchPost gets: that of the last queued set or update, or the
\* server's.  It makes an empty post of a missing document.
Answers(c, p) ==
  LET mine == Queued(c, p, PostWrites)
  IN IF ~SeesPost(c, p) THEN {Empty}
     ELSE IF mine = {} THEN {posts[p]}
     ELSE {queue[c][i].bucket : i \in {j \in mine : \A k \in mine : k <= j}}

\* A bucket stays on the screens of a device that has not heard of its deletion.
SeesBucket(c, b) ==
  \/ status[b] # "unborn"
  \/ \E i \in DOMAIN queue[c] : queue[c][i].op = "setBucket"
                                /\ queue[c][i].bucket = b

\* The feed goes on showing posts that are gone from the server.
InFeed(c, p) == SeesPost(c, p) \/ \E b \in BucketIDs : <<p, b>> \in filed

----------------------------------------------------------------------------
(* Documents that earlier sessions left: buckets nobody has posted to, and *)
(* posts for which no bucket was picked.                                   *)
Init ==
  /\ posts \in [Users -> {NoPost, Zero}]
  /\ status \in [Buckets -> {"unborn", "live"}]
  /\ postsIDs = [b \in Buckets |-> {}]
  /\ comments = {p \in Users : posts[p] # NoPost}
  /\ queue = [c \in Users |-> <<>>]
  /\ acks = [c \in Users |-> <<>>]
  /\ screen = [c \in Users |-> Feed(c)]
  /\ ops = 0
  /\ kills = 0
  /\ crashed = {}
  /\ filed = {<<p, Zero>> : p \in {q \in Users : posts[q] # NoPost}}

----------------------------------------------------------------------------
(* Taps.                                                                   *)

\* Fault: a new post starts with the bucketID "".
OpenCreateEmpty(c) ==
  /\ screen[c].at = "feed"
  /\ Count
  /\ Show(c, [Feed(c) EXCEPT !.at = "create"])
  /\ UNCHANGED <<server, queue, acks, kills, crashed, filed>>

OpenCreate(c) ==
  /\ screen[c].at = "feed"
  /\ Count
  /\ Show(c, [Feed(c) EXCEPT !.at = "create", !.bucket = Zero])
  /\ UNCHANGED <<server, queue, acks, kills, crashed, filed>>

\* Any user may edit any post: the screen of a post does not look at its author.
OpenEdit(c, p) ==
  /\ screen[c].at = "feed"
  /\ InFeed(c, p)
  /\ Count
  /\ Show(c, [Feed(c) EXCEPT !.at = "edit", !.post = p])
  /\ UNCHANGED <<server, queue, acks, kills, crashed, filed>>

\* The bucketItBtn of the edit screen first takes the bucketID of the moment
\* as the old one, whether the server has it or the user picked it just now.
TapBucketIt(c) ==
  /\ screen[c].at # "feed"
  /\ ~screen[c].picking
  /\ IF screen[c].at = "edit"
       THEN /\ Repick \/ screen[c].bucket = screen[c].old
            /\ Show(c, [screen[c] EXCEPT !.picking = TRUE,
                                        !.old = screen[c].bucket])
       ELSE Show(c, [screen[c] EXCEPT !.picking = TRUE])
  /\ UNCHANGED <<server, queue, acks, ops, kills, crashed, filed>>

BucketItPicked(c, b) ==
  /\ screen[c].picking
  /\ SeesBucket(c, b)
  /\ Show(c, [screen[c] EXCEPT !.picking = FALSE, !.bucket = b])
  /\ UNCHANGED <<server, queue, acks, ops, kills, crashed, filed>>

\* Back from the picker to the screen below, or from that screen to the feed.
GoBack(c) ==
  /\ screen[c].at # "feed"
  /\ Show(c, IF screen[c].picking THEN [screen[c] EXCEPT !.picking = FALSE]
                                  ELSE Feed(c))
  /\ UNCHANGED <<server, queue, acks, ops, kills, crashed, filed>>

\* A new post takes the place of the author's last one: its id is the uid.
CreatePost(c) ==
  /\ screen[c].at = "create"
  /\ ~screen[c].picking
  /\ Issue(c, Write("setPost", c, screen[c].bucket, Empty))
  /\ Show(c, Feed(c))
  /\ UNCHANGED <<server, acks, ops, kills, crashed, filed>>

EditPost(c) ==
  /\ screen[c].at = "edit"
  /\ ~screen[c].picking
  /\ EarlyPost \/ screen[c].fetch = "shown"
  /\ Issue(c, Write("updatePost", screen[c].post, screen[c].bucket, screen[c].old))
  /\ Show(c, Feed(c))
  /\ UNCHANGED <<server, acks, ops, kills, crashed, filed>>

DeletePost(c, p) ==
  /\ DeletePosts
  /\ screen[c].at = "feed"
  /\ InFeed(c, p)
  /\ Count
  /\ Issue(c, Write("deletePost", p, Empty, Empty))
  /\ UNCHANGED <<server, acks, screen, kills, crashed, filed>>

\* Fault: a new bucket takes an id that may be in use.
CreateBucketReusing(c, b) ==
  /\ screen[c].at = "feed"
  /\ Count
  /\ Issue(c, Write("setBucket", c, b, Empty))
  /\ UNCHANGED <<server, acks, screen, kills, crashed, filed>>

CreateBucket(c, b) ==
  /\ screen[c].at = "feed"
  /\ \A d \in Users : ~SeesBucket(d, b)
  /\ Count
  /\ Issue(c, Write("setBucket", c, b, Empty))
  /\ UNCHANGED <<server, acks, screen, kills, crashed, filed>>

DeleteBucket(c, b) ==
  /\ screen[c].at = "feed"
  /\ SeesBucket(c, b)
  /\ Count
  /\ Issue(c, Write("deleteBucket", c, b, Empty))
  /\ UNCHANGED <<server, acks, screen, kills, crashed, filed>>

----------------------------------------------------------------------------
(* The edit screen's fetchPost: the server answers, and later the closure  *)
(* runs on the main queue.                                                 *)

AnswerFetch(c) ==
  /\ screen[c].at = "edit"
  /\ screen[c].fetch = "asked"
  /\ \E v \in Answers(c, screen[c].post) :
       Show(c, [screen[c] EXCEPT !.fetch = "answered", !.answer = v])
  /\ UNCHANGED <<server, queue, acks, ops, kills, crashed, filed>>

ShowFetched(c) ==
  /\ screen[c].at = "edit"
  /\ screen[c].fetch = "answered"
  /\ Show(c, [screen[c] EXCEPT !.fetch = "shown",
                               !.bucket = screen[c].answer,
                               !.old = screen[c].answer,
                               !.answer = Empty])
  /\ UNCHANGED <<server, queue, acks, ops, kills, crashed, filed>>

----------------------------------------------------------------------------
(* The server takes the writes of a device in order.  A device without a    *)
(* connection is one whose writes are not taken yet.                       *)

Take(c, op) == queue[c] # <<>> /\ Head(queue[c]).op = op

\* The write leaves the queue; its closure, if there still is one, gets "ok".
Settle(c, ok) ==
  LET w == Head(queue[c])
  IN /\ queue' = [queue EXCEPT ![c] = Tail(@)]
     /\ acks' = IF w.hook
                  THEN [acks EXCEPT ![c] = Append(@, [write |-> w, ok |-> ok])]
                  ELSE acks

File(p, b) ==
  /\ posts' = [posts EXCEPT ![p] = b]
  /\ filed' = filed \cup {<<p, b>>}

ApplySetPost(c) ==
  /\ Take(c, "setPost")
  /\ File(Head(queue[c]).post, Head(queue[c]).bucket)
  /\ Settle(c, TRUE)
  /\ UNCHANGED <<status, postsIDs, comments, screen, ops, kills, crashed>>

\* Fault: an edit is written with setData.
ApplyUpdateAsSet(c) ==
  /\ Take(c, "updatePost")
  /\ File(Head(queue[c]).post, Head(queue[c]).bucket)
  /\ Settle(c, TRUE)
  /\ UNCHANGED <<status, postsIDs, comments, screen, ops, kills, crashed>>

\* updateData writes nothing but an existing document.
ApplyUpdatePost(c) ==
  /\ Take(c, "updatePost")
  /\ posts[Head(queue[c]).post] # NoPost
  /\ File(Head(queue[c]).post, Head(queue[c]).bucket)
  /\ Settle(c, TRUE)
  /\ UNCHANGED <<status, postsIDs, comments, screen, ops, kills, crashed>>

RejectUpdatePost(c) ==
  /\ Take(c, "updatePost")
  /\ posts[Head(queue[c]).post] = NoPost
  /\ Settle(c, FALSE)
  /\ UNCHANGED <<server, screen, ops, kills, crashed, filed>>

\* Neither the comments of the post nor the buckets that list it are touched.
ApplyDeletePost(c) ==
  /\ Take(c, "deletePost")
  /\ posts' = [posts EXCEPT ![Head(queue[c]).post] = NoPost]
  /\ Settle(c, TRUE)
  /\ UNCHANGED <<status, postsIDs, comments, screen, ops, kills, crashed, filed>>

ApplySetComments(c) ==
  /\ Take(c, "setComments")
  /\ comments' = comments \cup {Head(queue[c]).post}
  /\ Settle(c, TRUE)
  /\ UNCHANGED <<posts, status, postsIDs, screen, ops, kills, crashed, filed>>

\* arrayRemove of the old bucket's own id from an array "postIDs" that nothing
\* else writes or reads: postsIDs keeps the post.
ApplyRemoveOld(c) ==
  /\ Take(c, "removeOld")
  /\ Settle(c, TRUE)
  /\ UNCHANGED <<server, screen, ops, kills, crashed, filed>>

\* Fault: the bucket is written with setData(merge: true), which creates it.
ApplyAddAsMerge(c) ==
  /\ Take(c, "addToBucket")
  /\ Head(queue[c]).bucket \in Buckets
  /\ LET w == Head(queue[c])
     IN /\ postsIDs' = [postsIDs EXCEPT ![w.bucket] = @ \cup {w.post}]
        /\ status' = [status EXCEPT ![w.bucket] = "live"]
  /\ Settle(c, TRUE)
  /\ UNCHANGED <<posts, comments, screen, ops, kills, crashed, filed>>

\* arrayUnion through updateData: refused when the bucket is not there.
ApplyAddToBucket(c) ==
  /\ Take(c, "addToBucket")
  /\ LET w == Head(queue[c])
     IN postsIDs' = [b \in Buckets |->
          IF b = w.bucket /\ status[b] = "live" THEN postsIDs[b] \cup {w.post}
                                                ELSE postsIDs[b]]
  /\ Settle(c, TRUE)
  /\ UNCHANGED <<posts, status, comments, screen, ops, kills, crashed, filed>>

ApplySetBucket(c) ==
  /\ Take(c, "setBucket")
  /\ status' = [status EXCEPT ![Head(queue[c]).bucket] = "live"]
  /\ postsIDs' = [postsIDs EXCEPT ![Head(queue[c]).bucket] = {}]
  /\ Settle(c, TRUE)
  /\ UNCHANGED <<posts, comments, screen, ops, kills, crashed, filed>>

ApplyDeleteBucket(c) ==
  /\ Take(c, "deleteBucket")
  /\ status' = [status EXCEPT ![Head(queue[c]).bucket] =
                  IF @ = "unborn" THEN @ ELSE "dead"]
  /\ postsIDs' = [postsIDs EXCEPT ![Head(queue[c]).bucket] = {}]
  /\ Settle(c, TRUE)
  /\ UNCHANGED <<posts, comments, screen, ops, kills, crashed, filed>>

Serve(c) ==
  \/ ApplySetPost(c)
  \/ ApplyUpdatePost(c)
  \/ RejectUpdatePost(c)
  \/ ApplyDeletePost(c)
  \/ ApplySetComments(c)
  \/ ApplyRemoveOld(c)
  \/ ApplyAddToBucket(c)
  \/ ApplySetBucket(c)
  \/ ApplyDeleteBucket(c)

----------------------------------------------------------------------------
(* Completion closures, and the end of the app.                            *)

Acked(c, op, ok) ==
  /\ acks[c] # <<>>
  /\ Head(acks[c]).write.op = op
  /\ Head(acks[c]).ok = ok

Handled(c) == acks' = [acks EXCEPT ![c] = Tail(@)]

\* The system ends the app, or an exception does: the screens, the outcomes not
\* handled yet and the closures are gone; the queue is on the disk.
EndApp(c) ==
  /\ queue' = [queue EXCEPT ![c] =
                 [i \in DOMAIN @ |-> [@[i] EXCEPT !.hook = FALSE]]]
  /\ acks' = [acks EXCEPT ![c] = <<>>]
  /\ Show(c, Feed(c))

\* Fault: the closure of createPost forgets the bucket.
PostCreatedOnly(c) ==
  /\ Acked(c, "setPost", TRUE)
  /\ Issue(c, Write("setComments", Head(acks[c]).write.post, Empty, Empty))
  /\ Handled(c)
  /\ UNCHANGED <<server, screen, ops, kills, crashed, filed>>

\* Fault: the closure of createPost forgets the comments document.
PostFiledOnly(c) ==
  /\ Acked(c, "setPost", TRUE)
  /\ LET w == Head(acks[c]).write
     IN Issue(c, Write("addToBucket", w.post, w.bucket, Empty))
  /\ Handled(c)
  /\ UNCHANGED <<server, screen, ops, kills, crashed, filed>>

PostCreated(c) ==
  /\ Acked(c, "setPost", TRUE)
  /\ LET w == Head(acks[c]).write
         doc == Write("setComments", w.post, Empty, Empty)
         add == Write("addToBucket", w.post, w.bucket, Empty)
     IN queue' = [queue EXCEPT ![c] =
          @ \o IF w.bucket # Empty THEN <<doc, add>> ELSE <<doc>>]
  /\ Handled(c)
  /\ UNCHANGED <<server, screen, ops, kills, crashed, filed>>

\* Fault: a post that had no bucket yet does not count as moved.
MovesBetween(w) == w.old # w.bucket /\ w.bucket # Empty /\ w.old # Zero

\* Does an accepted edit touch the buckets at all?
Moves(w) == w.old # w.bucket /\ w.bucket # Empty

PostMoved(c) ==
  /\ Acked(c, "updatePost", TRUE)
  /\ Moves(Head(acks[c]).write)
  /\ Head(acks[c]).write.old # Empty
  /\ LET w == Head(acks[c]).write
     IN queue' = [queue EXCEPT ![c] =
          @ \o <<Write("removeOld", w.post, w.old, Empty),
                 Write("addToBucket", w.post, w.bucket, Empty)>>]
  /\ Handled(c)
  /\ UNCHANGED <<server, screen, ops, kills, crashed, filed>>

PostKept(c) ==
  /\ Acked(c, "updatePost", TRUE)
  /\ ~Moves(Head(acks[c]).write)
  /\ Handled(c)
  /\ UNCHANGED <<server, queue, screen, ops, kills, crashed, filed>>

\* Fault: the closure lists the post without looking at the error.
EditRefusedIgnored(c) ==
  /\ Acked(c, "updatePost", FALSE)
  /\ LET w == Head(acks[c]).write
     IN Issue(c, Write("addToBucket", w.post, w.bucket, Empty))
  /\ Handled(c)
  /\ UNCHANGED <<server, screen, ops, kills, crashed, filed>>

\* The error branch of the closure only prints.
EditRefused(c) ==
  /\ Acked(c, "updatePost", FALSE)
  /\ Handled(c)
  /\ UNCHANGED <<server, queue, screen, ops, kills, crashed, filed>>

\* collection("buckets").document("") raises an exception.
CrashOnNoOldBucket(c) ==
  /\ Acked(c, "updatePost", TRUE)
  /\ Moves(Head(acks[c]).write)
  /\ Head(acks[c]).write.old = Empty
  /\ EndApp(c)
  /\ crashed' = crashed \cup {c}
  /\ UNCHANGED <<server, ops, kills, filed>>

Kill(c) ==
  /\ kills < MaxKills
  /\ kills' = kills + 1
  /\ EndApp(c)
  /\ UNCHANGED <<server, ops, crashed, filed>>

RunClosure(c) ==
  \/ PostCreated(c)
  \/ PostMoved(c)
  \/ PostKept(c)
  \/ EditRefused(c)
  \/ CrashOnNoOldBucket(c)

----------------------------------------------------------------------------
Use(c) ==
  \/ OpenCreate(c)
  \/ TapBucketIt(c)
  \/ GoBack(c)
  \/ CreatePost(c)
  \/ EditPost(c)
  \/ \E p \in Users : OpenEdit(c, p) \/ DeletePost(c, p)
  \/ \E b \in Buckets :
       BucketItPicked(c, b) \/ CreateBucket(c, b) \/ DeleteBucket(c, b)

Next ==
  \E c \in Users : \/ Use(c)
                   \/ AnswerFetch(c)
                   \/ ShowFetched(c)
                   \/ Serve(c)
                   \/ RunClosure(c)
                   \/ Kill(c)

Spec == Init /\ [][Next]_vars

\* A device gets its connection back in the end, and the main queue runs what is
\* dispatched to it.  Nobody has to tap anything.
Fairness == \A c \in Users : WF_vars(Serve(c)) /\ WF_vars(RunClosure(c))

FairSpec == Spec /\ Fairness

----------------------------------------------------------------------------
(* Properties.                                                             *)

TypeOK ==
  /\ posts \in [Users -> BucketIDs \cup {NoPost}]
  /\ status \in [Buckets -> {"unborn", "live", "dead"}]
  /\ postsIDs \in [Buckets -> SUBSET Users]
  /\ comments \subseteq Users
  /\ queue \in [Users -> Seq(Writes)]
  /\ acks \in [Users -> Seq(Outcomes)]
  /\ screen \in [Users -> Screens]
  /\ ops \in Nat
  /\ kills \in Nat
  /\ crashed \subseteq Users
  /\ filed \subseteq Users \X BucketIDs

\* Is a device still about to add post p to bucket b?
Adding(p, b) ==
  \E c \in Users :
    \/ \E i \in DOMAIN queue[c] : /\ queue[c][i].op = "addToBucket"
                                  /\ queue[c][i].post = p
                                  /\ queue[c][i].bucket = b
    \/ \E i \in DOMAIN acks[c] : /\ acks[c][i].ok
                                 /\ acks[c][i].write.post = p
                                 /\ acks[c][i].write.bucket = b
                                 /\ Moves(acks[c][i].write)

\* A live bucket lists every post whose bucketID is its id, or a device that
\* had the post's write accepted is still on its way to list it: whatever the
\* order in which devices create, edit and delete, no post is silently left out
\* (the two writes of createPost and of editPost).
Filed ==
  \A p \in Users : \A b \in Buckets :
    posts[p] = b /\ status[b] = "live" => p \in postsIDs[b] \/ Adding(p, b)

\* The closure of editPost never asks for the document "" of the buckets.
NoCrash == crashed = {}

\* A bucket lists a post only if the server once accepted that post with this
\* bucketID, even when edits are refused, posts deleted and apps ended.
OnlyFiled == \A b \in Buckets : \A p \in postsIDs[b] : <<p, b>> \in filed

\* Is the author's device still about to write the comments document of post p?
Commenting(p) ==
  \/ \E i \in DOMAIN queue[p] : /\ queue[p][i].op = "setComments"
                                /\ queue[p][i].post = p
  \/ \E i \in DOMAIN acks[p] : /\ acks[p][i].ok
                               /\ acks[p][i].write.op = "setPost"
                               /\ acks[p][i].write.post = p

\* A post on the server has its comments document, or its author's device is
\* still on its way to write it, unless an app was ended: edits, moves and
\* deletions by others, and a crash of another device, never come between the
\* two writes of createPost.
HasComments ==
  kills = 0 => \A p \in Users \ crashed :
    posts[p] # NoPost => p \in comments \/ Commenting(p)

\* An edit that races a deletion never brings the post back: only its author
\* can, by creating a new one (editPost uses updateData, not setData).
NoRevival ==
  [][\A p \in Users : posts[p] = NoPost /\ posts'[p] # NoPost =>
       /\ queue[p] # <<>>
       /\ Head(queue[p]).op = "setPost"]_vars

\* A post listed late never brings a deleted bucket back, and a deleted bucket
\* stays empty (createPost and editPost list it with updateData).
DeadStaysDead ==
  [][\A b \in Buckets : status[b] = "dead" =>
       status'[b] = "dead" /\ postsIDs'[b] = {}]_vars

Docs == INSTANCE Shelves WITH
       Posts   <- Users,
       Places  <- BucketIDs,
       Nowhere <- Zero,
       place   <- posts,
       shelf   <- postsIDs,
       talked  <- comments

\* Whatever the devices send, the documents keep to Shelves: each write the
\* server takes is one step of it or none (createPost, editPost, deletePost,
\* createBucket and deleteBucket, each with its closure).
Shelved == Docs!Spec

\* Every new post ends up listed by the bucket it was created in, and gets its
\* comments document, unless the bucket is deleted first.
CreatedIsFiled ==
  \A p \in Users : \A b \in Buckets :
    (\E i \in DOMAIN queue[p] : /\ queue[p][i].op = "setPost"
                                /\ queue[p][i].bucket = b)
      ~> (p \in comments /\ (p \in postsIDs[b] \/ status[b] = "dead"))
============================================================================
