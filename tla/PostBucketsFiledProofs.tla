----------------------- MODULE PostBucketsFiledProofs -----------------------
(***************************************************************************)
(* Filed and NoCrash, for every set of users and buckets, as long as no    *)
(* closure is lost, no post deleted, and every edit waits for the post and *)
(* picks at most one bucket.  PostBuckets has a run for what happens       *)
(* otherwise.                                                              *)
(***************************************************************************)
EXTENDS PostBucketsProofs

Undisturbed ==
  /\ MaxKills = 0
  /\ ~Repick
  /\ ~EarlyPost
  /\ ~DeletePosts

----------------------------------------------------------------------------
(* The inductive invariant.  "At n" means: once the writes before the n-th *)
(* in the queue of device c have been served.                              *)

\* The write files post p in bucket b, and its closure will list it there.
Starts(w, p, b) ==
  w.op \in PostWrites /\ w.post = p /\ w.bucket = b /\ Moves(w)

\* Bucket b lists post p, or will, or is gone.
Covered(p, b) ==
  b \in Buckets => status[b] = "dead" \/ p \in postsIDs[b] \/ Adding(p, b)

CoveredAt(c, n, p, b) ==
  Covered(p, b) \/ \E j \in DOMAIN queue[c] : j < n /\ Starts(queue[c][j], p, b)

BornAt(c, n, b) ==
  b \in Buckets =>
    \/ status[b] # "unborn"
    \/ \E j \in DOMAIN queue[c] :
         j < n /\ queue[c][j].op = "setBucket" /\ queue[c][j].bucket = b

PostAt(c, n, p) ==
  \/ posts[p] # NoPost
  \/ \E j \in DOMAIN queue[c] :
       j < n /\ queue[c][j].op = "setPost" /\ queue[c][j].post = p

PostOK(p) ==
  /\ posts[p] # Empty
  /\ posts[p] # NoPost =>
       Covered(p, posts[p]) /\ (posts[p] \in Buckets => status[posts[p]] # "unborn")
  /\ \A b \in BucketIDs : <<p, b>> \in filed => posts[p] # NoPost

\* Write w is the n-th in the queue of device c.
WriteAt(c, n, w) ==
  /\ w.op # "deletePost"
  /\ w.hook <=> w.op \in PostWrites
  /\ w.op \in PostWrites =>
       w.bucket # Empty /\ (Moves(w) \/ CoveredAt(c, n, w.post, w.bucket))
  /\ w.op = "updatePost" => w.old # Empty /\ PostAt(c, n, w.post)
  /\ w.op \in PostWrites \cup {"addToBucket"} => BornAt(c, n, w.bucket)

WriteOK(c, i) == WriteAt(c, i, queue[c][i])

OutcomeOK(o) ==
  /\ o.ok
  /\ o.write.op \in PostWrites
  /\ o.write.op = "updatePost" => o.write.old # Empty
  /\ o.write.bucket # Empty
  /\ o.write.bucket \in Buckets => status[o.write.bucket] # "unborn"

\* The screen s in front of device c, once n - 1 writes have been served.
ScreenAt(c, n, s) ==
  /\ s.at = "create" => s.bucket # Empty /\ BornAt(c, n, s.bucket)
  /\ s.at = "edit" => PostAt(c, n, s.post) /\ BornAt(c, n, s.bucket)
  /\ s.at = "edit" /\ s.fetch = "answered" =>
       /\ s.answer # Empty
       /\ CoveredAt(c, n, s.post, s.answer)
       /\ BornAt(c, n, s.answer)
  /\ s.at = "edit" /\ s.fetch = "shown" =>
       s.bucket # Empty /\ s.old # Empty /\ CoveredAt(c, n, s.post, s.old)

ScreenOK(c) == ScreenAt(c, Len(queue[c]) + 1, screen[c])

CoverInv ==
  /\ \A p \in Users : PostOK(p)
  /\ \A c \in Users : \A i \in DOMAIN queue[c] : WriteOK(c, i)
  /\ \A c \in Users : \A i \in DOMAIN acks[c] : OutcomeOK(acks[c][i])
  /\ \A c \in Users : ScreenOK(c)
  /\ NoCrash

IInv == TypeOK /\ BucketInv /\ CoverInv

----------------------------------------------------------------------------
(* What a step must keep for the invariant to survive it.                  *)

\* Nothing that is there, or on its way, gets lost.
KeepsDocs ==
  /\ \A p \in Users : posts[p] # NoPost => posts'[p] # NoPost
  /\ \A b \in Buckets : status[b] # "unborn" => status'[b] # "unborn"
  /\ \A p \in Users : \A b \in BucketIDs : Covered(p, b) => Covered(p, b)'

KeepsQueue(d) ==
  \A i \in DOMAIN queue[d] : i \in DOMAIN queue'[d] /\ queue'[d][i] = queue[d][i]

LEMMA KeepsAt ==
  ASSUME KeepsDocs, NEW d \in Users, KeepsQueue(d),
         NEW p \in Users, NEW b \in BucketIDs,
         NEW n \in Nat, NEW m \in Nat, n <= m, DOMAIN queue[d] \subseteq Nat
  PROVE  /\ CoveredAt(d, n, p, b) => CoveredAt(d, m, p, b)'
         /\ BornAt(d, n, b) => BornAt(d, m, b)'
         /\ PostAt(d, n, p) => PostAt(d, m, p)'
  <1>1. \A j \in DOMAIN queue[d] : j < n =>
          j \in DOMAIN queue'[d] /\ j < m /\ queue'[d][j] = queue[d][j]
    BY DEF KeepsQueue
  <1>2. CoveredAt(d, n, p, b) => CoveredAt(d, m, p, b)'
    BY <1>1 DEF KeepsDocs, CoveredAt, Starts, Moves
  <1>3. BornAt(d, n, b) => BornAt(d, m, b)'
    BY <1>1 DEF KeepsDocs, BornAt
  <1>4. PostAt(d, n, p) => PostAt(d, m, p)'
    BY <1>1 DEF KeepsDocs, PostAt
  <1> QED BY <1>2, <1>3, <1>4

LEMMA Lengths ==
  ASSUME TypeOK, NEW d \in Users
  PROVE  /\ Len(queue[d]) \in Nat
         /\ DOMAIN queue[d] = 1 .. Len(queue[d])
         /\ DOMAIN queue[d] \subseteq Nat
  <1>1. queue[d] \in Seq(Writes)
    BY DEF TypeOK
  <1> QED BY <1>1

LEMMA WriteKept ==
  ASSUME KeepsDocs, NEW d \in Users, KeepsQueue(d), DOMAIN queue[d] \subseteq Nat,
         NEW n \in Nat, NEW w \in Writes, WriteAt(d, n, w)
  PROVE  WriteAt(d, n, w)'
  <1>1. w.post \in Users /\ w.bucket \in BucketIDs /\ n <= n
    BY DEF Writes
  <1>2. /\ CoveredAt(d, n, w.post, w.bucket) => CoveredAt(d, n, w.post, w.bucket)'
        /\ BornAt(d, n, w.bucket) => BornAt(d, n, w.bucket)'
        /\ PostAt(d, n, w.post) => PostAt(d, n, w.post)'
    BY <1>1, KeepsAt
  <1> QED BY <1>2 DEF WriteAt, Moves

LEMMA ScreenKept ==
  ASSUME KeepsDocs, NEW d \in Users, KeepsQueue(d), DOMAIN queue[d] \subseteq Nat,
         NEW n \in Nat, NEW m \in Nat, n <= m, NEW s \in Screens, ScreenAt(d, n, s)
  PROVE  ScreenAt(d, m, s)'
  <1>1. /\ s.post \in Users /\ s.bucket \in BucketIDs
        /\ s.answer \in BucketIDs /\ s.old \in BucketIDs
    BY DEF Screens
  <1>2. /\ PostAt(d, n, s.post) => PostAt(d, m, s.post)'
        /\ BornAt(d, n, s.bucket) => BornAt(d, m, s.bucket)'
        /\ BornAt(d, n, s.answer) => BornAt(d, m, s.answer)'
        /\ CoveredAt(d, n, s.post, s.answer) => CoveredAt(d, m, s.post, s.answer)'
        /\ CoveredAt(d, n, s.post, s.old) => CoveredAt(d, m, s.post, s.old)'
    BY <1>1, KeepsAt
  <1> QED BY <1>2 DEF ScreenAt

\* A device whose queue only grows keeps its part of the invariant, if the
\* screen in front of it is in order.
LEMMA DeviceKept ==
  ASSUME TypeOK, CoverInv, KeepsDocs, NEW d \in Users, KeepsQueue(d),
         Len(queue'[d]) \in Nat, Len(queue[d]) <= Len(queue'[d])
  PROVE  /\ \A i \in DOMAIN queue[d] : WriteOK(d, i)'
         /\ \A s \in Screens :
              screen'[d] = s /\ (s = screen[d] \/ ScreenAt(d, Len(queue[d]) + 1, s))
                => ScreenOK(d)'
  <1>0. /\ DOMAIN queue[d] \subseteq Nat
        /\ Len(queue[d]) \in Nat
        /\ Len(queue[d]) + 1 \in Nat /\ Len(queue'[d]) + 1 \in Nat
        /\ Len(queue[d]) + 1 <= Len(queue'[d]) + 1
    BY Lengths
  <1>1. ASSUME NEW i \in DOMAIN queue[d] PROVE WriteOK(d, i)'
    <2>1. PICK w \in Writes : w = queue[d][i]
      BY ElementType
    <2>2. queue'[d][i] = w /\ i \in Nat
      BY <1>0, <2>1 DEF KeepsQueue
    <2>3. WriteAt(d, i, w)
      BY <2>1 DEF CoverInv, WriteOK
    <2>4. WriteAt(d, i, w)'
      BY <1>0, <2>2, <2>3, WriteKept
    <2> QED BY <2>2, <2>4 DEF WriteOK
  <1>2. ASSUME NEW s \in Screens, screen'[d] = s,
               s = screen[d] \/ ScreenAt(d, Len(queue[d]) + 1, s)
        PROVE  ScreenOK(d)'
    <2>1. PICK n \in Nat : n = Len(queue[d]) + 1
      BY <1>0
    <2>2. ScreenAt(d, n, s)
      BY <1>2, <2>1 DEF CoverInv, ScreenOK
    <2>3. PICK m \in Nat : m = Len(queue'[d]) + 1
      BY <1>0
    <2>4. n <= m
      BY <1>0, <2>1, <2>3
    <2>5. ScreenAt(d, m, s)'
      BY <1>0, <2>2, <2>4, ScreenKept
    <2> QED BY <1>2, <2>3, <2>5 DEF ScreenOK
  <1> QED BY <1>1, <1>2

\* The empty screen asks for nothing.
LEMMA FeedAt == \A c \in Users : \A n : ScreenAt(c, n, Feed(c))
  BY DEF ScreenAt, Feed

\* Documents and outcomes unchanged, and no queued write dropped.
LEMMA KeepsByQueue ==
  ASSUME UNCHANGED <<posts, status, postsIDs, acks>>,
         \A d \in Users : KeepsQueue(d)
  PROVE  KeepsDocs
  <1>1. ASSUME NEW p \in Users, NEW b \in BucketIDs, Adding(p, b)
        PROVE  Adding(p, b)'
    BY <1>1 DEF Adding, KeepsQueue, Moves
  <1>2. \A p \in Users : \A b \in BucketIDs : Covered(p, b) => Covered(p, b)'
    BY <1>1 DEF Covered
  <1> QED BY <1>2 DEF KeepsDocs

LEMMA PostsKept ==
  ASSUME CoverInv, TypeOK, KeepsDocs, UNCHANGED <<posts, filed>>
  PROVE  \A p \in Users : PostOK(p)'
  <1> SUFFICES ASSUME NEW p \in Users PROVE PostOK(p)'
    OBVIOUS
  <1>1. PICK b \in BucketIDs \cup {NoPost} : b = posts[p]
    BY DEF TypeOK
  <1>2. PostOK(p) /\ posts'[p] = b
    BY <1>1 DEF CoverInv
  <1>3. b # NoPost => Covered(p, b) /\ (b \in Buckets => status[b] # "unborn")
    BY <1>1, <1>2 DEF PostOK
  <1>4. b # NoPost => Covered(p, b)' /\ (b \in Buckets => status'[b] # "unborn")
    BY <1>3 DEF KeepsDocs
  <1> QED BY <1>1, <1>2, <1>4 DEF PostOK

LEMMA OutcomesKept ==
  ASSUME CoverInv, TypeOK, KeepsDocs,
         \A d \in Users : \A i \in DOMAIN acks'[d] : \E j \in DOMAIN acks[d] :
           acks'[d][i] = acks[d][j]
  PROVE  \A d \in Users : \A i \in DOMAIN acks'[d] : OutcomeOK(acks[d][i])'
  <1> SUFFICES ASSUME NEW d \in Users, NEW i \in DOMAIN acks'[d]
               PROVE  OutcomeOK(acks[d][i])'
    OBVIOUS
  <1>1. PICK j \in DOMAIN acks[d] : acks'[d][i] = acks[d][j]
    OBVIOUS
  <1>2. PICK o \in Outcomes : o = acks[d][j]
    BY ElementType
  <1>3. OutcomeOK(o)
    BY <1>2 DEF CoverInv
  <1>4. OutcomeOK(o)'
    BY <1>3 DEF OutcomeOK, KeepsDocs
  <1>5. acks'[d][i] = o
    BY <1>1, <1>2
  <1> QED BY <1>4, <1>5

----------------------------------------------------------------------------

\* A step that changes nothing but the screen in front of one device.
LEMMA ShowKept ==
  ASSUME TypeOK, CoverInv, NEW c \in Users, NEW s \in Screens, Show(c, s),
         ScreenAt(c, Len(queue[c]) + 1, s),
         UNCHANGED <<server, queue, acks, crashed, filed>>
  PROVE  CoverInv'
  <1>1. /\ \A d \in Users : KeepsQueue(d)
        /\ \A d \in Users : Len(queue'[d]) \in Nat /\ Len(queue[d]) <= Len(queue'[d])
    BY Lengths DEF KeepsQueue
  <1>2. KeepsDocs
    BY <1>1, KeepsByQueue DEF server
  <1>3. ASSUME NEW d \in Users PROVE ScreenOK(d)'
    <2>1. CASE d = c
      BY <1>1, <1>2, <2>1, DeviceKept DEF Show, TypeOK
    <2>2. CASE d # c
      BY <1>1, <1>2, <2>2, DeviceKept DEF Show, TypeOK
    <2> QED BY <2>1, <2>2
  <1>4. \A d \in Users : \A i \in DOMAIN queue'[d] : WriteOK(d, i)'
    BY <1>1, <1>2, DeviceKept
  <1>5. \A p \in Users : PostOK(p)'
    BY <1>2, PostsKept DEF server
  <1>6. \A d \in Users : \A i \in DOMAIN acks'[d] : OutcomeOK(acks[d][i])'
    BY <1>2, OutcomesKept
  <1> QED BY <1>3, <1>4, <1>5, <1>6 DEF CoverInv, NoCrash

\* A tap that issues a write w; the screen stays or goes back to the feed.
LEMMA IssueKept ==
  ASSUME TypeOK, CoverInv, NEW c \in Users, NEW w \in Writes, Issue(c, w),
         WriteAt(c, Len(queue[c]) + 1, w),
         Show(c, Feed(c)) \/ UNCHANGED screen,
         UNCHANGED <<server, acks, crashed, filed>>
  PROVE  CoverInv'
  <1>1. /\ \A d \in Users : KeepsQueue(d)
        /\ \A d \in Users : Len(queue'[d]) \in Nat /\ Len(queue[d]) <= Len(queue'[d])
    BY IssueElements, Lengths DEF KeepsQueue
  <1>2. KeepsDocs
    BY <1>1, KeepsByQueue DEF server
  <1>3. ASSUME NEW d \in Users PROVE ScreenOK(d)'
    <2>1. screen'[d] \in {screen[d], Feed(d)}
      BY DEF Show, TypeOK
    <2>2. screen[d] \in Screens /\ Feed(d) \in Screens
      BY FeedType DEF TypeOK
    <2> QED BY <1>1, <1>2, <2>1, <2>2, DeviceKept, FeedAt
  <1>4. ASSUME NEW d \in Users, NEW i \in DOMAIN queue'[d] PROVE WriteOK(d, i)'
    <2>1. CASE i \in DOMAIN queue[d]
      BY <1>1, <1>2, <2>1, DeviceKept
    <2>2. CASE i \notin DOMAIN queue[d]
      <3>1. d = c /\ i = Len(queue[c]) + 1 /\ queue'[c][i] = w
        BY <2>2, IssueElements
      <3>2. i \in Nat /\ WriteAt(c, i, w)
        BY <3>1, Lengths
      <3>3. WriteAt(c, i, w)'
        BY <1>1, <1>2, <3>2, Lengths, WriteKept
      <3> QED BY <3>1, <3>3 DEF WriteOK
    <2> QED BY <2>1, <2>2
  <1>5. \A p \in Users : PostOK(p)'
    BY <1>2, PostsKept DEF server
  <1>6. \A d \in Users : \A i \in DOMAIN acks'[d] : OutcomeOK(acks[d][i])'
    BY <1>2, OutcomesKept
  <1> QED BY <1>3, <1>4, <1>5, <1>6 DEF CoverInv, NoCrash

\* What a device sees is there, or is made by a write in its queue.
LEMMA SeenBorn ==
  ASSUME TypeOK, NEW c \in Users, NEW b \in Buckets, SeesBucket(c, b)
  PROVE  BornAt(c, Len(queue[c]) + 1, b)
  <1>1. \A i \in DOMAIN queue[c] : i < Len(queue[c]) + 1
    BY Lengths
  <1> QED BY <1>1 DEF SeesBucket, BornAt

LEMMA SeenPost ==
  ASSUME TypeOK, CoverInv, NEW c \in Users, NEW p \in Users, InFeed(c, p)
  PROVE  PostAt(c, Len(queue[c]) + 1, p)
  <1>1. \A i \in DOMAIN queue[c] : i < Len(queue[c]) + 1
    BY Lengths
  <1>2. CASE SeesPost(c, p)
    BY <1>1, <1>2 DEF SeesPost, Queued, PostAt
  <1>3. CASE \E b \in BucketIDs : <<p, b>> \in filed
    BY <1>3 DEF CoverInv, PostOK, PostAt
  <1> QED BY <1>2, <1>3 DEF InFeed

LEMMA CoverUse ==
  ASSUME Undisturbed, IInv, NEW c \in Users, Use(c)
  PROVE  CoverInv'
  <1> USE DEF IInv
  <1>0. PICK s \in Screens : s = screen[c]
    BY DEF TypeOK
  <1>n. PICK n \in Nat : n = Len(queue[c]) + 1
    BY Lengths
  <1>s. ScreenAt(c, n, s)
    BY <1>0, <1>n DEF CoverInv, ScreenOK
  <1>t. /\ s.post \in Users /\ s.bucket \in BucketIDs /\ s.old \in BucketIDs
        /\ Zero \in BucketIDs /\ Empty \in BucketIDs /\ Zero # Empty
        /\ Zero \notin Buckets /\ Empty \notin Buckets
    BY Distinct DEF Screens, BucketIDs
  <1>1. CASE OpenCreate(c)
    <2> DEFINE r == [Feed(c) EXCEPT !.at = "create", !.bucket = Zero]
    <2>1. r \in Screens
      BY DEF Feed, Screens, BucketIDs
    <2>2. ScreenAt(c, n, r)
      BY <1>t DEF ScreenAt, BornAt, Feed
    <2> QED BY <1>1, <1>n, <2>1, <2>2, ShowKept DEF OpenCreate
  <1>2. CASE TapBucketIt(c)
    <2>1. CASE s.at = "edit"
      <3> DEFINE r == [s EXCEPT !.picking = TRUE, !.old = s.bucket]
      <3>1. r \in Screens
        BY DEF Screens
      <3>2. s.bucket = s.old
        BY <1>0, <1>2, <2>1 DEF TapBucketIt, Undisturbed
      <3>3. ScreenAt(c, n, r)
        BY <1>s, <2>1, <3>2 DEF ScreenAt, Screens
      <3>4. Show(c, r)
        BY <1>0, <1>2, <2>1 DEF TapBucketIt
      <3> HIDE DEF r
      <3> QED BY <1>2, <1>n, <3>1, <3>3, <3>4, ShowKept DEF TapBucketIt
    <2>2. CASE s.at # "edit"
      <3> DEFINE r == [s EXCEPT !.picking = TRUE]
      <3>1. r \in Screens
        BY DEF Screens
      <3>3. ScreenAt(c, n, r)
        BY <1>s, <2>2 DEF ScreenAt, Screens
      <3>4. Show(c, r)
        BY <1>0, <1>2, <2>2 DEF TapBucketIt
      <3> HIDE DEF r
      <3> QED BY <1>2, <1>n, <3>1, <3>3, <3>4, ShowKept DEF TapBucketIt
    <2> QED BY <2>1, <2>2
  <1>3. CASE GoBack(c)
    <2>1. CASE s.picking
      <3> DEFINE r == [s EXCEPT !.picking = FALSE]
      <3>1. r \in Screens
        BY DEF Screens
      <3>2. ScreenAt(c, n, r)
        BY <1>s DEF ScreenAt, Screens
      <3>3. Show(c, r)
        BY <1>0, <1>3, <2>1 DEF GoBack
      <3> HIDE DEF r
      <3> QED BY <1>3, <1>n, <3>1, <3>2, <3>3, ShowKept DEF GoBack
    <2>2. CASE ~s.picking
      <3>1. Show(c, Feed(c)) /\ Feed(c) \in Screens /\ ScreenAt(c, n, Feed(c))
        BY <1>0, <1>3, <2>2, FeedType, FeedAt DEF GoBack
      <3> QED BY <1>3, <1>n, <3>1, ShowKept DEF GoBack
    <2> QED BY <2>1, <2>2
  <1>4. CASE CreatePost(c)
    <2> DEFINE w == Write("setPost", c, s.bucket, Empty)
    <2>1. s.bucket # Empty /\ BornAt(c, n, s.bucket)
      BY <1>0, <1>4, <1>s DEF CreatePost, ScreenAt
    <2>2. w \in Writes
      BY <1>t, WriteType DEF WriteOps, PostWrites
    <2>3. WriteAt(c, n, w)
      BY <2>1 DEF WriteAt, Write, Moves, PostWrites
    <2>4. /\ Issue(c, w) /\ Show(c, Feed(c))
          /\ UNCHANGED <<server, acks, crashed, filed>>
      BY <1>0, <1>4 DEF CreatePost
    <2> HIDE DEF w
    <2> QED BY <1>n, <2>2, <2>3, <2>4, IssueKept
  <1>5. CASE EditPost(c)
    <2> DEFINE w == Write("updatePost", s.post, s.bucket, s.old)
    <2>1. s.at = "edit" /\ s.fetch = "shown"
      BY <1>0, <1>5 DEF EditPost, Undisturbed
    <2>2. /\ s.bucket # Empty /\ s.old # Empty
          /\ BornAt(c, n, s.bucket) /\ PostAt(c, n, s.post)
          /\ CoveredAt(c, n, s.post, s.old)
      BY <1>s, <2>1 DEF ScreenAt
    <2>3. w \in Writes
      BY <1>t, WriteType DEF WriteOps, PostWrites
    <2>4. /\ w.op = "updatePost" /\ w.hook = TRUE /\ w.post = s.post
          /\ w.bucket = s.bucket /\ w.old = s.old
      BY DEF Write, PostWrites
    <2> HIDE DEF w
    <2>5. Moves(w) \/ CoveredAt(c, n, w.post, w.bucket)
      <3>1. CASE s.bucket = s.old
        BY <2>2, <2>4, <3>1
      <3>2. CASE s.bucket # s.old
        BY <2>2, <2>4, <3>2 DEF Moves
      <3> QED BY <3>1, <3>2
    <2>6. WriteAt(c, n, w)
      BY <2>2, <2>4, <2>5 DEF WriteAt, PostWrites
    <2>7. /\ Issue(c, w) /\ Show(c, Feed(c))
          /\ UNCHANGED <<server, acks, crashed, filed>>
      BY <1>0, <1>5 DEF EditPost, w
    <2> QED BY <1>n, <2>3, <2>6, <2>7, IssueKept
  <1>6. ASSUME NEW p \in Users, OpenEdit(c, p) PROVE CoverInv'
    <2> DEFINE r == [Feed(c) EXCEPT !.at = "edit", !.post = p]
    <2>1. r \in Screens
      BY DEF Feed, Screens, BucketIDs
    <2>2. PostAt(c, n, p)
      BY <1>6, <1>n, SeenPost DEF OpenEdit
    <2>3. ScreenAt(c, n, r)
      BY <1>t, <2>2 DEF ScreenAt, BornAt, Feed
    <2>4. Show(c, r) /\ UNCHANGED <<server, queue, acks, crashed, filed>>
      BY <1>6 DEF OpenEdit
    <2> HIDE DEF r
    <2> QED BY <1>n, <2>1, <2>3, <2>4, ShowKept
  <1>7. ASSUME NEW p \in Users, DeletePost(c, p) PROVE CoverInv'
    BY <1>7 DEF DeletePost, Undisturbed
  <1>8. ASSUME NEW b \in Buckets, BucketItPicked(c, b) PROVE CoverInv'
    <2> DEFINE r == [s EXCEPT !.picking = FALSE, !.bucket = b]
    <2>1. r \in Screens
      BY DEF Screens, BucketIDs
    <2>2. BornAt(c, n, b)
      BY <1>8, <1>n, SeenBorn DEF BucketItPicked
    <2>3. ScreenAt(c, n, r)
      BY <1>s, <1>t, <2>2 DEF ScreenAt, Screens
    <2>4. Show(c, r) /\ UNCHANGED <<server, queue, acks, crashed, filed>>
      BY <1>0, <1>8 DEF BucketItPicked
    <2> HIDE DEF r
    <2> QED BY <1>n, <2>1, <2>3, <2>4, ShowKept
  <1>9. ASSUME NEW b \in Buckets, NEW op \in {"setBucket", "deleteBucket"},
               Issue(c, Write(op, c, b, Empty)),
               UNCHANGED <<server, acks, screen, crashed, filed>>
        PROVE  CoverInv'
    <2> DEFINE w == Write(op, c, b, Empty)
    <2>1. w \in Writes /\ w.op = op
      <3>1. op \in WriteOps /\ b \in BucketIDs
        BY DEF WriteOps, BucketIDs
      <3> QED BY <1>t, <3>1, WriteType
    <2>2. WriteAt(c, n, w)
      BY DEF WriteAt, Write, PostWrites
    <2> HIDE DEF w
    <2> QED BY <1>9, <1>n, <2>1, <2>2, IssueKept DEF w
  <1>10. ASSUME NEW b \in Buckets, CreateBucket(c, b) \/ DeleteBucket(c, b)
         PROVE  CoverInv'
    BY <1>9, <1>10 DEF CreateBucket, DeleteBucket
  <1> QED BY <1>1, <1>2, <1>3, <1>4, <1>5, <1>6, <1>7, <1>8, <1>10 DEF Use

LEMMA CoverFetch ==
  ASSUME IInv, NEW c \in Users, AnswerFetch(c) \/ ShowFetched(c)
  PROVE  CoverInv'
  <1> USE DEF IInv
  <1>0. PICK s \in Screens : s = screen[c]
    BY DEF TypeOK
  <1>n. PICK n \in Nat : n = Len(queue[c]) + 1
    BY Lengths
  <1>s. ScreenAt(c, n, s)
    BY <1>0, <1>n DEF CoverInv, ScreenOK
  <1>1. CASE AnswerFetch(c)
    <2>1. PICK v \in Answers(c, s.post) :
            Show(c, [s EXCEPT !.fetch = "answered", !.answer = v])
      BY <1>0, <1>1 DEF AnswerFetch
    <2>2. s.at = "edit" /\ s.post \in Users
      BY <1>0, <1>1 DEF AnswerFetch, Screens
    <2>3. v \in BucketIDs
      BY <2>2, AnswersType
    <2>4. PostAt(c, n, s.post)
      BY <1>s, <2>2 DEF ScreenAt
    <2>5. SeesPost(c, s.post)
      <3>1. \A i \in DOMAIN queue[c] : queue[c][i].op # "deletePost"
        BY DEF CoverInv, WriteOK, WriteAt
      <3> QED BY <2>4, <3>1 DEF PostAt, SeesPost, Queued
    <2>6. v # Empty /\ CoveredAt(c, n, s.post, v) /\ BornAt(c, n, v)
      <3>1. CASE Queued(c, s.post, PostWrites) = {}
        <4>1. v = posts[s.post]
          BY <2>5, <3>1 DEF Answers
        <4>2. posts[s.post] # NoPost
          BY <2>4, <3>1 DEF PostAt, Queued, PostWrites
        <4> QED BY <2>2, <4>1, <4>2 DEF CoverInv, PostOK, CoveredAt, BornAt
      <3>2. CASE Queued(c, s.post, PostWrites) # {}
        <4>1. PICK i \in Queued(c, s.post, PostWrites) : v = queue[c][i].bucket
          BY <2>5, <3>2 DEF Answers
        <4>2. PICK w \in Writes : w = queue[c][i]
          BY <4>1, ElementType DEF Queued
        <4>3. /\ i \in DOMAIN queue[c] /\ w.post = s.post /\ w.op \in PostWrites
              /\ v = w.bucket /\ i \in Nat /\ i < n
          BY <4>1, <4>2, <1>n, Lengths DEF Queued
        <4>4. WriteAt(c, i, w)
          BY <4>2, <4>3 DEF CoverInv, WriteOK
        <4>5. v # Empty /\ BornAt(c, i, v) /\ (Moves(w) \/ CoveredAt(c, i, s.post, v))
          BY <4>3, <4>4 DEF WriteAt
        <4>6. \A j \in DOMAIN queue[c] : j < i => j < n
          BY <4>3, Lengths
        <4>7. BornAt(c, n, v)
          BY <4>5, <4>6 DEF BornAt
        <4>8. CoveredAt(c, n, s.post, v)
          <5>1. CASE Moves(w)
            BY <4>2, <4>3, <5>1 DEF CoveredAt, Starts
          <5>2. CASE CoveredAt(c, i, s.post, v)
            BY <4>6, <5>2 DEF CoveredAt
          <5> QED BY <4>5, <5>1, <5>2
        <4> QED BY <4>5, <4>7, <4>8
      <3> QED BY <3>1, <3>2
    <2> DEFINE r == [s EXCEPT !.fetch = "answered", !.answer = v]
    <2>7. r \in Screens
      BY <2>3 DEF Screens
    <2>8. ScreenAt(c, n, r)
      BY <1>s, <2>2, <2>6 DEF ScreenAt, Screens
    <2>9. Show(c, r)
      BY <2>1
    <2> HIDE DEF r
    <2> QED BY <1>1, <1>n, <2>7, <2>8, <2>9, ShowKept DEF AnswerFetch
  <1>2. CASE ShowFetched(c)
    <2> DEFINE r == [s EXCEPT !.fetch = "shown", !.bucket = s.answer,
                              !.old = s.answer, !.answer = Empty]
    <2>1. s.at = "edit" /\ s.fetch = "answered"
      BY <1>0, <1>2 DEF ShowFetched
    <2>2. r \in Screens
      BY DEF Screens, BucketIDs
    <2>3. /\ r.at = "edit" /\ r.fetch = "shown" /\ r.post = s.post
          /\ r.bucket = s.answer /\ r.old = s.answer
      BY <2>1 DEF Screens
    <2>4. Show(c, r)
      BY <1>0, <1>2 DEF ShowFetched
    <2> HIDE DEF r
    <2>5. ScreenAt(c, n, r)
      BY <1>s, <2>1, <2>3 DEF ScreenAt
    <2> QED BY <1>2, <1>n, <2>2, <2>4, <2>5, ShowKept DEF ShowFetched
  <1> QED BY <1>1, <1>2

----------------------------------------------------------------------------
(* The server takes the head of a queue: the other writes of that device   *)
(* move up by one.                                                         *)

\* What the head leaves behind for the writes after it.
HeadServed(w) ==
  /\ w.op = "setBucket" /\ w.bucket \in Buckets => status'[w.bucket] # "unborn"
  /\ w.op = "setPost" => posts'[w.post] # NoPost
  /\ w.op \in PostWrites /\ Moves(w) => Covered(w.post, w.bucket)'

LEMMA ShiftsAt ==
  ASSUME TypeOK, KeepsDocs, NEW c \in Users, queue[c] # <<>>,
         NEW ok \in BOOLEAN, Settle(c, ok),
         NEW w \in Writes, w = Head(queue[c]), HeadServed(w),
         NEW p \in Users, NEW b \in BucketIDs, NEW n \in Nat
  PROVE  /\ CoveredAt(c, n + 1, p, b) => CoveredAt(c, n, p, b)'
         /\ BornAt(c, n + 1, b) => BornAt(c, n, b)'
         /\ PostAt(c, n + 1, p) => PostAt(c, n, p)'
  <1>1. ASSUME NEW j \in DOMAIN queue[c], j < n + 1, j # 1
        PROVE  /\ j - 1 \in DOMAIN queue'[c]
               /\ queue'[c][j - 1] = queue[c][j]
               /\ j - 1 < n
    <2>1. j \in Nat /\ j - 1 \in DOMAIN queue'[c]
      BY <1>1, SettleElements
    <2>2. queue'[c][j - 1] = queue[c][(j - 1) + 1]
      BY <2>1, SettleElements
    <2> QED BY <1>1, <2>1, <2>2
  <1>2. queue[c][1] = w
    BY SettleElements
  <1>3. ASSUME CoveredAt(c, n + 1, p, b) PROVE CoveredAt(c, n, p, b)'
    <2>1. CASE Covered(p, b)
      BY <2>1 DEF KeepsDocs, CoveredAt
    <2>2. CASE Starts(w, p, b)
      BY <2>2 DEF HeadServed, Starts, CoveredAt
    <2>3. ASSUME NEW j \in DOMAIN queue[c], j < n + 1, j # 1,
                 Starts(queue[c][j], p, b)
          PROVE  CoveredAt(c, n, p, b)'
      BY <1>1, <2>3 DEF CoveredAt, Starts, Moves
    <2> QED BY <1>2, <1>3, <2>1, <2>2, <2>3 DEF CoveredAt
  <1>4. ASSUME BornAt(c, n + 1, b), b \in Buckets PROVE BornAt(c, n, b)'
    <2>1. CASE status[b] # "unborn"
      BY <1>4, <2>1 DEF KeepsDocs, BornAt
    <2>2. CASE w.op = "setBucket" /\ w.bucket = b
      BY <1>4, <2>2 DEF HeadServed, BornAt
    <2>3. ASSUME NEW j \in DOMAIN queue[c], j < n + 1, j # 1,
                 queue[c][j].op = "setBucket", queue[c][j].bucket = b
          PROVE  BornAt(c, n, b)'
      BY <1>1, <2>3 DEF BornAt
    <2> QED BY <1>2, <1>4, <2>1, <2>2, <2>3 DEF BornAt
  <1>5. ASSUME PostAt(c, n + 1, p) PROVE PostAt(c, n, p)'
    <2>1. CASE posts[p] # NoPost
      BY <2>1 DEF KeepsDocs, PostAt
    <2>2. CASE w.op = "setPost" /\ w.post = p
      BY <2>2 DEF HeadServed, PostAt
    <2>3. ASSUME NEW j \in DOMAIN queue[c], j < n + 1, j # 1,
                 queue[c][j].op = "setPost", queue[c][j].post = p
          PROVE  PostAt(c, n, p)'
      BY <1>1, <2>3 DEF PostAt
    <2> QED BY <1>2, <1>5, <2>1, <2>2, <2>3 DEF PostAt
  <1>6. BornAt(c, n + 1, b) => BornAt(c, n, b)'
    <2>1. CASE b \in Buckets
      BY <1>4, <2>1
    <2>2. CASE b \notin Buckets
      BY <2>2 DEF BornAt
    <2> QED BY <2>1, <2>2
  <1> QED BY <1>3, <1>5, <1>6

\* The queues and the screens after the server took a write.
LEMMA ServedDevices ==
  ASSUME TypeOK, CoverInv, KeepsDocs, NEW c \in Users, queue[c] # <<>>,
         NEW ok \in BOOLEAN, Settle(c, ok),
         NEW w \in Writes, w = Head(queue[c]), HeadServed(w), UNCHANGED screen
  PROVE  /\ \A d \in Users : \A i \in DOMAIN queue'[d] : WriteOK(d, i)'
         /\ \A d \in Users : ScreenOK(d)'
  <1>1. ASSUME NEW d \in Users, d # c
        PROVE  (\A i \in DOMAIN queue'[d] : WriteOK(d, i)') /\ ScreenOK(d)'
    <2>1. queue'[d] = queue[d]
      BY <1>1, SettleElements
    <2>2. KeepsQueue(d) /\ Len(queue'[d]) \in Nat /\ Len(queue[d]) <= Len(queue'[d])
      BY <2>1, Lengths DEF KeepsQueue
    <2> QED BY <2>1, <2>2, DeviceKept DEF TypeOK
  <1>2. ASSUME NEW i \in DOMAIN queue'[c] PROVE WriteOK(c, i)'
    <2>1. PICK n \in Nat : n = i
      BY SettleElements
    <2>2. n + 1 \in DOMAIN queue[c] /\ queue'[c][n] = queue[c][n + 1]
      BY <2>1, SettleElements
    <2>3. PICK v \in Writes : v = queue[c][n + 1]
      BY <2>2, ElementType
    <2>4. WriteAt(c, n + 1, v)
      BY <2>2, <2>3 DEF CoverInv, WriteOK
    <2>5. v.post \in Users /\ v.bucket \in BucketIDs
      BY DEF Writes
    <2>6. /\ CoveredAt(c, n + 1, v.post, v.bucket) => CoveredAt(c, n, v.post, v.bucket)'
          /\ BornAt(c, n + 1, v.bucket) => BornAt(c, n, v.bucket)'
          /\ PostAt(c, n + 1, v.post) => PostAt(c, n, v.post)'
      BY <2>5, ShiftsAt
    <2>7. WriteAt(c, n, v)'
      BY <2>4, <2>6 DEF WriteAt, Moves
    <2> QED BY <2>1, <2>2, <2>3, <2>7 DEF WriteOK
  <1>3. ScreenOK(c)'
    <2>1. PICK s \in Screens : s = screen[c]
      BY DEF TypeOK
    <2>2. PICK n \in Nat : n = Len(queue'[c]) + 1
      BY SettleElements, Lengths
    <2>3. Len(queue[c]) + 1 = n + 1
      BY <2>2, SettleElements
    <2>4. ScreenAt(c, n + 1, s)
      BY <2>1, <2>3 DEF CoverInv, ScreenOK
    <2>5. /\ s.post \in Users /\ s.bucket \in BucketIDs
          /\ s.answer \in BucketIDs /\ s.old \in BucketIDs
      BY DEF Screens
    <2>6. /\ PostAt(c, n + 1, s.post) => PostAt(c, n, s.post)'
          /\ BornAt(c, n + 1, s.bucket) => BornAt(c, n, s.bucket)'
          /\ BornAt(c, n + 1, s.answer) => BornAt(c, n, s.answer)'
          /\ CoveredAt(c, n + 1, s.post, s.answer) => CoveredAt(c, n, s.post, s.answer)'
          /\ CoveredAt(c, n + 1, s.post, s.old) => CoveredAt(c, n, s.post, s.old)'
      BY <2>5, ShiftsAt
    <2>7. ScreenAt(c, n, s)'
      BY <2>4, <2>6 DEF ScreenAt
    <2> QED BY <2>1, <2>2, <2>7 DEF ScreenOK
  <1> QED BY <1>1, <1>2, <1>3

\* A write that is still to be listed, or an outcome not handled yet, is only
\* lost with the head of the queue.
LEMMA AddingServed ==
  ASSUME TypeOK, NEW c \in Users, queue[c] # <<>>, NEW ok \in BOOLEAN, Settle(c, ok),
         NEW w \in Writes, w = Head(queue[c]),
         NEW p \in Users, NEW b \in BucketIDs, Adding(p, b)
  PROVE  \/ Adding(p, b)'
         \/ w.op = "addToBucket" /\ w.post = p /\ w.bucket = b
  <1>1. /\ \A d \in Users : d # c => queue'[d] = queue[d] /\ acks'[d] = acks[d]
        /\ w = queue[c][1]
        /\ \A i \in DOMAIN acks[c] : i \in DOMAIN acks'[c] /\ acks'[c][i] = acks[c][i]
    BY SettleElements
  <1>2. ASSUME NEW i \in DOMAIN queue[c], i # 1
        PROVE  i - 1 \in DOMAIN queue'[c] /\ queue'[c][i - 1] = queue[c][i]
    <2>1. i \in Nat /\ i - 1 \in DOMAIN queue'[c]
      BY <1>2, SettleElements
    <2>2. queue'[c][i - 1] = queue[c][(i - 1) + 1]
      BY <2>1, SettleElements
    <2> QED BY <2>1, <2>2
  <1>3. ASSUME NEW d \in Users, NEW i \in DOMAIN acks[d], acks[d][i].ok,
               acks[d][i].write.post = p, acks[d][i].write.bucket = b,
               Moves(acks[d][i].write)
        PROVE  Adding(p, b)'
    <2>1. i \in DOMAIN acks'[d] /\ acks'[d][i] = acks[d][i]
      BY <1>1
    <2> QED BY <1>3, <2>1 DEF Adding, Moves
  <1>4. ASSUME NEW d \in Users, NEW i \in DOMAIN queue[d],
               queue[d][i].op = "addToBucket",
               queue[d][i].post = p, queue[d][i].bucket = b
        PROVE  \/ Adding(p, b)'
               \/ w.op = "addToBucket" /\ w.post = p /\ w.bucket = b
    <2>1. CASE d # c
      BY <1>1, <1>4, <2>1 DEF Adding
    <2>2. CASE d = c /\ i # 1
      BY <1>2, <1>4, <2>2 DEF Adding
    <2>3. CASE d = c /\ i = 1
      BY <1>1, <1>4, <2>3
    <2> QED BY <2>1, <2>2, <2>3
  <1> QED BY <1>3, <1>4 DEF Adding

\* The first write of a queue has nothing before it to wait for.
LEMMA HeadOK ==
  ASSUME IInv, NEW c \in Users, queue[c] # <<>>,
         NEW w \in Writes, w = Head(queue[c])
  PROVE  /\ w.op # "deletePost"
         /\ w.hook <=> w.op \in PostWrites
         /\ w.op \in PostWrites =>
              w.bucket # Empty /\ (Moves(w) \/ Covered(w.post, w.bucket))
         /\ w.op = "updatePost" => w.old # Empty /\ posts[w.post] # NoPost
         /\ w.op \in PostWrites \cup {"addToBucket"} /\ w.bucket \in Buckets =>
              status[w.bucket] # "unborn"
         /\ w.op = "setBucket" => w.bucket \in Buckets /\ status[w.bucket] = "unborn"
  <1>1. /\ 1 \in DOMAIN queue[c] /\ w = queue[c][1]
        /\ \A j \in DOMAIN queue[c] : ~(j < 1)
    <2>1. queue[c] \in Seq(Writes)
      BY DEF IInv, TypeOK
    <2> QED BY <2>1, HeadTail, Lengths DEF IInv
  <1>2. WriteAt(c, 1, w)
    BY <1>1 DEF IInv, CoverInv, WriteOK
  <1>3. w.op = "setBucket" => w.bucket \in Buckets /\ status[w.bucket] = "unborn"
    BY <1>1 DEF IInv, BucketInv, SetUnborn
  <1> QED BY <1>1, <1>2, <1>3 DEF WriteAt, CoveredAt, BornAt, PostAt

LEMMA CoverServe ==
  ASSUME IInv, NEW c \in Users, Serve(c)
  PROVE  CoverInv'
  <1> USE DEF IInv
  <1>0. queue[c] # <<>>
    BY DEF Serve, Take, ApplySetPost, ApplyUpdatePost, RejectUpdatePost,
           ApplyDeletePost, ApplySetComments, ApplyRemoveOld, ApplyAddToBucket,
           ApplySetBucket, ApplyDeleteBucket
  <1>w. PICK w \in Writes : w = Head(queue[c])
    BY <1>0, HeadType
  <1>t. w.post \in Users /\ w.bucket \in BucketIDs
    BY DEF Writes
  <1>h. /\ w.op # "deletePost"
        /\ w.hook <=> w.op \in PostWrites
        /\ w.op \in PostWrites =>
             w.bucket # Empty /\ (Moves(w) \/ Covered(w.post, w.bucket))
        /\ w.op = "updatePost" => w.old # Empty /\ posts[w.post] # NoPost
        /\ w.op \in PostWrites \cup {"addToBucket"} /\ w.bucket \in Buckets =>
             status[w.bucket] # "unborn"
        /\ w.op = "setBucket" => w.bucket \in Buckets /\ status[w.bucket] = "unborn"
    BY <1>0, <1>w, HeadOK
  \* What each kind of write does to the documents.
  <1>1. /\ Settle(c, TRUE) /\ UNCHANGED <<screen, crashed>>
        /\ \/ /\ w.op \in PostWrites /\ File(w.post, w.bucket)
              /\ UNCHANGED <<status, postsIDs>>
           \/ w.op \notin PostWrites /\ UNCHANGED <<posts, filed>>
        /\ \/ UNCHANGED <<status, postsIDs>> /\ w.op \notin {"setBucket", "addToBucket"}
           \/ w.op = "addToBucket" /\ UNCHANGED status
                /\ postsIDs' = [b \in Buckets |->
                     IF b = w.bucket /\ status[b] = "live"
                       THEN postsIDs[b] \cup {w.post} ELSE postsIDs[b]]
           \/ w.op = "setBucket"
                /\ status' = [status EXCEPT ![w.bucket] = "live"]
                /\ postsIDs' = [postsIDs EXCEPT ![w.bucket] = {}]
           \/ w.op = "deleteBucket"
                /\ status' = [status EXCEPT ![w.bucket] =
                                IF @ = "unborn" THEN @ ELSE "dead"]
                /\ postsIDs' = [postsIDs EXCEPT ![w.bucket] = {}]
    <2>1. CASE ApplySetPost(c)
      BY <1>w, <2>1 DEF ApplySetPost, Take, PostWrites
    <2>2. CASE ApplyUpdatePost(c)
      BY <1>w, <2>2 DEF ApplyUpdatePost, Take, PostWrites
    <2>3. CASE RejectUpdatePost(c)
      BY <1>w, <1>h, <2>3 DEF RejectUpdatePost, Take
    <2>4. CASE ApplyDeletePost(c)
      BY <1>w, <1>h, <2>4 DEF ApplyDeletePost, Take
    <2>5. CASE ApplySetComments(c)
      BY <1>w, <2>5 DEF ApplySetComments, Take, PostWrites
    <2>6. CASE ApplyRemoveOld(c)
      BY <1>w, <2>6 DEF ApplyRemoveOld, Take, PostWrites, server
    <2>7. CASE ApplyAddToBucket(c)
      BY <1>w, <2>7 DEF ApplyAddToBucket, Take, PostWrites
    <2>8. CASE ApplySetBucket(c)
      BY <1>w, <2>8 DEF ApplySetBucket, Take, PostWrites
    <2>9. CASE ApplyDeleteBucket(c)
      BY <1>w, <2>9 DEF ApplyDeleteBucket, Take, PostWrites
    <2> QED BY <2>1, <2>2, <2>3, <2>4, <2>5, <2>6, <2>7, <2>8, <2>9 DEF Serve
  <1>2. \A p \in Users : posts[p] # NoPost => posts'[p] # NoPost
    BY <1>1, <1>t, Distinct DEF File, TypeOK
  <1>3. \A b \in Buckets : /\ status[b] # "unborn" => status'[b] # "unborn"
                           /\ status[b] = "dead" => status'[b] = "dead"
    BY <1>1, <1>h DEF TypeOK
  <1>4. \A p \in Users : \A b \in Buckets :
          p \in postsIDs[b] => p \in postsIDs'[b] \/ status'[b] = "dead"
    BY <1>1, <1>h DEF TypeOK, BucketInv, EmptyUnlessLive
  <1>5. w.op = "addToBucket" /\ w.bucket \in Buckets =>
          w.post \in postsIDs'[w.bucket] \/ status'[w.bucket] = "dead"
    BY <1>1, <1>h DEF TypeOK
  <1>6. ASSUME NEW p \in Users, NEW b \in BucketIDs, Covered(p, b)
        PROVE  Covered(p, b)'
    <2>1. CASE b \notin Buckets
      BY <2>1 DEF Covered
    <2>2. CASE b \in Buckets /\ Adding(p, b)
      <3>1. \/ Adding(p, b)'
            \/ w.op = "addToBucket" /\ w.post = p /\ w.bucket = b
        BY <1>0, <1>1, <1>w, <2>2, AddingServed
      <3> QED BY <1>5, <2>2, <3>1 DEF Covered
    <2>3. CASE b \in Buckets /\ (status[b] = "dead" \/ p \in postsIDs[b])
      BY <1>3, <1>4, <2>3 DEF Covered
    <2> QED BY <1>6, <2>1, <2>2, <2>3 DEF Covered
  <1>7. KeepsDocs
    BY <1>2, <1>3, <1>6 DEF KeepsDocs
  \* The outcome of a post's write waits for its closure.
  <1>8. w.op \in PostWrites =>
          \E i \in DOMAIN acks'[c] : acks'[c][i] = [write |-> w, ok |-> TRUE]
    BY <1>0, <1>1, <1>w, <1>h, SettleElements
  <1>9. w.op \in PostWrites /\ Moves(w) => Covered(w.post, w.bucket)'
    BY <1>8 DEF Covered, Adding, Moves
  <1>10. HeadServed(w)
    BY <1>1, <1>9, <1>t, Distinct DEF HeadServed, File, TypeOK, PostWrites
  <1>11. /\ \A d \in Users : \A i \in DOMAIN queue'[d] : WriteOK(d, i)'
         /\ \A d \in Users : ScreenOK(d)'
    BY <1>0, <1>1, <1>7, <1>10, <1>w, ServedDevices
  <1>12. ASSUME NEW p \in Users PROVE PostOK(p)'
    <2>1. CASE w.op \in PostWrites /\ p = w.post
      <3>1. posts'[p] = w.bucket /\ UNCHANGED status
        BY <1>1, <2>1 DEF File, TypeOK
      <3>2. Covered(p, w.bucket)'
        BY <1>7, <1>9, <1>h, <1>t, <2>1 DEF KeepsDocs
      <3>3. w.bucket # NoPost
        BY <1>t, Distinct
      <3> QED BY <1>h, <2>1, <3>1, <3>2, <3>3 DEF PostOK
    <2>2. CASE ~(w.op \in PostWrites /\ p = w.post)
      <3>1. PICK b \in BucketIDs \cup {NoPost} : b = posts[p]
        BY DEF TypeOK
      <3>2. /\ posts'[p] = b
            /\ \A v \in BucketIDs : <<p, v>> \in filed' => <<p, v>> \in filed
        BY <1>1, <2>2, <3>1 DEF File, TypeOK
      <3>3. b # Empty /\ (b # NoPost =>
              Covered(p, b) /\ (b \in Buckets => status[b] # "unborn"))
        BY <3>1 DEF CoverInv, PostOK
      <3>4. b # NoPost => Covered(p, b)' /\ (b \in Buckets => status'[b] # "unborn")
        BY <1>7, <3>3 DEF KeepsDocs
      <3>5. \A v \in BucketIDs : <<p, v>> \in filed' => b # NoPost
        BY <3>1, <3>2 DEF CoverInv, PostOK
      <3> QED BY <3>2, <3>3, <3>4, <3>5 DEF PostOK
    <2> QED BY <2>1, <2>2
  <1>13. ASSUME NEW d \in Users, NEW i \in DOMAIN acks'[d]
         PROVE  OutcomeOK(acks[d][i])'
    <2>1. CASE i \in DOMAIN acks[d] /\ acks'[d][i] = acks[d][i]
      <3>1. PICK o \in Outcomes : o = acks[d][i]
        BY <2>1, ElementType
      <3>2. OutcomeOK(o)
        BY <2>1, <3>1 DEF CoverInv
      <3>3. OutcomeOK(o)'
        BY <1>7, <3>2 DEF OutcomeOK, KeepsDocs
      <3> QED BY <2>1, <3>1, <3>3
    <2>2. CASE w.hook /\ acks'[d][i] = [write |-> w, ok |-> TRUE]
      BY <1>h, <1>3, <2>2 DEF OutcomeOK
    <2>3. \/ i \in DOMAIN acks[d] /\ acks'[d][i] = acks[d][i]
          \/ w.hook /\ acks'[d][i] = [write |-> w, ok |-> TRUE]
      <3>1. Settle(c, TRUE)
        BY <1>1
      <3>2. /\ d # c => acks'[d] = acks[d]
            /\ \A k \in DOMAIN acks'[c] :
                 \/ k \in DOMAIN acks[c] /\ acks'[c][k] = acks[c][k]
                 \/ w.hook /\ acks'[c][k] = [write |-> w, ok |-> TRUE]
        BY <1>0, <1>w, <3>1, SettleElements
      <3> QED BY ONLY <3>2, i \in DOMAIN acks'[d]
    <2> QED BY <2>1, <2>2, <2>3
  <1> QED BY <1>1, <1>11, <1>12, <1>13 DEF CoverInv, NoCrash

----------------------------------------------------------------------------
(* The closures.                                                           *)

\* A closure that appends writes in order, and keeps what is to be listed.
LEMMA HandledKept ==
  ASSUME IInv, NEW c \in Users, acks[c] # <<>>, Handled(c),
         NEW ws \in Seq(Writes), queue' = [queue EXCEPT ![c] = @ \o ws],
         NEW w \in Writes, w = Head(acks[c]).write,
         Moves(w) /\ w.bucket \in Buckets => Adding(w.post, w.bucket)',
         \A i \in DOMAIN ws : \A n \in Nat : WriteAt(c, n, ws[i]),
         UNCHANGED <<server, screen, crashed, filed>>
  PROVE  CoverInv'
  <1> USE DEF IInv
  <1>1. /\ \A d \in Users : d # c => queue'[d] = queue[d] /\ acks'[d] = acks[d]
        /\ \A d \in Users : KeepsQueue(d)
        /\ \A d \in Users : Len(queue'[d]) \in Nat /\ Len(queue[d]) <= Len(queue'[d])
    <2>1. \A d \in Users : d # c => queue'[d] = queue[d] /\ acks'[d] = acks[d]
      BY AppendElements, HandledElements
    <2>2. Len(ws) \in Nat /\ Len(queue[c]) \in Nat
          /\ Len(queue'[c]) = Len(queue[c]) + Len(ws)
      <3>1. Len(ws) \in Nat
        OBVIOUS
      <3>2. TypeOK
        OBVIOUS
      <3> QED BY ONLY <3>1, <3>2, AppendElements, c \in Users, ws \in Seq(Writes),
                 queue' = [queue EXCEPT ![c] = @ \o ws]
    <2>3. KeepsQueue(c)
      BY AppendElements DEF KeepsQueue
    <2> QED BY <2>1, <2>2, <2>3, Lengths DEF KeepsQueue
  <1>2. ASSUME NEW p \in Users, NEW b \in Buckets, Adding(p, b) PROVE Adding(p, b)'
    <2>1. ASSUME NEW d \in Users, NEW i \in DOMAIN queue[d],
                 queue[d][i].op = "addToBucket",
                 queue[d][i].post = p, queue[d][i].bucket = b
          PROVE  Adding(p, b)'
      BY <1>1, <2>1 DEF Adding, KeepsQueue
    <2>2. ASSUME NEW d \in Users, NEW i \in DOMAIN acks[d], acks[d][i].ok,
                 acks[d][i].write.post = p, acks[d][i].write.bucket = b,
                 Moves(acks[d][i].write)
          PROVE  Adding(p, b)'
      <3>1. CASE d # c
        BY <1>1, <2>2, <3>1 DEF Adding, Moves
      <3>2. CASE d = c /\ i # 1
        <4>1. i - 1 \in DOMAIN acks'[c] /\ acks'[c][i - 1] = acks[c][i]
          BY <3>2, HandledElements
        <4> QED BY <2>2, <3>2, <4>1 DEF Adding, Moves
      <3>3. CASE d = c /\ i = 1
        <4>1. w = acks[d][i].write
          BY <3>3, HandledElements
        <4>2. Moves(w) /\ w.post = p /\ w.bucket = b
          BY <2>2, <4>1
        <4> QED BY <4>2
      <3> QED BY <3>1, <3>2, <3>3
    <2> QED BY <1>2, <2>1, <2>2 DEF Adding
  <1>3. KeepsDocs
    BY <1>2 DEF KeepsDocs, Covered, server
  <1>4. ASSUME NEW d \in Users, NEW i \in DOMAIN queue'[d] PROVE WriteOK(d, i)'
    <2>1. CASE i \in DOMAIN queue[d]
      BY <1>1, <1>3, <2>1, DeviceKept
    <2>2. CASE i \notin DOMAIN queue[d]
      <3>1. /\ d = c /\ i - Len(queue[c]) \in DOMAIN ws
            /\ queue'[c][i] = ws[i - Len(queue[c])]
        BY <1>1, <2>2, AppendElements
      <3>2. PICK v \in Writes : v = ws[i - Len(queue[c])]
        BY <3>1
      <3>3. PICK n \in Nat : n = i
        <4>1. queue'[c] \in Seq(Writes)
          BY AppendType
        <4> QED BY <3>1, <4>1
      <3>4. WriteAt(c, n, v)
        BY <3>1, <3>2
      <3>5. WriteAt(c, n, v)'
        BY <1>1, <1>3, <3>4, Lengths, WriteKept
      <3> QED BY <3>1, <3>2, <3>3, <3>5 DEF WriteOK
    <2> QED BY <2>1, <2>2
  <1>5. \A d \in Users : ScreenOK(d)'
    BY <1>1, <1>3, DeviceKept DEF TypeOK
  <1>6. \A p \in Users : PostOK(p)'
    BY <1>3, PostsKept DEF server
  <1>7. \A d \in Users : \A i \in DOMAIN acks'[d] : OutcomeOK(acks[d][i])'
    <2>1. \A i \in DOMAIN acks'[c] : \E j \in DOMAIN acks[c] : acks'[c][i] = acks[c][j]
      BY HandledElements
    <2>2. \A d \in Users : \A i \in DOMAIN acks'[d] : \E j \in DOMAIN acks[d] :
            acks'[d][i] = acks[d][j]
      BY <1>1, <2>1
    <2> QED BY <1>3, <2>2, OutcomesKept
  <1> QED BY <1>4, <1>5, <1>6, <1>7 DEF CoverInv, NoCrash

\* A closure that appends an arrayUnion is on its way to list the post.
LEMMA AddIssued ==
  ASSUME TypeOK, NEW c \in Users, NEW ws \in Seq(Writes),
         queue' = [queue EXCEPT ![c] = @ \o ws],
         NEW k \in DOMAIN ws, ws[k].op = "addToBucket"
  PROVE  Adding(ws[k].post, ws[k].bucket)'
  <1>1. queue[c] \in Seq(Writes) /\ queue'[c] = queue[c] \o ws
    BY DEF TypeOK
  <1>2. PICK i \in DOMAIN queue'[c] : queue'[c][i] = ws[k]
    <2>1. /\ Len(queue[c]) + k \in DOMAIN queue'[c]
          /\ queue'[c][Len(queue[c]) + k] = ws[k]
      BY <1>1
    <2> QED BY <2>1
  <1> QED BY <1>2 DEF Adding

\* A write without a closure that is not the deletion of a post, and files the
\* post in a bucket that is there, asks for nothing else.
LEMMA FollowUp ==
  ASSUME NEW c \in Users, NEW n, NEW p, NEW b, NEW o,
         NEW op \in {"setComments", "removeOld", "addToBucket"},
         op = "addToBucket" => (b \in Buckets => status[b] # "unborn")
  PROVE  WriteAt(c, n, Write(op, p, b, o))
  BY DEF WriteAt, Write, PostWrites, BornAt

LEMMA CoverClosure ==
  ASSUME IInv, NEW c \in Users, RunClosure(c)
  PROVE  CoverInv'
  <1> USE DEF IInv
  <1>0. acks[c] # <<>>
    BY DEF RunClosure, PostCreated, PostMoved, PostKept, EditRefused,
           CrashOnNoOldBucket, Acked
  <1>o. PICK o \in Outcomes : o = Head(acks[c])
    BY <1>0, HeadType
  <1>w. PICK w \in Writes : w = o.write
    BY DEF Outcomes
  <1>t. /\ w.post \in Users /\ w.bucket \in BucketIDs /\ w.old \in BucketIDs
        /\ Empty \in BucketIDs
    BY DEF Writes, BucketIDs
  <1>k. OutcomeOK(o)
    <2>1. 1 \in DOMAIN acks[c] /\ o = acks[c][1]
      BY <1>0, <1>o, HeadTail DEF TypeOK
    <2> QED BY <2>1 DEF CoverInv
  <1>h. /\ w.op = "updatePost" => w.old # Empty
        /\ w.bucket # Empty
        /\ w.bucket \in Buckets => status[w.bucket] # "unborn"
    BY <1>k, <1>w DEF OutcomeOK
  <1> DEFINE doc == Write("setComments", w.post, Empty, Empty)
             rem == Write("removeOld", w.post, w.old, Empty)
             add == Write("addToBucket", w.post, w.bucket, Empty)
  <1>1. /\ doc \in Writes /\ rem \in Writes /\ add \in Writes
        /\ add.op = "addToBucket" /\ add.post = w.post /\ add.bucket = w.bucket
    BY <1>t, WriteType DEF WriteOps
  <1>2. \A n \in Nat : WriteAt(c, n, doc) /\ WriteAt(c, n, rem) /\ WriteAt(c, n, add)
    BY <1>h, FollowUp
  <1> HIDE DEF doc, rem, add
  \* The closures that list the post, after a write of another kind.
  <1>3. ASSUME NEW v \in Writes, \A n \in Nat : WriteAt(c, n, v),
               queue' = [queue EXCEPT ![c] = @ \o <<v, add>>], Handled(c),
               UNCHANGED <<server, screen, crashed, filed>>
        PROVE  CoverInv'
    <2> DEFINE ws == <<v, add>>
    <2>1. ws \in Seq(Writes) /\ DOMAIN ws = 1 .. 2 /\ ws[1] = v /\ ws[2] = add
      BY <1>1
    <2>2. \A i \in DOMAIN ws : \A n \in Nat : WriteAt(c, n, ws[i])
      BY <1>2, <1>3, <2>1
    <2>3. queue' = [queue EXCEPT ![c] = @ \o ws]
      BY <1>3
    <2> HIDE DEF ws
    <2>4. Adding(w.post, w.bucket)'
      <3>1. 2 \in DOMAIN ws /\ ws[2] = add
        BY <2>1
      <3>2. Adding(ws[2].post, ws[2].bucket)'
        BY <1>1, <2>1, <2>3, <3>1, AddIssued
      <3> QED BY <1>1, <3>1, <3>2
    <2> QED BY <1>0, <1>3, <1>o, <1>w, <2>1, <2>2, <2>3, <2>4, HandledKept
  <1>4. CASE PostCreated(c)
    <2>1. /\ queue' = [queue EXCEPT ![c] = @ \o <<doc, add>>] /\ Handled(c)
          /\ UNCHANGED <<server, screen, crashed, filed>>
      BY <1>4, <1>h, <1>o, <1>w DEF PostCreated, doc, add
    <2> QED BY <1>1, <1>2, <1>3, <2>1
  <1>5. CASE PostMoved(c)
    <2>1. /\ queue' = [queue EXCEPT ![c] = @ \o <<rem, add>>] /\ Handled(c)
          /\ UNCHANGED <<server, screen, crashed, filed>>
      BY <1>5, <1>o, <1>w DEF PostMoved, rem, add
    <2> QED BY <1>1, <1>2, <1>3, <2>1
  <1>6. CASE PostKept(c)
    <2>1. Handled(c) /\ ~Moves(w) /\ UNCHANGED <<server, queue, screen, crashed, filed>>
      BY <1>6, <1>o, <1>w DEF PostKept
    <2> DEFINE ws == SubSeq(<<w>>, 1, 0)
    <2>2. ws \in Seq(Writes) /\ ws = <<>> /\ DOMAIN ws = {}
      OBVIOUS
    <2>3. queue' = [queue EXCEPT ![c] = @ \o ws]
      <3>1. queue[c] \in Seq(Writes)
        BY DEF TypeOK
      <3>2. queue[c] \o <<>> = queue[c]
        BY <3>1
      <3> QED BY <2>1, <2>2, <3>2 DEF TypeOK
    <2> HIDE DEF ws
    <2> QED BY <1>0, <1>o, <1>w, <2>1, <2>2, <2>3, HandledKept
  <1>7. CASE EditRefused(c)
    BY <1>7, <1>k, <1>o DEF EditRefused, Acked, OutcomeOK
  <1>8. CASE CrashOnNoOldBucket(c)
    BY <1>8, <1>h, <1>o, <1>w DEF CrashOnNoOldBucket, Acked
  <1> QED BY <1>4, <1>5, <1>6, <1>7, <1>8 DEF RunClosure

----------------------------------------------------------------------------

LEMMA CoverInit == Init => CoverInv
  <1> SUFFICES ASSUME Init PROVE CoverInv
    OBVIOUS
  <1>1. \A p \in Users : posts[p] \in {NoPost, Zero}
    BY DEF Init
  <1>2. \A c \in Users : queue[c] = <<>> /\ acks[c] = <<>> /\ screen[c] = Feed(c)
    BY DEF Init
  <1>3. ASSUME NEW p \in Users PROVE PostOK(p)
    <2>1. Zero # Empty /\ Zero \notin Buckets /\ NoPost # Empty
      BY Distinct DEF BucketIDs
    <2>2. Covered(p, Zero)
      BY <2>1 DEF Covered
    <2>3. \A b \in BucketIDs : <<p, b>> \in filed => posts[p] # NoPost
      BY DEF Init
    <2> QED BY <1>1, <1>3, <2>1, <2>2, <2>3 DEF PostOK
  <1>4. \A c \in Users : ScreenOK(c)
    BY <1>2, FeedAt DEF ScreenOK
  <1>5. NoCrash
    BY DEF Init, NoCrash
  <1> QED BY <1>2, <1>3, <1>4, <1>5 DEF CoverInv

LEMMA CoverStep ==
  ASSUME Undisturbed, IInv, [Next]_vars
  PROVE  CoverInv'
  <1>1. CASE UNCHANGED vars
    <2>1. UNCHANGED <<posts, status, postsIDs, queue, acks, screen, crashed, filed>>
      BY <1>1 DEF vars
    <2> QED BY <2>1 DEF IInv, CoverInv, PostOK, WriteOK, WriteAt, OutcomeOK, ScreenOK,
                        ScreenAt, CoveredAt, BornAt, PostAt, Covered, Adding, Starts,
                        Moves, NoCrash
  <1>2. ASSUME NEW c \in Users, Use(c) \/ AnswerFetch(c) \/ ShowFetched(c)
                                \/ Serve(c) \/ RunClosure(c)
        PROVE  CoverInv'
    BY <1>2, CoverUse, CoverFetch, CoverServe, CoverClosure
  <1>3. ASSUME NEW c \in Users, Kill(c) PROVE CoverInv'
    BY <1>3 DEF Kill, Undisturbed, IInv, TypeOK
  <1> QED BY <1>1, <1>2, <1>3 DEF Next

\* Filed: no post is silently left out of its bucket, and the closure of
\* editPost never asks for the document "", whatever the order in which any
\* number of devices create and edit posts and create and delete buckets.
THEOREM FiledHolds == ASSUME Undisturbed PROVE Spec => [](Filed /\ NoCrash)
  <1>1. Init => IInv
    BY TypeInit, BucketInit, CoverInit DEF IInv
  <1>2. IInv /\ [Next]_vars => IInv'
    BY TypeStep, BucketStep, CoverStep DEF IInv
  <1>3. IInv => Filed /\ NoCrash
    <2> SUFFICES ASSUME IInv PROVE Filed
      BY DEF IInv, CoverInv
    <2> SUFFICES ASSUME NEW p \in Users, NEW b \in Buckets,
                        posts[p] = b, status[b] = "live"
                 PROVE  p \in postsIDs[b] \/ Adding(p, b)
      BY DEF Filed
    <2>1. posts[p] # NoPost
      BY Distinct DEF BucketIDs
    <2>2. Covered(p, b)
      BY <2>1 DEF IInv, CoverInv, PostOK
    <2> QED BY <2>2 DEF Covered
  <1> QED BY <1>1, <1>2, <1>3, PTL DEF Spec

\* NoCrash: the closure of editPost never asks Firestore for the document "",
\* which raises, however many posts and buckets are created, edited and moved.
THEOREM NeverCrashes == ASSUME Undisturbed PROVE Spec => []NoCrash
  <1>1. Filed /\ NoCrash => NoCrash
    OBVIOUS
  <1> QED BY <1>1, FiledHolds, PTL
============================================================================
