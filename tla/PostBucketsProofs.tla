------------------------- MODULE PostBucketsProofs -------------------------
(***************************************************************************)
(* Proofs about PostBuckets, for every set of users and buckets.           *)
(***************************************************************************)
EXTENDS PostBuckets, TLAPS

\* A write made by the app has the type of a write.
LEMMA WriteType ==
  ASSUME NEW op \in WriteOps, NEW p \in Users,
         NEW b \in BucketIDs, NEW o \in BucketIDs
  PROVE  /\ Write(op, p, b, o) \in Writes
         /\ Write(op, p, b, o).op = op
         /\ Write(op, p, b, o).post = p
         /\ Write(op, p, b, o).bucket = b
         /\ Write(op, p, b, o).old = o
  BY DEF Write, Writes

\* The screen a device starts from.
LEMMA FeedType == \A c \in Users : Feed(c) \in Screens
  BY DEF Feed, Screens, BucketIDs

\* The head and the rest of a nonempty sequence.
LEMMA HeadTail ==
  ASSUME NEW S, NEW s \in Seq(S), s # <<>>
  PROVE  /\ Head(s) \in S
         /\ Head(s) = s[1]
         /\ 1 \in DOMAIN s
         /\ Tail(s) \in Seq(S)
         /\ \A i \in DOMAIN Tail(s) : i + 1 \in DOMAIN s /\ Tail(s)[i] = s[i + 1]
         /\ \A i \in DOMAIN s : i # 1 => i - 1 \in DOMAIN Tail(s)
  OBVIOUS

\* The same for the queue and the outcomes of a device.
LEMMA HeadType ==
  ASSUME TypeOK, NEW c \in Users
  PROVE  /\ queue[c] # <<>> => /\ Head(queue[c]) \in Writes
                               /\ Tail(queue[c]) \in Seq(Writes)
         /\ acks[c] # <<>> => /\ Head(acks[c]) \in Outcomes
                              /\ Tail(acks[c]) \in Seq(Outcomes)
  BY HeadTail DEF TypeOK

\* The elements of the queue and of the outcomes of a device.
LEMMA ElementType ==
  ASSUME TypeOK, NEW c \in Users
  PROVE  /\ \A i \in DOMAIN queue[c] : queue[c][i] \in Writes
         /\ \A i \in DOMAIN acks[c] : acks[c][i] \in Outcomes
  <1>1. queue[c] \in Seq(Writes) /\ acks[c] \in Seq(Outcomes)
    BY DEF TypeOK
  <1> QED BY <1>1

\* Whatever the server answers to fetchPost is a bucketID.
LEMMA AnswersType ==
  ASSUME TypeOK, NEW c \in Users, NEW p \in Users
  PROVE  Answers(c, p) \subseteq BucketIDs
  <1>1. CASE ~SeesPost(c, p)
    BY <1>1 DEF Answers, BucketIDs
  <1>2. CASE SeesPost(c, p) /\ Queued(c, p, PostWrites) = {}
    <2>1. Queued(c, p, {"setPost"}) \subseteq Queued(c, p, PostWrites)
      BY DEF Queued, PostWrites
    <2>2. posts[p] # NoPost
      BY <1>2, <2>1 DEF SeesPost
    <2> QED BY <1>2, <2>2 DEF Answers, TypeOK
  <1>3. CASE SeesPost(c, p) /\ Queued(c, p, PostWrites) # {}
    <2>1. \A i \in DOMAIN queue[c] : queue[c][i].bucket \in BucketIDs
      BY ElementType DEF Writes
    <2>2. Queued(c, p, PostWrites) \subseteq DOMAIN queue[c]
      BY DEF Queued
    <2> QED BY <1>3, <2>1, <2>2 DEF Answers
  <1> QED BY <1>1, <1>2, <1>3

\* Settling a write keeps the types of the queue and of the outcomes.
LEMMA SettleType ==
  ASSUME TypeOK, NEW c \in Users, queue[c] # <<>>, NEW ok \in BOOLEAN,
         Settle(c, ok)
  PROVE  /\ queue' \in [Users -> Seq(Writes)]
         /\ acks' \in [Users -> Seq(Outcomes)]
  <1>1. /\ Head(queue[c]) \in Writes
        /\ Tail(queue[c]) \in Seq(Writes)
    BY HeadType
  <1>2. queue' \in [Users -> Seq(Writes)]
    BY <1>1 DEF Settle, TypeOK
  <1>3. [write |-> Head(queue[c]), ok |-> ok] \in Outcomes
    BY <1>1 DEF Outcomes
  <1>4. Append(acks[c], [write |-> Head(queue[c]), ok |-> ok])
          \in Seq(Outcomes)
    BY <1>3 DEF TypeOK
  <1>5. acks' \in [Users -> Seq(Outcomes)]
    BY <1>4 DEF Settle, TypeOK
  <1> QED BY <1>2, <1>5

\* The end of the app keeps the types of the devices' variables.
LEMMA EndAppType ==
  ASSUME TypeOK, NEW c \in Users, EndApp(c)
  PROVE  /\ queue' \in [Users -> Seq(Writes)]
         /\ acks' \in [Users -> Seq(Outcomes)]
         /\ screen' \in [Users -> Screens]
  <1> DEFINE q == [i \in DOMAIN queue[c] |-> [queue[c][i] EXCEPT !.hook = FALSE]]
  <1>1. queue[c] \in Seq(Writes)
    BY DEF TypeOK
  <1>2. \A i \in DOMAIN queue[c] : [queue[c][i] EXCEPT !.hook = FALSE] \in Writes
    <2> TAKE i \in DOMAIN queue[c]
    <2>1. queue[c][i] \in Writes
      BY <1>1
    <2> QED BY <2>1 DEF Writes
  <1>3. q \in Seq(Writes)
    <2>1. Len(queue[c]) \in Nat /\ DOMAIN queue[c] = 1 .. Len(queue[c])
      BY <1>1
    <2>2. q \in [1 .. Len(queue[c]) -> Writes]
      BY <1>2, <2>1
    <2> QED BY <2>1, <2>2
  <1>4. queue' = [queue EXCEPT ![c] = q]
    BY DEF EndApp, TypeOK
  <1>5. screen' \in [Users -> Screens]
    BY FeedType DEF EndApp, Show, TypeOK
  <1>6. acks' \in [Users -> Seq(Outcomes)]
    BY DEF EndApp, TypeOK
  <1> HIDE DEF q
  <1> QED BY <1>3, <1>4, <1>5, <1>6 DEF TypeOK

\* A closure that issues more writes, all of the right type.
LEMMA AppendType ==
  ASSUME TypeOK, NEW c \in Users, NEW ws \in Seq(Writes),
         queue' = [queue EXCEPT ![c] = @ \o ws]
  PROVE  queue' \in [Users -> Seq(Writes)]
  BY DEF TypeOK

----------------------------------------------------------------------------

LEMMA TypeInit == Init => TypeOK
  BY FeedType DEF Init, TypeOK, BucketIDs

LEMMA TypeUse ==
  ASSUME TypeOK, NEW c \in Users, Use(c)
  PROVE  TypeOK'
  <1> USE DEF TypeOK, server
  <1>0. screen[c] \in Screens
    OBVIOUS
  <1>f. Feed(c) \in Screens
    BY FeedType
  <1>1. CASE OpenCreate(c)
    <2>1. [Feed(c) EXCEPT !.at = "create", !.bucket = Zero] \in Screens
      BY DEF Feed, Screens, BucketIDs
    <2> QED BY <1>1, <2>1 DEF OpenCreate, Count, Show
  <1>2. CASE TapBucketIt(c)
    <2>1. /\ [screen[c] EXCEPT !.picking = TRUE] \in Screens
          /\ [screen[c] EXCEPT !.picking = TRUE,
                               !.old = screen[c].bucket] \in Screens
      BY <1>0 DEF Screens
    <2> QED BY <1>2, <2>1 DEF TapBucketIt, Show
  <1>3. CASE GoBack(c)
    <2>1. [screen[c] EXCEPT !.picking = FALSE] \in Screens
      BY <1>0 DEF Screens
    <2> QED BY <1>3, <1>f, <2>1 DEF GoBack, Show
  <1>4. CASE CreatePost(c)
    <2>1. Write("setPost", c, screen[c].bucket, Empty) \in Writes
      BY <1>0, WriteType DEF WriteOps, PostWrites, BucketIDs, Screens
    <2> QED BY <1>4, <1>f, <2>1 DEF CreatePost, Issue, Show
  <1>5. CASE EditPost(c)
    <2>1. Write("updatePost", screen[c].post, screen[c].bucket, screen[c].old)
            \in Writes
      BY <1>0, WriteType DEF WriteOps, PostWrites, Screens
    <2> QED BY <1>5, <1>f, <2>1 DEF EditPost, Issue, Show
  <1>6. ASSUME NEW p \in Users, OpenEdit(c, p) PROVE TypeOK'
    <2>1. [Feed(c) EXCEPT !.at = "edit", !.post = p] \in Screens
      BY DEF Feed, Screens, BucketIDs
    <2> QED BY <1>6, <2>1 DEF OpenEdit, Count, Show
  <1>7. ASSUME NEW p \in Users, DeletePost(c, p) PROVE TypeOK'
    <2>1. Write("deletePost", p, Empty, Empty) \in Writes
      BY WriteType DEF WriteOps, PostWrites, BucketIDs
    <2> QED BY <1>7, <2>1 DEF DeletePost, Count, Issue
  <1>8. ASSUME NEW b \in Buckets, BucketItPicked(c, b) PROVE TypeOK'
    <2>1. [screen[c] EXCEPT !.picking = FALSE, !.bucket = b] \in Screens
      BY <1>0 DEF Screens, BucketIDs
    <2> QED BY <1>8, <2>1 DEF BucketItPicked, Show
  <1>9. ASSUME NEW b \in Buckets, CreateBucket(c, b) PROVE TypeOK'
    <2>1. Write("setBucket", c, b, Empty) \in Writes
      BY WriteType DEF WriteOps, PostWrites, BucketIDs
    <2> QED BY <1>9, <2>1 DEF CreateBucket, Count, Issue
  <1>10. ASSUME NEW b \in Buckets, DeleteBucket(c, b) PROVE TypeOK'
    <2>1. Write("deleteBucket", c, b, Empty) \in Writes
      BY WriteType DEF WriteOps, PostWrites, BucketIDs
    <2> QED BY <1>10, <2>1 DEF DeleteBucket, Count, Issue
  <1> QED
    BY <1>1, <1>2, <1>3, <1>4, <1>5, <1>6, <1>7, <1>8, <1>9, <1>10 DEF Use

LEMMA TypeServe ==
  ASSUME TypeOK, NEW c \in Users, Serve(c)
  PROVE  TypeOK'
  <1>0. ASSUME NEW op, Take(c, op)
        PROVE  /\ queue[c] # <<>>
               /\ Head(queue[c]) \in Writes
               /\ Head(queue[c]).post \in Users
               /\ Head(queue[c]).bucket \in BucketIDs
    <2>1. queue[c] # <<>> /\ Head(queue[c]) \in Writes
      BY <1>0, HeadType DEF Take
    <2> QED BY <2>1 DEF Writes
  <1>1. ASSUME NEW ok \in BOOLEAN, Settle(c, ok), queue[c] # <<>>
        PROVE  queue' \in [Users -> Seq(Writes)] /\ acks' \in [Users -> Seq(Outcomes)]
    BY <1>1, SettleType
  <1>2. ASSUME NEW p \in Users, NEW b \in BucketIDs, File(p, b)
        PROVE  /\ posts' \in [Users -> BucketIDs \cup {NoPost}]
               /\ filed' \subseteq Users \X BucketIDs
    BY <1>2 DEF File, TypeOK
  <1>3. CASE ApplySetPost(c)
    BY <1>0, <1>1, <1>2, <1>3 DEF ApplySetPost, TypeOK
  <1>4. CASE ApplyUpdatePost(c)
    BY <1>0, <1>1, <1>2, <1>4 DEF ApplyUpdatePost, TypeOK
  <1>5. CASE RejectUpdatePost(c)
    BY <1>0, <1>1, <1>5 DEF RejectUpdatePost, TypeOK, server
  <1>6. CASE ApplyDeletePost(c)
    BY <1>0, <1>1, <1>6 DEF ApplyDeletePost, TypeOK
  <1>7. CASE ApplySetComments(c)
    BY <1>0, <1>1, <1>7 DEF ApplySetComments, TypeOK
  <1>8. CASE ApplyRemoveOld(c)
    BY <1>0, <1>1, <1>8 DEF ApplyRemoveOld, TypeOK, server
  <1>9. CASE ApplyAddToBucket(c)
    <2>1. postsIDs' \in [Buckets -> SUBSET Users]
      BY <1>0, <1>9 DEF ApplyAddToBucket, TypeOK
    <2> QED BY <1>0, <1>1, <1>9, <2>1 DEF ApplyAddToBucket, TypeOK
  <1>10. CASE ApplySetBucket(c)
    BY <1>0, <1>1, <1>10 DEF ApplySetBucket, TypeOK
  <1>11. CASE ApplyDeleteBucket(c)
    BY <1>0, <1>1, <1>11 DEF ApplyDeleteBucket, TypeOK
  <1> QED
    BY <1>3, <1>4, <1>5, <1>6, <1>7, <1>8, <1>9, <1>10, <1>11 DEF Serve

LEMMA TypeClosure ==
  ASSUME TypeOK, NEW c \in Users, RunClosure(c)
  PROVE  TypeOK'
  <1>0. ASSUME NEW op, NEW ok, Acked(c, op, ok)
        PROVE  /\ acks[c] # <<>>
               /\ Head(acks[c]).write \in Writes
               /\ Tail(acks[c]) \in Seq(Outcomes)
    BY <1>0, HeadType DEF Acked, Outcomes
  <1>1. ASSUME acks[c] # <<>>, Tail(acks[c]) \in Seq(Outcomes), Handled(c)
        PROVE  acks' \in [Users -> Seq(Outcomes)]
    BY <1>1 DEF Handled, TypeOK
  <1> DEFINE w == Head(acks[c]).write
  <1>2. CASE PostCreated(c)
    <2>1. w.post \in Users /\ w.bucket \in BucketIDs
      BY <1>0, <1>2 DEF PostCreated, Writes
    <2>2. /\ Write("setComments", w.post, Empty, Empty) \in Writes
          /\ Write("addToBucket", w.post, w.bucket, Empty) \in Writes
      BY <2>1, WriteType DEF WriteOps, PostWrites, BucketIDs
    <2>5. queue' \in [Users -> Seq(Writes)]
      <3> DEFINE doc == Write("setComments", w.post, Empty, Empty)
                 add == Write("addToBucket", w.post, w.bucket, Empty)
      <3>1. queue' = [queue EXCEPT ![c] =
              @ \o IF w.bucket # Empty THEN <<doc, add>> ELSE <<doc>>]
        BY <1>2 DEF PostCreated
      <3> HIDE DEF doc, add
      <3>2. <<doc, add>> \in Seq(Writes) /\ <<doc>> \in Seq(Writes)
        BY <2>2 DEF doc, add
      <3> QED BY <3>1, <3>2, AppendType
    <2> QED BY <1>0, <1>1, <1>2, <2>5 DEF PostCreated, TypeOK, server
  <1>3. CASE PostMoved(c)
    <2>1. w.post \in Users /\ w.bucket \in BucketIDs /\ w.old \in BucketIDs
      BY <1>0, <1>3 DEF PostMoved, Writes
    <2>2. /\ Write("removeOld", w.post, w.old, Empty) \in Writes
          /\ Write("addToBucket", w.post, w.bucket, Empty) \in Writes
      BY <2>1, WriteType DEF WriteOps, PostWrites, BucketIDs
    <2>3. queue' \in [Users -> Seq(Writes)]
      <3>1. <<Write("removeOld", w.post, w.old, Empty),
              Write("addToBucket", w.post, w.bucket, Empty)>> \in Seq(Writes)
        BY <2>2
      <3> QED BY <1>3, <3>1, AppendType DEF PostMoved
    <2> QED BY <1>0, <1>1, <1>3, <2>3 DEF PostMoved, TypeOK, server
  <1>4. CASE PostKept(c)
    BY <1>0, <1>1, <1>4 DEF PostKept, TypeOK, server
  <1>5. CASE EditRefused(c)
    BY <1>0, <1>1, <1>5 DEF EditRefused, TypeOK, server
  <1>6. CASE CrashOnNoOldBucket(c)
    BY <1>6, EndAppType DEF CrashOnNoOldBucket, TypeOK, server
  <1> QED BY <1>2, <1>3, <1>4, <1>5, <1>6 DEF RunClosure

\* Every step keeps the types.
LEMMA TypeStep == TypeOK /\ [Next]_vars => TypeOK'
  <1> SUFFICES ASSUME TypeOK, [Next]_vars PROVE TypeOK'
    OBVIOUS
  <1>1. ASSUME NEW c \in Users, AnswerFetch(c) PROVE TypeOK'
    <2>1. PICK v \in Answers(c, screen[c].post) :
            screen' = [screen EXCEPT ![c] = [screen[c] EXCEPT
                         !.fetch = "answered", !.answer = v]]
      BY <1>1 DEF AnswerFetch, Show
    <2>2. screen[c] \in Screens /\ screen[c].post \in Users
      BY DEF TypeOK, Screens
    <2>3. v \in BucketIDs
      BY <2>1, <2>2, AnswersType
    <2>4. [screen[c] EXCEPT !.fetch = "answered", !.answer = v] \in Screens
      BY <2>2, <2>3 DEF Screens
    <2> QED BY <1>1, <2>1, <2>4 DEF AnswerFetch, TypeOK, server
  <1>2. ASSUME NEW c \in Users, ShowFetched(c) PROVE TypeOK'
    <2>1. [screen[c] EXCEPT !.fetch = "shown", !.bucket = screen[c].answer,
             !.old = screen[c].answer, !.answer = Empty] \in Screens
      <3>1. screen[c] \in Screens
        BY DEF TypeOK
      <3> QED BY <3>1 DEF Screens, BucketIDs
    <2> QED BY <1>2, <2>1 DEF ShowFetched, Show, TypeOK, server
  <1>3. ASSUME NEW c \in Users, Kill(c) PROVE TypeOK'
    BY <1>3, EndAppType DEF Kill, TypeOK, server
  <1>4. CASE UNCHANGED vars
    BY <1>4 DEF vars, TypeOK
  <1> QED
    BY <1>1, <1>2, <1>3, <1>4, TypeUse, TypeServe, TypeClosure DEF Next

\* Type correctness: in every run every document, queued write, outcome and
\* screen has its type.
THEOREM TypeCorrect == Spec => []TypeOK
  BY TypeInit, TypeStep, PTL DEF Spec

----------------------------------------------------------------------------
(* OnlyFiled: a bucket lists a post only if the server once accepted the   *)
(* post with that bucketID.  What the bucket lists comes from a write that *)
(* a closure issued, and the closure got its pair from an outcome.         *)

ListedWereFiled ==
  \A c \in Users : \A i \in DOMAIN queue[c] :
    queue[c][i].op = "addToBucket" =>
      <<queue[c][i].post, queue[c][i].bucket>> \in filed

AcceptedWereFiled ==
  \A c \in Users : \A i \in DOMAIN acks[c] :
    acks[c][i].ok /\ acks[c][i].write.op \in PostWrites =>
      <<acks[c][i].write.post, acks[c][i].write.bucket>> \in filed

FiledInv == OnlyFiled /\ ListedWereFiled /\ AcceptedWereFiled

----------------------------------------------------------------------------
(* What a step does to the elements of the queues and of the outcomes.     *)

\* A closure appends writes to the queue of its device.
LEMMA AppendElements ==
  ASSUME TypeOK, NEW c \in Users, NEW ws \in Seq(Writes),
         queue' = [queue EXCEPT ![c] = @ \o ws]
  PROVE  /\ \A d \in Users : d # c => queue'[d] = queue[d]
         /\ Len(queue[c]) \in Nat
         /\ Len(queue'[c]) = Len(queue[c]) + Len(ws)
         /\ \A i \in DOMAIN queue[c] : /\ i \in DOMAIN queue'[c]
                                       /\ queue'[c][i] = queue[c][i]
                                       /\ i \in Nat /\ i <= Len(queue[c])
         /\ \A i \in DOMAIN queue'[c] :
              \/ i \in DOMAIN queue[c]
              \/ /\ i - Len(queue[c]) \in DOMAIN ws
                 /\ i > Len(queue[c])
                 /\ queue'[c][i] = ws[i - Len(queue[c])]
  <1>1. queue[c] \in Seq(Writes) /\ queue'[c] = queue[c] \o ws
    BY DEF TypeOK
  <1>2. \A d \in Users : d # c => queue'[d] = queue[d]
    BY DEF TypeOK
  <1> QED BY <1>1, <1>2

\* A tap appends one write.
LEMMA IssueElements ==
  ASSUME TypeOK, NEW c \in Users, NEW w \in Writes, Issue(c, w)
  PROVE  /\ \A d \in Users : d # c => queue'[d] = queue[d]
         /\ Len(queue[c]) \in Nat
         /\ Len(queue'[c]) = Len(queue[c]) + 1
         /\ \A i \in DOMAIN queue[c] : /\ i \in DOMAIN queue'[c]
                                       /\ queue'[c][i] = queue[c][i]
                                       /\ i \in Nat /\ i <= Len(queue[c])
         /\ Len(queue[c]) + 1 \in DOMAIN queue'[c]
         /\ queue'[c][Len(queue[c]) + 1] = w
         /\ \A i \in DOMAIN queue'[c] :
              i \in DOMAIN queue[c] \/ i = Len(queue[c]) + 1
  <1>1. queue[c] \in Seq(Writes) /\ queue'[c] = Append(queue[c], w)
    BY DEF TypeOK, Issue
  <1>2. \A d \in Users : d # c => queue'[d] = queue[d]
    BY DEF TypeOK, Issue
  <1> QED BY <1>1, <1>2

\* The server takes the first write; its outcome may wait for a closure.
LEMMA SettleElements ==
  ASSUME TypeOK, NEW c \in Users, queue[c] # <<>>, NEW ok \in BOOLEAN,
         Settle(c, ok)
  PROVE  /\ \A d \in Users : d # c => queue'[d] = queue[d] /\ acks'[d] = acks[d]
         /\ 1 \in DOMAIN queue[c]
         /\ Head(queue[c]) = queue[c][1]
         /\ Len(queue[c]) \in Nat
         /\ Len(queue[c]) = Len(queue'[c]) + 1
         /\ \A i \in DOMAIN queue'[c] : /\ i \in Nat /\ i > 0
                                        /\ i + 1 \in DOMAIN queue[c]
                                        /\ queue'[c][i] = queue[c][i + 1]
         /\ \A i \in DOMAIN queue[c] :
              i # 1 => i \in Nat /\ i > 1 /\ i - 1 \in DOMAIN queue'[c]
         /\ \A i \in DOMAIN acks[c] : /\ i \in DOMAIN acks'[c]
                                      /\ acks'[c][i] = acks[c][i]
         /\ Head(queue[c]).hook =>
              \E i \in DOMAIN acks'[c] :
                acks'[c][i] = [write |-> Head(queue[c]), ok |-> ok]
         /\ \A i \in DOMAIN acks'[c] :
              \/ i \in DOMAIN acks[c] /\ acks'[c][i] = acks[c][i]
              \/ /\ Head(queue[c]).hook
                 /\ acks'[c][i] = [write |-> Head(queue[c]), ok |-> ok]
  <1> DEFINE o == [write |-> Head(queue[c]), ok |-> ok]
  <1>1. /\ queue[c] \in Seq(Writes)
        /\ queue'[c] = Tail(queue[c])
        /\ acks[c] \in Seq(Outcomes)
        /\ acks'[c] = IF Head(queue[c]).hook THEN Append(acks[c], o) ELSE acks[c]
    BY DEF TypeOK, Settle
  <1>2. \A d \in Users : d # c => queue'[d] = queue[d] /\ acks'[d] = acks[d]
    BY DEF TypeOK, Settle
  <1>3. /\ 1 \in DOMAIN queue[c]
        /\ Head(queue[c]) = queue[c][1]
        /\ Len(queue[c]) \in Nat
        /\ Len(queue[c]) = Len(queue'[c]) + 1
        /\ \A i \in DOMAIN queue'[c] : /\ i \in Nat /\ i > 0
                                       /\ i + 1 \in DOMAIN queue[c]
                                       /\ queue'[c][i] = queue[c][i + 1]
        /\ \A i \in DOMAIN queue[c] :
             i # 1 => i \in Nat /\ i > 1 /\ i - 1 \in DOMAIN queue'[c]
    BY <1>1
  <1>4. o \in Outcomes
    BY HeadType DEF Outcomes
  <1>5. /\ \A i \in DOMAIN acks[c] : /\ i \in DOMAIN acks'[c]
                                     /\ acks'[c][i] = acks[c][i]
        /\ \A i \in DOMAIN acks'[c] :
             \/ i \in DOMAIN acks[c] /\ acks'[c][i] = acks[c][i]
             \/ Head(queue[c]).hook /\ acks'[c][i] = o
    <2> HIDE DEF o
    <2> QED BY <1>1, <1>4
  <1>6. Head(queue[c]).hook => \E i \in DOMAIN acks'[c] : acks'[c][i] = o
    <2> HIDE DEF o
    <2>1. ASSUME Head(queue[c]).hook
          PROVE  /\ Len(acks[c]) + 1 \in DOMAIN acks'[c]
                 /\ acks'[c][Len(acks[c]) + 1] = o
      BY <1>1, <1>4, <2>1
    <2> QED BY <2>1
  <1> QED BY <1>2, <1>3, <1>5, <1>6

\* A closure takes the first outcome.
LEMMA HandledElements ==
  ASSUME TypeOK, NEW c \in Users, acks[c] # <<>>, Handled(c)
  PROVE  /\ \A d \in Users : d # c => acks'[d] = acks[d]
         /\ 1 \in DOMAIN acks[c]
         /\ Head(acks[c]) = acks[c][1]
         /\ \A i \in DOMAIN acks'[c] : /\ i + 1 \in DOMAIN acks[c]
                                       /\ acks'[c][i] = acks[c][i + 1]
         /\ \A i \in DOMAIN acks[c] :
              i # 1 => i - 1 \in DOMAIN acks'[c] /\ acks'[c][i - 1] = acks[c][i]
  <1>1. acks[c] \in Seq(Outcomes) /\ acks'[c] = Tail(acks[c])
    BY DEF TypeOK, Handled
  <1>2. \A d \in Users : d # c => acks'[d] = acks[d]
    BY DEF TypeOK, Handled
  <1> QED BY <1>1, <1>2

\* The end of the app keeps the writes and loses their closures.
LEMMA EndAppElements ==
  ASSUME TypeOK, NEW c \in Users, EndApp(c)
  PROVE  /\ \A d \in Users : d # c => queue'[d] = queue[d] /\ acks'[d] = acks[d]
         /\ DOMAIN queue'[c] = DOMAIN queue[c]
         /\ \A i \in DOMAIN queue[c] :
              queue'[c][i] = [queue[c][i] EXCEPT !.hook = FALSE]
         /\ acks'[c] = <<>>
  BY DEF TypeOK, EndApp

----------------------------------------------------------------------------

LEMMA FiledInit == Init => FiledInv
  BY DEF Init, FiledInv, OnlyFiled, ListedWereFiled, AcceptedWereFiled

\* The documents and the history are unchanged, and every listing write and
\* every outcome was there before or has its pair in the history.
LEMMA FiledKept ==
  ASSUME FiledInv, UNCHANGED <<postsIDs, filed>>,
         \A d \in Users : \A i \in DOMAIN queue'[d] :
           queue'[d][i].op = "addToBucket" =>
             <<queue'[d][i].post, queue'[d][i].bucket>> \in filed,
         \A d \in Users : \A i \in DOMAIN acks'[d] : \E j \in DOMAIN acks[d] :
           acks'[d][i] = acks[d][j]
  PROVE  FiledInv'
  <1>1. OnlyFiled'
    BY DEF FiledInv, OnlyFiled
  <1>2. ListedWereFiled'
    BY DEF ListedWereFiled
  <1>3. AcceptedWereFiled'
    BY DEF FiledInv, AcceptedWereFiled
  <1> QED BY <1>1, <1>2, <1>3 DEF FiledInv

LEMMA FiledUse ==
  ASSUME TypeOK, FiledInv, NEW c \in Users, Use(c)
  PROVE  FiledInv'
  <1>0. screen[c] \in Screens
    BY DEF TypeOK
  <1>1. ASSUME NEW w \in Writes, Issue(c, w), w.op # "addToBucket",
               UNCHANGED <<postsIDs, filed, acks>>
        PROVE  FiledInv'
    <2>1. \A d \in Users : \A i \in DOMAIN queue'[d] :
            queue'[d][i].op = "addToBucket" =>
              i \in DOMAIN queue[d] /\ queue'[d][i] = queue[d][i]
      BY <1>1, IssueElements
    <2> QED BY <1>1, <2>1, FiledKept DEF FiledInv, ListedWereFiled
  <1>2. ASSUME UNCHANGED <<postsIDs, filed, acks, queue>> PROVE FiledInv'
    BY <1>2 DEF FiledInv, OnlyFiled, ListedWereFiled, AcceptedWereFiled
  <1>3. CASE OpenCreate(c) \/ TapBucketIt(c) \/ GoBack(c)
    BY <1>2, <1>3 DEF OpenCreate, TapBucketIt, GoBack, server
  <1>4. CASE CreatePost(c)
    <2>1. /\ Write("setPost", c, screen[c].bucket, Empty) \in Writes
          /\ Write("setPost", c, screen[c].bucket, Empty).op = "setPost"
      BY <1>0, WriteType DEF WriteOps, PostWrites, BucketIDs, Screens
    <2> QED BY <1>1, <1>4, <2>1 DEF CreatePost, server
  <1>5. CASE EditPost(c)
    <2> DEFINE w == Write("updatePost", screen[c].post, screen[c].bucket,
                          screen[c].old)
    <2>1. w \in Writes /\ w.op = "updatePost"
      BY <1>0, WriteType DEF WriteOps, PostWrites, Screens
    <2> QED BY <1>1, <1>5, <2>1 DEF EditPost, server
  <1>6. ASSUME NEW p \in Users, OpenEdit(c, p) PROVE FiledInv'
    BY <1>2, <1>6 DEF OpenEdit, server
  <1>7. ASSUME NEW p \in Users, DeletePost(c, p) PROVE FiledInv'
    <2>1. /\ Write("deletePost", p, Empty, Empty) \in Writes
          /\ Write("deletePost", p, Empty, Empty).op = "deletePost"
      BY WriteType DEF WriteOps, PostWrites, BucketIDs
    <2> QED BY <1>1, <1>7, <2>1 DEF DeletePost, server
  <1>8. ASSUME NEW b \in Buckets, BucketItPicked(c, b) PROVE FiledInv'
    BY <1>2, <1>8 DEF BucketItPicked, server
  <1>9. ASSUME NEW b \in Buckets, CreateBucket(c, b) PROVE FiledInv'
    <2>1. /\ Write("setBucket", c, b, Empty) \in Writes
          /\ Write("setBucket", c, b, Empty).op = "setBucket"
      BY WriteType DEF WriteOps, PostWrites, BucketIDs
    <2> QED BY <1>1, <1>9, <2>1 DEF CreateBucket, server
  <1>10. ASSUME NEW b \in Buckets, DeleteBucket(c, b) PROVE FiledInv'
    <2>1. /\ Write("deleteBucket", c, b, Empty) \in Writes
          /\ Write("deleteBucket", c, b, Empty).op = "deleteBucket"
      BY WriteType DEF WriteOps, PostWrites, BucketIDs
    <2> QED BY <1>1, <1>10, <2>1 DEF DeleteBucket, server
  <1> QED BY <1>3, <1>4, <1>5, <1>6, <1>7, <1>8, <1>9, <1>10 DEF Use

LEMMA FiledServe ==
  ASSUME TypeOK, FiledInv, NEW c \in Users, Serve(c)
  PROVE  FiledInv'
  <1> DEFINE w == Head(queue[c])
  <1>0. ASSUME NEW op, Take(c, op)
        PROVE  /\ queue[c] # <<>>
               /\ w \in Writes
               /\ w = queue[c][1]
               /\ 1 \in DOMAIN queue[c]
               /\ w.op = op
    <2>1. queue[c] # <<>> /\ w.op = op
      BY <1>0 DEF Take
    <2>2. queue[c] \in Seq(Writes)
      BY DEF TypeOK
    <2> QED BY <2>1, <2>2, HeadTail
  \* The history only grows.
  <1>1. ASSUME NEW op, NEW ok \in BOOLEAN, Take(c, op), Settle(c, ok),
               filed \subseteq filed',
               ok /\ op \in PostWrites => <<w.post, w.bucket>> \in filed'
        PROVE  ListedWereFiled' /\ AcceptedWereFiled'
    <2>0. queue[c] # <<>> /\ w.op = op
      BY <1>0, <1>1
    <2>1. \A d \in Users : \A i \in DOMAIN queue'[d] :
            \E j \in DOMAIN queue[d] : queue'[d][i] = queue[d][j]
      <3>1. \A i \in DOMAIN queue'[c] :
              i + 1 \in DOMAIN queue[c] /\ queue'[c][i] = queue[c][i + 1]
        BY <2>0, <1>1, SettleElements
      <3>2. \A d \in Users : d # c => queue'[d] = queue[d]
        BY <2>0, <1>1, SettleElements
      <3> QED BY <3>1, <3>2
    <2>2. ListedWereFiled'
      BY <1>1, <2>1 DEF FiledInv, ListedWereFiled
    <2>3. \A d \in Users : \A i \in DOMAIN acks'[d] :
            \/ \E j \in DOMAIN acks[d] : acks'[d][i] = acks[d][j]
            \/ acks'[d][i] = [write |-> w, ok |-> ok]
      BY <2>0, <1>1, SettleElements
    <2>4. AcceptedWereFiled'
      <3> SUFFICES ASSUME NEW d \in Users, NEW i \in DOMAIN acks'[d],
                          acks'[d][i].ok, acks'[d][i].write.op \in PostWrites
                   PROVE  <<acks'[d][i].write.post, acks'[d][i].write.bucket>>
                            \in filed'
        BY DEF AcceptedWereFiled
      <3>1. CASE \E j \in DOMAIN acks[d] : acks'[d][i] = acks[d][j]
        BY <3>1, <1>1 DEF FiledInv, AcceptedWereFiled
      <3>2. CASE acks'[d][i] = [write |-> w, ok |-> ok]
        BY <3>2, <2>0, <1>1
      <3> QED BY <2>3, <3>1, <3>2
    <2> QED BY <2>2, <2>4
  <1>2. ASSUME filed \subseteq filed',
               \A b \in Buckets : postsIDs'[b] \subseteq postsIDs[b]
        PROVE  OnlyFiled'
    BY <1>2 DEF FiledInv, OnlyFiled
  <1>3. ASSUME NEW p, NEW b, File(p, b)
        PROVE  filed \subseteq filed' /\ <<p, b>> \in filed'
    BY <1>3 DEF File
  <1>4. CASE ApplySetPost(c)
    BY <1>1, <1>2, <1>3, <1>4 DEF ApplySetPost, FiledInv
  <1>5. CASE ApplyUpdatePost(c)
    BY <1>1, <1>2, <1>3, <1>5 DEF ApplyUpdatePost, FiledInv
  <1>6. CASE RejectUpdatePost(c)
    BY <1>1, <1>2, <1>6 DEF RejectUpdatePost, FiledInv, server
  <1>7. CASE ApplyDeletePost(c)
    BY <1>1, <1>2, <1>7 DEF ApplyDeletePost, FiledInv, PostWrites
  <1>8. CASE ApplySetComments(c)
    BY <1>1, <1>2, <1>8 DEF ApplySetComments, FiledInv, PostWrites
  <1>9. CASE ApplyRemoveOld(c)
    BY <1>1, <1>2, <1>9 DEF ApplyRemoveOld, FiledInv, PostWrites, server
  <1>10. CASE ApplyAddToBucket(c)
    <2>1. <<w.post, w.bucket>> \in filed
      BY <1>0, <1>10 DEF ApplyAddToBucket, FiledInv, ListedWereFiled
    <2>2. OnlyFiled'
      BY <1>10, <2>1 DEF ApplyAddToBucket, FiledInv, OnlyFiled
    <2> QED BY <1>1, <1>10, <2>2 DEF ApplyAddToBucket, FiledInv, PostWrites
  <1>11. CASE ApplySetBucket(c)
    <2>1. \A b \in Buckets : postsIDs'[b] \subseteq postsIDs[b]
      BY <1>11 DEF ApplySetBucket, TypeOK
    <2> QED BY <1>1, <1>2, <1>11, <2>1 DEF ApplySetBucket, FiledInv, PostWrites
  <1>12. CASE ApplyDeleteBucket(c)
    <2>1. \A b \in Buckets : postsIDs'[b] \subseteq postsIDs[b]
      BY <1>12 DEF ApplyDeleteBucket, TypeOK
    <2> QED BY <1>1, <1>2, <1>12, <2>1
            DEF ApplyDeleteBucket, FiledInv, PostWrites
  <1> QED
    BY <1>4, <1>5, <1>6, <1>7, <1>8, <1>9, <1>10, <1>11, <1>12 DEF Serve

LEMMA FiledEndApp ==
  ASSUME TypeOK, FiledInv, NEW c \in Users, EndApp(c), UNCHANGED <<postsIDs, filed>>
  PROVE  FiledInv'
  <1>1. \A d \in Users : \A i \in DOMAIN queue'[d] :
          /\ i \in DOMAIN queue[d]
          /\ queue'[d][i].op = queue[d][i].op
          /\ queue'[d][i].post = queue[d][i].post
          /\ queue'[d][i].bucket = queue[d][i].bucket
    <2> SUFFICES ASSUME NEW i \in DOMAIN queue'[c]
                 PROVE  /\ i \in DOMAIN queue[c]
                        /\ queue'[c][i].op = queue[c][i].op
                        /\ queue'[c][i].post = queue[c][i].post
                        /\ queue'[c][i].bucket = queue[c][i].bucket
      BY EndAppElements
    <2>1. /\ i \in DOMAIN queue[c]
          /\ queue'[c][i] = [queue[c][i] EXCEPT !.hook = FALSE]
      BY EndAppElements
    <2>2. queue[c][i] \in Writes
      BY <2>1, ElementType
    <2> QED BY <2>1, <2>2 DEF Writes
  <1>2. \A d \in Users : \A i \in DOMAIN acks'[d] : \E j \in DOMAIN acks[d] :
          acks'[d][i] = acks[d][j]
    <2>1. \A i \in DOMAIN acks'[c] : FALSE
      BY EndAppElements
    <2> QED BY <2>1, EndAppElements
  <1> QED BY <1>1, <1>2, FiledKept DEF FiledInv, ListedWereFiled

LEMMA FiledClosure ==
  ASSUME TypeOK, FiledInv, NEW c \in Users, RunClosure(c)
  PROVE  FiledInv'
  <1> DEFINE w == Head(acks[c]).write
  <1>0. ASSUME NEW op, NEW ok, Acked(c, op, ok), Handled(c)
        PROVE  /\ w \in Writes
               /\ ok = TRUE /\ op \in PostWrites => <<w.post, w.bucket>> \in filed
               /\ \A d \in Users : \A i \in DOMAIN acks'[d] :
                    \E j \in DOMAIN acks[d] : acks'[d][i] = acks[d][j]
    <2>1. acks[c] # <<>> /\ w.op = op /\ Head(acks[c]).ok = ok
      BY <1>0 DEF Acked
    <2>2. w \in Writes
      BY <2>1, HeadType DEF Outcomes
    <2>3. /\ 1 \in DOMAIN acks[c]
          /\ Head(acks[c]) = acks[c][1]
          /\ \A d \in Users : d # c => acks'[d] = acks[d]
          /\ \A i \in DOMAIN acks'[c] : /\ i + 1 \in DOMAIN acks[c]
                                        /\ acks'[c][i] = acks[c][i + 1]
      BY <2>1, <1>0, HandledElements
    <2>4. \A d \in Users : \A i \in DOMAIN acks'[d] :
            \E j \in DOMAIN acks[d] : acks'[d][i] = acks[d][j]
      BY <2>3
    <2>5. ok = TRUE /\ op \in PostWrites => <<w.post, w.bucket>> \in filed
      BY <2>1, <2>3 DEF FiledInv, AcceptedWereFiled
    <2> QED BY <2>2, <2>4, <2>5
  <1>1. ASSUME NEW ws \in Seq(Writes), queue' = [queue EXCEPT ![c] = @ \o ws],
               \A i \in DOMAIN ws : ws[i].op = "addToBucket" =>
                 <<ws[i].post, ws[i].bucket>> \in filed
        PROVE  \A d \in Users : \A i \in DOMAIN queue'[d] :
                 queue'[d][i].op = "addToBucket" =>
                   <<queue'[d][i].post, queue'[d][i].bucket>> \in filed
    <2>1. \A i \in DOMAIN queue'[c] :
            \/ i \in DOMAIN queue[c] /\ queue'[c][i] = queue[c][i]
            \/ i - Len(queue[c]) \in DOMAIN ws
                 /\ queue'[c][i] = ws[i - Len(queue[c])]
      BY <1>1, AppendElements
    <2>2. \A d \in Users : d # c => queue'[d] = queue[d]
      BY <1>1, AppendElements
    <2> SUFFICES ASSUME NEW d \in Users, NEW i \in DOMAIN queue'[d],
                        queue'[d][i].op = "addToBucket"
                 PROVE  <<queue'[d][i].post, queue'[d][i].bucket>> \in filed
      OBVIOUS
    <2>3. CASE i \in DOMAIN queue[d] /\ queue'[d][i] = queue[d][i]
      BY <2>3 DEF FiledInv, ListedWereFiled
    <2>4. CASE d = c /\ i - Len(queue[c]) \in DOMAIN ws
                 /\ queue'[c][i] = ws[i - Len(queue[c])]
      BY <1>1, <2>4
    <2> QED BY <2>1, <2>2, <2>3, <2>4
  <1>2. CASE PostCreated(c)
    <2>1. /\ w \in Writes /\ <<w.post, w.bucket>> \in filed
          /\ \A d \in Users : \A i \in DOMAIN acks'[d] :
               \E j \in DOMAIN acks[d] : acks'[d][i] = acks[d][j]
      BY <1>0, <1>2 DEF PostCreated, PostWrites
    <2> DEFINE sc == Write("setComments", w.post, Empty, Empty)
               ab == Write("addToBucket", w.post, w.bucket, Empty)
    <2>2. w.post \in Users /\ w.bucket \in BucketIDs /\ Empty \in BucketIDs
      BY <2>1 DEF Writes, BucketIDs
    <2>3. /\ sc \in Writes /\ sc.op = "setComments"
          /\ ab \in Writes /\ ab.op = "addToBucket"
          /\ ab.post = w.post /\ ab.bucket = w.bucket
      BY <2>2, WriteType DEF WriteOps, PostWrites
    <2>4. \E ws \in Seq(Writes) :
            /\ queue' = [queue EXCEPT ![c] = @ \o ws]
            /\ \A i \in DOMAIN ws : ws[i] \in {sc, ab}
      <3>1. queue' = [queue EXCEPT ![c] =
              @ \o IF w.bucket # Empty THEN <<sc, ab>> ELSE <<sc>>]
        BY <1>2 DEF PostCreated
      <3> HIDE DEF sc, ab
      <3>2. /\ <<sc, ab>> \in Seq(Writes)
            /\ \A i \in DOMAIN <<sc, ab>> : <<sc, ab>>[i] \in {sc, ab}
            /\ <<sc>> \in Seq(Writes)
            /\ \A i \in DOMAIN <<sc>> : <<sc>>[i] \in {sc, ab}
        BY <2>3
      <3>3. CASE w.bucket # Empty
        BY <3>1, <3>2, <3>3
      <3>4. CASE w.bucket = Empty
        BY <3>1, <3>2, <3>4
      <3> QED BY <3>3, <3>4
    <2>5. PICK ws \in Seq(Writes) :
            /\ queue' = [queue EXCEPT ![c] = @ \o ws]
            /\ \A i \in DOMAIN ws : ws[i] \in {sc, ab}
      BY <2>4
    <2>6. \A i \in DOMAIN ws : ws[i].op = "addToBucket" =>
            <<ws[i].post, ws[i].bucket>> \in filed
      BY <2>1, <2>3, <2>5
    <2> HIDE DEF sc, ab
    <2> QED BY <1>1, <1>2, <2>1, <2>5, <2>6, FiledKept DEF PostCreated, server
  <1>3. CASE PostMoved(c)
    <2>1. /\ w \in Writes /\ <<w.post, w.bucket>> \in filed
          /\ \A d \in Users : \A i \in DOMAIN acks'[d] :
               \E j \in DOMAIN acks[d] : acks'[d][i] = acks[d][j]
      BY <1>0, <1>3 DEF PostMoved, PostWrites
    <2> DEFINE ro == Write("removeOld", w.post, w.old, Empty)
               ab == Write("addToBucket", w.post, w.bucket, Empty)
    <2>2. /\ w.post \in Users /\ w.bucket \in BucketIDs
          /\ w.old \in BucketIDs /\ Empty \in BucketIDs
      BY <2>1 DEF Writes, BucketIDs
    <2>3. /\ ro \in Writes /\ ro.op = "removeOld"
          /\ ab \in Writes /\ ab.op = "addToBucket"
          /\ ab.post = w.post /\ ab.bucket = w.bucket
      BY <2>2, WriteType DEF WriteOps, PostWrites
    <2>4. queue' = [queue EXCEPT ![c] = @ \o <<ro, ab>>]
      BY <1>3 DEF PostMoved
    <2> HIDE DEF ro, ab
    <2>5. /\ <<ro, ab>> \in Seq(Writes)
          /\ \A i \in DOMAIN <<ro, ab>> : <<ro, ab>>[i] \in {ro, ab}
      BY <2>3
    <2>6. \A i \in DOMAIN <<ro, ab>> : <<ro, ab>>[i].op = "addToBucket" =>
            <<<<ro, ab>>[i].post, <<ro, ab>>[i].bucket>> \in filed
      BY <2>1, <2>3, <2>5
    <2>7. \A d \in Users : \A i \in DOMAIN queue'[d] :
            queue'[d][i].op = "addToBucket" =>
              <<queue'[d][i].post, queue'[d][i].bucket>> \in filed
      BY <1>1, <2>4, <2>5, <2>6
    <2> QED BY <1>3, <2>1, <2>7, FiledKept DEF PostMoved, server
  <1>4. CASE PostKept(c)
    <2>1. \A d \in Users : \A i \in DOMAIN acks'[d] :
            \E j \in DOMAIN acks[d] : acks'[d][i] = acks[d][j]
      BY <1>0, <1>4 DEF PostKept
    <2> QED BY <1>4, <2>1, FiledKept DEF PostKept, server, FiledInv, ListedWereFiled
  <1>5. CASE EditRefused(c)
    <2>1. \A d \in Users : \A i \in DOMAIN acks'[d] :
            \E j \in DOMAIN acks[d] : acks'[d][i] = acks[d][j]
      BY <1>0, <1>5 DEF EditRefused
    <2> QED BY <1>5, <2>1, FiledKept
            DEF EditRefused, server, FiledInv, ListedWereFiled
  <1>6. CASE CrashOnNoOldBucket(c)
    BY <1>6, FiledEndApp DEF CrashOnNoOldBucket, server
  <1> QED BY <1>2, <1>3, <1>4, <1>5, <1>6 DEF RunClosure

LEMMA FiledStep == TypeOK /\ FiledInv /\ [Next]_vars => FiledInv'
  <1> SUFFICES ASSUME TypeOK, FiledInv, [Next]_vars PROVE FiledInv'
    OBVIOUS
  <1>0. ASSUME UNCHANGED <<postsIDs, filed, queue, acks>> PROVE FiledInv'
    BY <1>0 DEF FiledInv, OnlyFiled, ListedWereFiled, AcceptedWereFiled
  <1>1. ASSUME NEW c \in Users, AnswerFetch(c) \/ ShowFetched(c) PROVE FiledInv'
    BY <1>0, <1>1 DEF AnswerFetch, ShowFetched, server
  <1>2. ASSUME NEW c \in Users, Kill(c) PROVE FiledInv'
    BY <1>2, FiledEndApp DEF Kill, server
  <1>3. CASE UNCHANGED vars
    BY <1>0, <1>3 DEF vars
  <1> QED
    BY <1>1, <1>2, <1>3, FiledUse, FiledServe, FiledClosure DEF Next

\* A bucket lists a post only if the server once accepted that post with this
\* bucketID: for any devices, edits, deletions, refusals, crashes and kills.
THEOREM OnlyFiledHolds == Spec => []OnlyFiled
  <1>1. Init => TypeOK /\ FiledInv
    BY TypeInit, FiledInit
  <1>2. TypeOK /\ FiledInv /\ [Next]_vars => (TypeOK /\ FiledInv)'
    BY TypeStep, FiledStep
  <1>3. FiledInv => OnlyFiled
    BY DEF FiledInv
  <1> QED BY <1>1, <1>2, <1>3, PTL DEF Spec

----------------------------------------------------------------------------
(* DeadStaysDead: a bucket's id is drawn once, so the one write that makes *)
(* the bucket is under way only while the bucket is still unborn.          *)

SetOnce ==
  \A c, d \in Users : \A i \in DOMAIN queue[c] : \A j \in DOMAIN queue[d] :
    queue[c][i].op = "setBucket" /\ queue[d][j].op = "setBucket"
      /\ queue[c][i].bucket = queue[d][j].bucket => c = d /\ i = j

SetUnborn ==
  \A c \in Users : \A i \in DOMAIN queue[c] :
    queue[c][i].op = "setBucket" =>
      queue[c][i].bucket \in Buckets /\ status[queue[c][i].bucket] = "unborn"

EmptyUnlessLive == \A b \in Buckets : status[b] # "live" => postsIDs[b] = {}

BucketInv == SetOnce /\ SetUnborn /\ EmptyUnlessLive

LEMMA BucketInit == Init => BucketInv
  BY DEF Init, BucketInv, SetOnce, SetUnborn, EmptyUnlessLive

\* Steps after which every setBucket is a write that was at the same place.
LEMMA BucketKept ==
  ASSUME BucketInv, UNCHANGED <<status, postsIDs>>,
         \A d \in Users : \A i \in DOMAIN queue'[d] :
           queue'[d][i].op = "setBucket" =>
             /\ i \in DOMAIN queue[d]
             /\ queue[d][i].op = "setBucket"
             /\ queue[d][i].bucket = queue'[d][i].bucket
  PROVE  BucketInv'
  <1>1. SetOnce'
    BY DEF BucketInv, SetOnce
  <1>2. SetUnborn'
    BY DEF BucketInv, SetUnborn
  <1>3. EmptyUnlessLive'
    BY DEF BucketInv, EmptyUnlessLive
  <1> QED BY <1>1, <1>2, <1>3 DEF BucketInv

LEMMA BucketIssue ==
  ASSUME TypeOK, BucketInv, NEW c \in Users, NEW w \in Writes, Issue(c, w),
         w.op # "setBucket", UNCHANGED <<status, postsIDs>>
  PROVE  BucketInv'
  <1>1. \A d \in Users : \A i \in DOMAIN queue'[d] :
          queue'[d][i].op = "setBucket" =>
            i \in DOMAIN queue[d] /\ queue[d][i] = queue'[d][i]
    BY IssueElements
  <1> QED BY <1>1, BucketKept

LEMMA BucketUse ==
  ASSUME TypeOK, BucketInv, NEW c \in Users, Use(c)
  PROVE  BucketInv'
  <1>0. screen[c] \in Screens
    BY DEF TypeOK
  <1>2. ASSUME UNCHANGED <<status, postsIDs, queue>> PROVE BucketInv'
    BY <1>2, BucketKept
  <1>3. CASE OpenCreate(c) \/ TapBucketIt(c) \/ GoBack(c)
    BY <1>2, <1>3 DEF OpenCreate, TapBucketIt, GoBack, server
  <1>4. CASE CreatePost(c)
    <2>1. /\ Write("setPost", c, screen[c].bucket, Empty) \in Writes
          /\ Write("setPost", c, screen[c].bucket, Empty).op = "setPost"
      BY <1>0, WriteType DEF WriteOps, PostWrites, BucketIDs, Screens
    <2> QED BY <1>4, <2>1, BucketIssue DEF CreatePost, server
  <1>5. CASE EditPost(c)
    <2> DEFINE w == Write("updatePost", screen[c].post, screen[c].bucket,
                          screen[c].old)
    <2>1. w \in Writes /\ w.op = "updatePost"
      BY <1>0, WriteType DEF WriteOps, PostWrites, Screens
    <2> QED BY <1>5, <2>1, BucketIssue DEF EditPost, server
  <1>6. ASSUME NEW p \in Users, OpenEdit(c, p) PROVE BucketInv'
    BY <1>2, <1>6 DEF OpenEdit, server
  <1>7. ASSUME NEW p \in Users, DeletePost(c, p) PROVE BucketInv'
    <2>1. /\ Write("deletePost", p, Empty, Empty) \in Writes
          /\ Write("deletePost", p, Empty, Empty).op = "deletePost"
      BY WriteType DEF WriteOps, PostWrites, BucketIDs
    <2> QED BY <1>7, <2>1, BucketIssue DEF DeletePost, server
  <1>8. ASSUME NEW b \in Buckets, BucketItPicked(c, b) PROVE BucketInv'
    BY <1>2, <1>8 DEF BucketItPicked, server
  <1>9. ASSUME NEW b \in Buckets, CreateBucket(c, b) PROVE BucketInv'
    <2> DEFINE w == Write("setBucket", c, b, Empty)
    <2>1. w \in Writes /\ w.op = "setBucket" /\ w.bucket = b
      BY WriteType DEF WriteOps, PostWrites, BucketIDs
    <2>2. Issue(c, w) /\ UNCHANGED <<status, postsIDs>>
      BY <1>9 DEF CreateBucket, server
    <2>3. \A d \in Users : /\ status[b] = "unborn"
                           /\ \A i \in DOMAIN queue[d] :
                                queue[d][i].op = "setBucket" =>
                                  queue[d][i].bucket # b
      BY <1>9 DEF CreateBucket, SeesBucket
    <2> HIDE DEF w
    <2>4. \A d \in Users : \A i \in DOMAIN queue'[d] :
            \/ i \in DOMAIN queue[d] /\ queue'[d][i] = queue[d][i]
            \/ d = c /\ i = Len(queue[c]) + 1 /\ queue'[d][i] = w
      BY <2>1, <2>2, IssueElements
    <2>5. SetOnce'
      BY <2>1, <2>3, <2>4 DEF SetOnce, BucketInv
    <2>6. SetUnborn'
      BY <2>1, <2>2, <2>3, <2>4 DEF SetUnborn, BucketInv
    <2>7. EmptyUnlessLive'
      BY <2>2 DEF EmptyUnlessLive, BucketInv
    <2> QED BY <2>5, <2>6, <2>7 DEF BucketInv
  <1>10. ASSUME NEW b \in Buckets, DeleteBucket(c, b) PROVE BucketInv'
    <2>1. /\ Write("deleteBucket", c, b, Empty) \in Writes
          /\ Write("deleteBucket", c, b, Empty).op = "deleteBucket"
      BY WriteType DEF WriteOps, PostWrites, BucketIDs
    <2> QED BY <1>10, <2>1, BucketIssue DEF DeleteBucket, server
  <1> QED BY <1>3, <1>4, <1>5, <1>6, <1>7, <1>8, <1>9, <1>10 DEF Use

LEMMA BucketServe ==
  ASSUME TypeOK, BucketInv, NEW c \in Users, Serve(c)
  PROVE  BucketInv'
  <1> DEFINE w == Head(queue[c])
  <1>1. ASSUME NEW op, NEW ok \in BOOLEAN, Take(c, op), Settle(c, ok)
        PROVE  /\ SetOnce'
               /\ 1 \in DOMAIN queue[c] /\ w = queue[c][1] /\ w \in Writes
               /\ \A d \in Users : \A i \in DOMAIN queue'[d] :
                    \E j \in DOMAIN queue[d] : /\ queue'[d][i] = queue[d][j]
                                               /\ d = c => j # 1
    <2>1. /\ queue[c] # <<>> /\ w \in Writes
      BY <1>1, HeadType DEF Take
    <2>2. /\ \A d \in Users : d # c => queue'[d] = queue[d]
          /\ 1 \in DOMAIN queue[c] /\ w = queue[c][1]
          /\ \A i \in DOMAIN queue'[c] : /\ i \in Nat /\ i > 0
                                         /\ i + 1 \in DOMAIN queue[c]
                                         /\ queue'[c][i] = queue[c][i + 1]
      BY <1>1, <2>1, SettleElements
    <2>3. SetOnce'
      <3> SUFFICES ASSUME NEW d \in Users, NEW e \in Users,
                          NEW i \in DOMAIN queue'[d], NEW j \in DOMAIN queue'[e],
                          queue'[d][i].op = "setBucket",
                          queue'[e][j].op = "setBucket",
                          queue'[d][i].bucket = queue'[e][j].bucket
                   PROVE  d = e /\ i = j
        BY DEF SetOnce
      <3>1. CASE d = c /\ e = c
        BY <3>1, <2>2 DEF BucketInv, SetOnce
      <3>2. CASE d = c /\ e # c
        BY <3>2, <2>2 DEF BucketInv, SetOnce
      <3>3. CASE d # c /\ e = c
        BY <3>3, <2>2 DEF BucketInv, SetOnce
      <3>4. CASE d # c /\ e # c
        BY <3>4, <2>2 DEF BucketInv, SetOnce
      <3> QED BY <3>1, <3>2, <3>3, <3>4
    <2>4. ASSUME NEW d \in Users, NEW i \in DOMAIN queue'[d]
          PROVE  \E j \in DOMAIN queue[d] : /\ queue'[d][i] = queue[d][j]
                                            /\ d = c => j # 1
      <3>1. CASE d = c
        <4>1. i + 1 # 1
          BY <3>1, <2>2
        <4> QED BY <3>1, <4>1, <2>2
      <3>2. CASE d # c
        BY <3>2, <2>2
      <3> QED BY <3>1, <3>2
    <2> QED BY <2>1, <2>2, <2>3, <2>4
  <1>2. ASSUME NEW op, NEW ok \in BOOLEAN, Take(c, op), Settle(c, ok),
               UNCHANGED status,
               \A b \in Buckets : status[b] # "live" => postsIDs'[b] = postsIDs[b]
        PROVE  BucketInv'
    <2>1. SetOnce' /\ SetUnborn'
      BY <1>1, <1>2 DEF BucketInv, SetUnborn
    <2>2. EmptyUnlessLive'
      BY <1>2 DEF BucketInv, EmptyUnlessLive
    <2> QED BY <2>1, <2>2 DEF BucketInv
  <1>3. CASE ApplySetPost(c)
    BY <1>2, <1>3 DEF ApplySetPost
  <1>4. CASE ApplyUpdatePost(c)
    BY <1>2, <1>4 DEF ApplyUpdatePost
  <1>5. CASE RejectUpdatePost(c)
    BY <1>2, <1>5 DEF RejectUpdatePost, server
  <1>6. CASE ApplyDeletePost(c)
    BY <1>2, <1>6 DEF ApplyDeletePost
  <1>7. CASE ApplySetComments(c)
    BY <1>2, <1>7 DEF ApplySetComments
  <1>8. CASE ApplyRemoveOld(c)
    BY <1>2, <1>8 DEF ApplyRemoveOld, server
  <1>9. CASE ApplyAddToBucket(c)
    BY <1>2, <1>9 DEF ApplyAddToBucket
  <1>10. CASE ApplySetBucket(c)
    <2>1. /\ Take(c, "setBucket") /\ Settle(c, TRUE) /\ w.op = "setBucket"
          /\ status' = [status EXCEPT ![w.bucket] = "live"]
          /\ postsIDs' = [postsIDs EXCEPT ![w.bucket] = {}]
      BY <1>10 DEF ApplySetBucket, Take
    <2>2. SetOnce'
      BY <2>1, <1>1
    <2>3. SetUnborn'
      <3> SUFFICES ASSUME NEW d \in Users, NEW i \in DOMAIN queue'[d],
                          queue'[d][i].op = "setBucket"
                   PROVE  /\ queue'[d][i].bucket \in Buckets
                          /\ status'[queue'[d][i].bucket] = "unborn"
        BY DEF SetUnborn
      <3>1. PICK j \in DOMAIN queue[d] : /\ queue'[d][i] = queue[d][j]
                                         /\ d = c => j # 1
        BY <2>1, <1>1
      <3>2. 1 \in DOMAIN queue[c] /\ w = queue[c][1]
        BY <2>1, <1>1
      <3>3. queue[d][j].bucket # w.bucket
        BY <2>1, <3>1, <3>2 DEF BucketInv, SetOnce
      <3> QED BY <2>1, <3>1, <3>3 DEF BucketInv, SetUnborn, TypeOK
    <2>4. EmptyUnlessLive'
      BY <2>1 DEF EmptyUnlessLive, BucketInv, TypeOK
    <2> QED BY <2>2, <2>3, <2>4 DEF BucketInv
  <1>11. CASE ApplyDeleteBucket(c)
    <2>1. /\ Take(c, "deleteBucket") /\ Settle(c, TRUE)
          /\ status' = [status EXCEPT ![w.bucket] =
                          IF @ = "unborn" THEN @ ELSE "dead"]
          /\ postsIDs' = [postsIDs EXCEPT ![w.bucket] = {}]
      BY <1>11 DEF ApplyDeleteBucket
    <2>2. \A b \in Buckets : status[b] = "unborn" => status'[b] = "unborn"
      BY <2>1 DEF TypeOK
    <2>3. SetUnborn' /\ SetOnce'
      <3>1. SetOnce' /\ \A d \in Users : \A i \in DOMAIN queue'[d] :
              \E j \in DOMAIN queue[d] : queue'[d][i] = queue[d][j]
        BY <2>1, <1>1
      <3> QED BY <2>2, <3>1 DEF BucketInv, SetUnborn
    <2>4. EmptyUnlessLive'
      BY <2>1 DEF EmptyUnlessLive, BucketInv, TypeOK
    <2> QED BY <2>3, <2>4 DEF BucketInv
  <1> QED
    BY <1>3, <1>4, <1>5, <1>6, <1>7, <1>8, <1>9, <1>10, <1>11 DEF Serve

\* The closures and the end of the app leave the queued writes in place, and
\* add nothing but comments documents and changes of existing buckets.
LEMMA ClosureQueue ==
  ASSUME TypeOK, NEW c \in Users, RunClosure(c) \/ Kill(c)
  PROVE  \A d \in Users : \A i \in DOMAIN queue'[d] :
           \/ /\ i \in DOMAIN queue[d]
              /\ queue'[d][i].op = queue[d][i].op
              /\ queue'[d][i].post = queue[d][i].post
              /\ queue'[d][i].bucket = queue[d][i].bucket
           \/ queue'[d][i].op \in {"setComments", "removeOld", "addToBucket"}
  <1> DEFINE w == Head(acks[c]).write
             Fresh(ws) == \A i \in DOMAIN ws : ws[i].op \in
                            {"setComments", "removeOld", "addToBucket"}
  <1>1. ASSUME NEW op, NEW ok, Acked(c, op, ok)
        PROVE  /\ w.post \in Users /\ w.bucket \in BucketIDs
               /\ w.old \in BucketIDs /\ Empty \in BucketIDs
    <2>1. w \in Writes
      BY <1>1, HeadType DEF Acked, Outcomes
    <2> QED BY <2>1 DEF Writes, BucketIDs
  <1>2. ASSUME NEW ws \in Seq(Writes), queue' = [queue EXCEPT ![c] = @ \o ws],
               Fresh(ws)
        PROVE  \A d \in Users : \A i \in DOMAIN queue'[d] :
                 \/ i \in DOMAIN queue[d] /\ queue'[d][i] = queue[d][i]
                 \/ queue'[d][i].op \in {"setComments", "removeOld", "addToBucket"}
    <2>1. \A i \in DOMAIN queue'[c] :
            \/ i \in DOMAIN queue[c] /\ queue'[c][i] = queue[c][i]
            \/ i - Len(queue[c]) \in DOMAIN ws
                 /\ queue'[c][i] = ws[i - Len(queue[c])]
      BY <1>2, AppendElements
    <2>2. \A d \in Users : d # c => queue'[d] = queue[d]
      BY <1>2, AppendElements
    <2> SUFFICES ASSUME NEW d \in Users, NEW i \in DOMAIN queue'[d]
        PROVE  \/ i \in DOMAIN queue[d] /\ queue'[d][i] = queue[d][i]
               \/ queue'[d][i].op \in {"setComments", "removeOld", "addToBucket"}
      OBVIOUS
    <2>3. CASE d = c /\ i - Len(queue[c]) \in DOMAIN ws
                 /\ queue'[c][i] = ws[i - Len(queue[c])]
      BY <1>2, <2>3
    <2> QED BY <2>1, <2>2, <2>3
  <1>3. ASSUME EndApp(c)
        PROVE  \A d \in Users : \A i \in DOMAIN queue'[d] :
                 /\ i \in DOMAIN queue[d]
                 /\ queue'[d][i].op = queue[d][i].op
                 /\ queue'[d][i].post = queue[d][i].post
                 /\ queue'[d][i].bucket = queue[d][i].bucket
    <2>1. /\ \A d \in Users : d # c => queue'[d] = queue[d]
          /\ DOMAIN queue'[c] = DOMAIN queue[c]
          /\ \A i \in DOMAIN queue[c] :
               queue'[c][i] = [queue[c][i] EXCEPT !.hook = FALSE]
      BY <1>3, EndAppElements
    <2>2. \A i \in DOMAIN queue[c] : queue[c][i] \in Writes
      BY ElementType
    <2>3. \A i \in DOMAIN queue[c] :
            /\ queue'[c][i].op = queue[c][i].op
            /\ queue'[c][i].post = queue[c][i].post
            /\ queue'[c][i].bucket = queue[c][i].bucket
      BY <2>1, <2>2 DEF Writes
    <2> QED BY <2>1, <2>3
  <1>4. CASE PostCreated(c)
    <2> DEFINE doc == Write("setComments", w.post, Empty, Empty)
               add == Write("addToBucket", w.post, w.bucket, Empty)
    <2>1. /\ doc \in Writes /\ doc.op = "setComments"
          /\ add \in Writes /\ add.op = "addToBucket"
      <3>1. /\ w.post \in Users /\ w.bucket \in BucketIDs
            /\ w.old \in BucketIDs /\ Empty \in BucketIDs
        BY <1>1, <1>4 DEF PostCreated
      <3>2. "setComments" \in WriteOps /\ "addToBucket" \in WriteOps
        BY DEF WriteOps
      <3> HIDE DEF w
      <3>3. doc \in Writes /\ doc.op = "setComments"
        BY <3>1, <3>2, WriteType
      <3>4. add \in Writes /\ add.op = "addToBucket"
        BY <3>1, <3>2, WriteType
      <3> QED BY <3>3, <3>4
    <2>2. queue' = [queue EXCEPT ![c] =
            @ \o IF w.bucket # Empty THEN <<doc, add>> ELSE <<doc>>]
      BY <1>4 DEF PostCreated
    <2> HIDE DEF doc, add
    <2>3. /\ <<doc, add>> \in Seq(Writes) /\ Fresh(<<doc, add>>)
          /\ <<doc>> \in Seq(Writes) /\ Fresh(<<doc>>)
      BY <2>1
    <2>4. CASE w.bucket # Empty
      BY <1>2, <2>2, <2>3, <2>4
    <2>5. CASE w.bucket = Empty
      BY <1>2, <2>2, <2>3, <2>5
    <2> QED BY <2>4, <2>5
  <1>5. CASE PostMoved(c)
    <2> DEFINE del == Write("removeOld", w.post, w.old, Empty)
               add == Write("addToBucket", w.post, w.bucket, Empty)
    <2>1. /\ del \in Writes /\ del.op = "removeOld"
          /\ add \in Writes /\ add.op = "addToBucket"
      <3>1. /\ w.post \in Users /\ w.bucket \in BucketIDs
            /\ w.old \in BucketIDs /\ Empty \in BucketIDs
        BY <1>1, <1>5 DEF PostMoved
      <3>2. "removeOld" \in WriteOps /\ "addToBucket" \in WriteOps
        BY DEF WriteOps
      <3> HIDE DEF w
      <3>3. del \in Writes /\ del.op = "removeOld"
        BY <3>1, <3>2, WriteType
      <3>4. add \in Writes /\ add.op = "addToBucket"
        BY <3>1, <3>2, WriteType
      <3> QED BY <3>3, <3>4
    <2>2. queue' = [queue EXCEPT ![c] = @ \o <<del, add>>]
      BY <1>5 DEF PostMoved
    <2> HIDE DEF del, add
    <2>3. <<del, add>> \in Seq(Writes) /\ Fresh(<<del, add>>)
      BY <2>1
    <2> QED BY <1>2, <2>2, <2>3
  <1>6. CASE PostKept(c) \/ EditRefused(c)
    BY <1>6 DEF PostKept, EditRefused
  <1> QED
    BY <1>3, <1>4, <1>5, <1>6 DEF RunClosure, CrashOnNoOldBucket, Kill

LEMMA BucketStep == TypeOK /\ BucketInv /\ [Next]_vars => BucketInv'
  <1> SUFFICES ASSUME TypeOK, BucketInv, [Next]_vars PROVE BucketInv'
    OBVIOUS
  <1>1. ASSUME NEW c \in Users, AnswerFetch(c) \/ ShowFetched(c) PROVE BucketInv'
    BY <1>1, BucketKept DEF AnswerFetch, ShowFetched, server
  <1>2. ASSUME NEW c \in Users, RunClosure(c) \/ Kill(c) PROVE BucketInv'
    <2>1. UNCHANGED <<status, postsIDs>>
      BY <1>2 DEF RunClosure, PostCreated, PostMoved, PostKept, EditRefused,
                  CrashOnNoOldBucket, Kill, server
    <2> QED BY <1>2, <2>1, ClosureQueue, BucketKept
  <1>3. CASE UNCHANGED vars
    BY <1>3, BucketKept DEF vars
  <1> QED BY <1>1, <1>2, <1>3, BucketUse, BucketServe DEF Next

\* A deleted bucket stays deleted and empty, whatever the devices do.
THEOREM DeadStaysDeadHolds == Spec => DeadStaysDead
  <1> DEFINE Stays == \A b \in Buckets : status[b] = "dead" =>
                        status'[b] = "dead" /\ postsIDs'[b] = {}
  <1>1. TypeOK /\ BucketInv /\ [Next]_vars => [Stays]_vars
    <2> SUFFICES ASSUME TypeOK, BucketInv, Next PROVE Stays
      OBVIOUS
    <2>0. ASSUME UNCHANGED <<status, postsIDs>> PROVE Stays
      BY <2>0 DEF BucketInv, EmptyUnlessLive
    <2>1. ASSUME NEW c \in Users, Use(c) \/ AnswerFetch(c) \/ ShowFetched(c)
                                    \/ RunClosure(c) \/ Kill(c)
          PROVE  UNCHANGED <<status, postsIDs>>
      BY <2>1 DEF Use, OpenCreate, OpenEdit, TapBucketIt, BucketItPicked, GoBack,
                  CreatePost, EditPost, DeletePost, CreateBucket, DeleteBucket,
                  AnswerFetch, ShowFetched, RunClosure, PostCreated, PostMoved,
                  PostKept, EditRefused, CrashOnNoOldBucket, Kill, server
    <2>2. ASSUME NEW c \in Users, Serve(c) PROVE Stays
      <3>1. CASE ApplySetBucket(c)
        <4>1. /\ queue[c] # <<>> /\ queue[c] \in Seq(Writes)
              /\ Head(queue[c]).op = "setBucket"
          BY <3>1 DEF ApplySetBucket, Take, TypeOK
        <4>2. status[Head(queue[c]).bucket] = "unborn"
          BY <4>1, HeadTail DEF BucketInv, SetUnborn
        <4> QED BY <3>1, <4>2 DEF ApplySetBucket, BucketInv, EmptyUnlessLive, TypeOK
      <3>2. CASE ApplyDeleteBucket(c)
        BY <3>2 DEF ApplyDeleteBucket, BucketInv, EmptyUnlessLive, TypeOK
      <3>3. CASE ApplyAddToBucket(c)
        BY <3>3 DEF ApplyAddToBucket, BucketInv, EmptyUnlessLive, TypeOK
      <3>4. CASE ~ApplySetBucket(c) /\ ~ApplyDeleteBucket(c) /\ ~ApplyAddToBucket(c)
        BY <2>0, <2>2, <3>4 DEF Serve, ApplySetPost, ApplyUpdatePost,
           RejectUpdatePost, ApplyDeletePost, ApplySetComments, ApplyRemoveOld,
           server
      <3> QED BY <3>1, <3>2, <3>3, <3>4
    <2> QED BY <2>0, <2>1, <2>2 DEF Next
  <1>2. Init => TypeOK /\ BucketInv
    BY TypeInit, BucketInit
  <1>3. TypeOK /\ BucketInv /\ [Next]_vars => (TypeOK /\ BucketInv)'
    BY TypeStep, BucketStep
  <1> QED BY <1>1, <1>2, <1>3, PTL DEF Spec, DeadStaysDead

----------------------------------------------------------------------------
(* NoRevival: only a setPost makes a post, and only its author issues one. *)

ByAuthor == \A c \in Users : \A i \in DOMAIN queue[c] :
              queue[c][i].op = "setPost" => queue[c][i].post = c

LEMMA AuthorStep == TypeOK /\ ByAuthor /\ [Next]_vars => ByAuthor'
  <1> SUFFICES ASSUME TypeOK, ByAuthor, [Next]_vars PROVE ByAuthor'
    OBVIOUS
  <1>1. ASSUME NEW c \in Users, Use(c) PROVE ByAuthor'
    <2>0. screen[c] \in Screens
      BY DEF TypeOK
    <2>1. ASSUME NEW op \in WriteOps, NEW p \in Users, NEW b \in BucketIDs,
                 NEW o \in BucketIDs, Issue(c, Write(op, p, b, o)),
                 op = "setPost" => p = c
          PROVE  ByAuthor'
      <3> DEFINE w == Write(op, p, b, o)
      <3>1. w \in Writes /\ w.op = op /\ w.post = p
        BY WriteType
      <3> HIDE DEF w
      <3>2. \A d \in Users : \A i \in DOMAIN queue'[d] :
              \/ i \in DOMAIN queue[d] /\ queue'[d][i] = queue[d][i]
              \/ d = c /\ queue'[d][i] = w
        BY <2>1, <3>1, IssueElements DEF w
      <3> QED BY <2>1, <3>1, <3>2 DEF ByAuthor
    <2>2. ASSUME UNCHANGED queue PROVE ByAuthor'
      BY <2>2 DEF ByAuthor
    <2>3. CASE CreatePost(c)
      BY <2>0, <2>1, <2>3 DEF CreatePost, WriteOps, PostWrites, BucketIDs, Screens
    <2>4. CASE EditPost(c)
      <3>1. /\ screen[c].post \in Users /\ screen[c].bucket \in BucketIDs
            /\ screen[c].old \in BucketIDs
        BY <2>0 DEF Screens
      <3> QED BY <2>1, <2>4, <3>1 DEF EditPost, WriteOps, PostWrites
    <2>5. ASSUME NEW p \in Users, DeletePost(c, p) PROVE ByAuthor'
      BY <2>1, <2>5 DEF DeletePost, WriteOps, PostWrites, BucketIDs
    <2>6. ASSUME NEW b \in Buckets, CreateBucket(c, b) \/ DeleteBucket(c, b)
          PROVE  ByAuthor'
      BY <2>1, <2>6 DEF CreateBucket, DeleteBucket, WriteOps, PostWrites, BucketIDs
    <2> QED BY <1>1, <2>2, <2>3, <2>4, <2>5, <2>6
            DEF Use, OpenCreate, OpenEdit, TapBucketIt, BucketItPicked, GoBack
  <1>2. ASSUME NEW c \in Users, Serve(c) PROVE ByAuthor'
    <2>1. /\ queue[c] # <<>>
          /\ \E ok \in BOOLEAN : Settle(c, ok)
      BY <1>2 DEF Serve, Take, ApplySetPost, ApplyUpdatePost, RejectUpdatePost,
                  ApplyDeletePost, ApplySetComments, ApplyRemoveOld,
                  ApplyAddToBucket, ApplySetBucket, ApplyDeleteBucket
    <2>2. /\ \A d \in Users : d # c => queue'[d] = queue[d]
          /\ \A i \in DOMAIN queue'[c] : /\ i + 1 \in DOMAIN queue[c]
                                         /\ queue'[c][i] = queue[c][i + 1]
      BY <2>1, SettleElements
    <2> QED BY <2>2 DEF ByAuthor
  <1>3. ASSUME NEW c \in Users, AnswerFetch(c) \/ ShowFetched(c) PROVE ByAuthor'
    BY <1>3 DEF AnswerFetch, ShowFetched, ByAuthor
  <1>4. ASSUME NEW c \in Users, RunClosure(c) \/ Kill(c) PROVE ByAuthor'
    BY <1>4, ClosureQueue DEF ByAuthor
  <1>5. CASE UNCHANGED vars
    BY <1>5 DEF vars, ByAuthor
  <1> QED BY <1>1, <1>2, <1>3, <1>4, <1>5 DEF Next

\* A deleted post comes back only by a write of its author that makes a new one.
THEOREM NoRevivalHolds == Spec => NoRevival
  <1> DEFINE ByCreation ==
               \A p \in Users : posts[p] = NoPost /\ posts'[p] # NoPost =>
                 /\ queue[p] # <<>>
                 /\ Head(queue[p]).op = "setPost"
  <1>1. TypeOK /\ ByAuthor /\ [Next]_vars => [ByCreation]_vars
    <2> SUFFICES ASSUME TypeOK, ByAuthor, Next, NEW p \in Users,
                        posts[p] = NoPost, posts'[p] # NoPost
                 PROVE  queue[p] # <<>> /\ Head(queue[p]).op = "setPost"
      OBVIOUS
    <2>1. PICK c \in Users : Serve(c)
      BY DEF Next, Use, OpenCreate, OpenEdit, TapBucketIt, BucketItPicked, GoBack,
             CreatePost, EditPost, DeletePost, CreateBucket, DeleteBucket,
             AnswerFetch, ShowFetched, RunClosure, PostCreated, PostMoved,
             PostKept, EditRefused, CrashOnNoOldBucket, Kill, server
    <2>2. ~ApplyUpdatePost(c) /\ ~ApplyDeletePost(c)
      BY DEF ApplyUpdatePost, ApplyDeletePost, File, TypeOK
    <2>3. ApplySetPost(c)
      BY <2>1, <2>2 DEF Serve, RejectUpdatePost, ApplySetComments, ApplyRemoveOld,
                        ApplyAddToBucket, ApplySetBucket, ApplyDeleteBucket, server
    <2>4. /\ queue[c] # <<>> /\ queue[c] \in Seq(Writes)
          /\ Head(queue[c]).op = "setPost"
          /\ Head(queue[c]).post = p
      BY <2>3 DEF ApplySetPost, Take, File, TypeOK
    <2>5. c = p
      BY <2>4, HeadTail DEF ByAuthor
    <2> QED BY <2>4, <2>5
  <1>2. Init => TypeOK /\ ByAuthor
    BY TypeInit DEF Init, ByAuthor
  <1>3. TypeOK /\ ByAuthor /\ [Next]_vars => (TypeOK /\ ByAuthor)'
    BY TypeStep, AuthorStep
  <1> QED BY <1>1, <1>2, <1>3, PTL DEF Spec, NoRevival

----------------------------------------------------------------------------
(* HasComments: the closure of createPost runs on the device of the author, *)
(* so as long as no app is ended and that device has not crashed, each of   *)
(* its queued setPosts still has its closure.                               *)

Answered(c) ==
  /\ \A i \in DOMAIN queue[c] : queue[c][i].op = "setPost" => queue[c][i].hook
  /\ posts[c] # NoPost => c \in comments \/ Commenting(c)

CommentsInv == kills = 0 => \A c \in Users \ crashed : Answered(c)

LEMMA CommentsInit == Init => CommentsInv
  <1> SUFFICES ASSUME Init, NEW c \in Users PROVE Answered(c)
    BY DEF CommentsInv
  <1>1. queue[c] = << >> /\ (posts[c] # NoPost => c \in comments)
    BY DEF Init
  <1> QED BY <1>1 DEF Answered

\* A device whose writes and outcomes are all still there, and whose new writes
\* come with their closures.
LEMMA AnsweredKept ==
  ASSUME NEW c \in Users, Answered(c),
         posts'[c] # NoPost => posts[c] # NoPost,
         comments \subseteq comments',
         \A i \in DOMAIN queue'[c] : queue'[c][i].op = "setPost" =>
           \/ i \in DOMAIN queue[c] /\ queue'[c][i] = queue[c][i]
           \/ queue'[c][i].hook,
         \A i \in DOMAIN queue[c] : i \in DOMAIN queue'[c]
                                    /\ queue'[c][i] = queue[c][i],
         \A i \in DOMAIN acks[c] :
           acks[c][i].ok /\ acks[c][i].write.op = "setPost" =>
             \E j \in DOMAIN acks'[c] : acks'[c][j] = acks[c][i]
  PROVE  Answered(c)'
  <1>1. \A i \in DOMAIN queue'[c] :
          queue'[c][i].op = "setPost" => queue'[c][i].hook
    BY DEF Answered
  <1>2. Commenting(c) => Commenting(c)'
    BY DEF Commenting
  <1> QED BY <1>1, <1>2 DEF Answered

LEMMA CommentsUse ==
  ASSUME TypeOK, CommentsInv, NEW c \in Users, Use(c)
  PROVE  CommentsInv'
  <1>0. screen[c] \in Screens
    BY DEF TypeOK
  <1>t. Zero \in BucketIDs /\ Empty \in BucketIDs /\ Buckets \subseteq BucketIDs
    BY DEF BucketIDs
  <1>1. ASSUME NEW op \in WriteOps, NEW p \in Users, NEW b \in BucketIDs,
               NEW o \in BucketIDs, Issue(c, Write(op, p, b, o)),
               UNCHANGED <<posts, comments, acks, kills, crashed>>
        PROVE  CommentsInv'
    <2>1. PICK w : w = Write(op, p, b, o)
      OBVIOUS
    <2>2. w \in Writes /\ (w.op = "setPost" => w.hook)
      BY <2>1, WriteType DEF Write, PostWrites
    <2>3. Issue(c, w)
      BY <1>1, <2>1
    <2>4. \A d \in Users : Answered(d) => Answered(d)'
      <3> SUFFICES ASSUME NEW d \in Users, Answered(d) PROVE Answered(d)'
        OBVIOUS
      <3>1. /\ \A i \in DOMAIN queue[d] : i \in DOMAIN queue'[d]
                                          /\ queue'[d][i] = queue[d][i]
            /\ \A i \in DOMAIN queue'[d] :
                 \/ i \in DOMAIN queue[d] /\ queue'[d][i] = queue[d][i]
                 \/ queue'[d][i] = w
        BY <2>2, <2>3, IssueElements
      <3> QED BY <1>1, <2>2, <3>1, AnsweredKept
    <2> QED BY <1>1, <2>4 DEF CommentsInv
  <1>2. ASSUME UNCHANGED <<posts, comments, queue, acks, kills, crashed>>
        PROVE  CommentsInv'
    BY <1>2 DEF CommentsInv, Answered, Commenting
  <1>3. CASE OpenCreate(c) \/ TapBucketIt(c) \/ GoBack(c)
    BY <1>2, <1>3 DEF OpenCreate, TapBucketIt, GoBack, server
  <1>4. CASE CreatePost(c)
    <2>1. screen[c].bucket \in BucketIDs /\ "setPost" \in WriteOps
      BY <1>0 DEF Screens, WriteOps, PostWrites
    <2> QED BY <1>1, <1>4, <1>t, <2>1 DEF CreatePost, server
  <1>5. CASE EditPost(c)
    <2>1. /\ screen[c].bucket \in BucketIDs /\ "updatePost" \in WriteOps
          /\ screen[c].post \in Users /\ screen[c].old \in BucketIDs
      BY <1>0 DEF Screens, WriteOps, PostWrites
    <2> QED BY <1>1, <1>5, <2>1 DEF EditPost, server
  <1>6. ASSUME NEW p \in Users, OpenEdit(c, p) PROVE CommentsInv'
    BY <1>2, <1>6 DEF OpenEdit, server
  <1>7. ASSUME NEW p \in Users, DeletePost(c, p) PROVE CommentsInv'
    BY <1>1, <1>7, <1>t DEF DeletePost, server, WriteOps
  <1>8. ASSUME NEW b \in Buckets, BucketItPicked(c, b) PROVE CommentsInv'
    BY <1>2, <1>8 DEF BucketItPicked, server
  <1>9. ASSUME NEW b \in Buckets, CreateBucket(c, b) PROVE CommentsInv'
    BY <1>1, <1>9, <1>t DEF CreateBucket, server, WriteOps
  <1>10. ASSUME NEW b \in Buckets, DeleteBucket(c, b) PROVE CommentsInv'
    BY <1>1, <1>10, <1>t DEF DeleteBucket, server, WriteOps
  <1> QED BY <1>3, <1>4, <1>5, <1>6, <1>7, <1>8, <1>9, <1>10 DEF Use

LEMMA CommentsServe ==
  ASSUME TypeOK, ByAuthor, CommentsInv, NEW c \in Users, Serve(c)
  PROVE  CommentsInv'
  <1>1. queue[c] # <<>> /\ UNCHANGED <<kills, crashed>>
    BY DEF Serve, Take, ApplySetPost, ApplyUpdatePost, RejectUpdatePost,
           ApplyDeletePost, ApplySetComments, ApplyRemoveOld, ApplyAddToBucket,
           ApplySetBucket, ApplyDeleteBucket, server
  <1>w. PICK w \in Writes : w = Head(queue[c])
    BY <1>1, HeadType
  <1>2. PICK ok \in BOOLEAN : Settle(c, ok) /\ (w.op = "setPost" => ok)
    BY <1>w DEF Serve, Take, ApplySetPost, ApplyUpdatePost, RejectUpdatePost,
           ApplyDeletePost, ApplySetComments, ApplyRemoveOld, ApplyAddToBucket,
           ApplySetBucket, ApplyDeleteBucket
  <1>3. /\ \A d \in Users : d # c => queue'[d] = queue[d] /\ acks'[d] = acks[d]
        /\ 1 \in DOMAIN queue[c] /\ w = queue[c][1]
        /\ \A i \in DOMAIN queue'[c] : /\ i + 1 \in DOMAIN queue[c]
                                       /\ queue'[c][i] = queue[c][i + 1]
        /\ \A i \in DOMAIN queue[c] :
             i # 1 => i \in Nat /\ i - 1 \in DOMAIN queue'[c]
        /\ \A i \in DOMAIN acks[c] : /\ i \in DOMAIN acks'[c]
                                     /\ acks'[c][i] = acks[c][i]
        /\ w.hook => \E i \in DOMAIN acks'[c] :
                       acks'[c][i] = [write |-> w, ok |-> ok]
    BY <1>1, <1>2, <1>w, SettleElements
  <1>4. w.op = "setPost" => w.post = c
    BY <1>3 DEF ByAuthor
  \* What the server does to the posts and to the comments.
  <1>5. /\ comments \subseteq comments'
        /\ w.op = "setComments" => w.post \in comments'
        /\ \A p \in Users : posts'[p] # NoPost =>
             posts[p] # NoPost \/ (w.op = "setPost" /\ p = c)
    <2>1. CASE ApplySetPost(c)
      BY <1>w, <1>4, <2>1 DEF ApplySetPost, Take, File, TypeOK
    <2>2. CASE ApplyUpdatePost(c)
      BY <1>w, <2>2 DEF ApplyUpdatePost, Take, File, TypeOK
    <2>3. CASE ApplyDeletePost(c)
      BY <1>w, <2>3 DEF ApplyDeletePost, Take, TypeOK
    <2>4. CASE ApplySetComments(c)
      BY <1>w, <2>4 DEF ApplySetComments, Take
    <2>5. CASE \/ RejectUpdatePost(c) \/ ApplyRemoveOld(c) \/ ApplyAddToBucket(c)
               \/ ApplySetBucket(c) \/ ApplyDeleteBucket(c)
      BY <1>w, <2>5 DEF RejectUpdatePost, ApplyRemoveOld, ApplyAddToBucket,
         ApplySetBucket, ApplyDeleteBucket, Take, server
    <2> QED BY <2>1, <2>2, <2>3, <2>4, <2>5 DEF Serve
  <1>6. ASSUME NEW d \in Users, d # c, Answered(d) PROVE Answered(d)'
    BY <1>3, <1>5, <1>6, AnsweredKept
  <1>7. ASSUME Answered(c) PROVE Answered(c)'
    <2>1. \A i \in DOMAIN queue'[c] :
            queue'[c][i].op = "setPost" => queue'[c][i].hook
      BY <1>3, <1>7 DEF Answered
    <2>2. Commenting(c) => c \in comments' \/ Commenting(c)'
      <3>1. ASSUME NEW i \in DOMAIN queue[c], queue[c][i].op = "setComments",
                   queue[c][i].post = c
            PROVE  c \in comments' \/ Commenting(c)'
        <4>1. CASE i = 1
          BY <1>3, <1>5, <3>1, <4>1
        <4>2. CASE i # 1
          <5>1. PICK j \in DOMAIN queue'[c] : j = i - 1
            BY <1>3, <4>2
          <5>2. i \in Nat /\ j + 1 = i
            BY <1>3, <4>2, <5>1
          <5> QED BY <1>3, <3>1, <5>1, <5>2 DEF Commenting
        <4> QED BY <4>1, <4>2
      <3>2. ASSUME NEW i \in DOMAIN acks[c], acks[c][i].ok,
                   acks[c][i].write.op = "setPost", acks[c][i].write.post = c
            PROVE  Commenting(c)'
        BY <1>3, <3>2 DEF Commenting
      <3> QED BY <3>1, <3>2 DEF Commenting
    <2>3. CASE w.op = "setPost"
      <3>1. PICK i \in DOMAIN acks'[c] : acks'[c][i] = [write |-> w, ok |-> ok]
        BY <1>3, <1>7, <2>3 DEF Answered
      <3>2. acks'[c][i].ok /\ acks'[c][i].write = w
        BY <1>2, <2>3, <3>1
      <3> QED BY <1>4, <2>1, <2>3, <3>2 DEF Answered, Commenting
    <2>4. CASE w.op # "setPost"
      BY <1>5, <1>7, <2>1, <2>2, <2>4 DEF Answered
    <2> QED BY <2>3, <2>4
  <1> QED BY <1>1, <1>6, <1>7 DEF CommentsInv

LEMMA CommentsClosure ==
  ASSUME TypeOK, CommentsInv, NEW c \in Users, RunClosure(c)
  PROVE  CommentsInv'
  <1>1. CASE CrashOnNoOldBucket(c)
    <2>1. /\ UNCHANGED <<posts, comments, kills>> /\ crashed' = crashed \cup {c}
          /\ \A d \in Users : d # c => queue'[d] = queue[d] /\ acks'[d] = acks[d]
      BY <1>1, EndAppElements DEF CrashOnNoOldBucket, server
    <2>2. \A d \in Users : d # c /\ Answered(d) => Answered(d)'
      BY <2>1 DEF Answered, Commenting
    <2> QED BY <2>1, <2>2 DEF CommentsInv
  <1>2. CASE ~CrashOnNoOldBucket(c)
    <2>1. UNCHANGED <<posts, comments, kills, crashed>>
      BY <1>2 DEF RunClosure, PostCreated, PostMoved, PostKept, EditRefused, server
    <2>2. acks[c] # <<>> /\ Handled(c)
      BY <1>2 DEF RunClosure, PostCreated, PostMoved, PostKept, EditRefused, Acked
    <2>w. PICK w \in Writes : w = Head(acks[c]).write
      BY <2>2, HeadType DEF Outcomes
    <2>3. /\ \A d \in Users : d # c => acks'[d] = acks[d]
          /\ w = acks[c][1].write
          /\ \A i \in DOMAIN acks[c] : i # 1 =>
               i - 1 \in DOMAIN acks'[c] /\ acks'[c][i - 1] = acks[c][i]
      BY <2>2, <2>w, HandledElements
    \* The new writes, of which none makes a post.
    <2>4. PICK ws \in Seq(Writes) :
            /\ queue' = [queue EXCEPT ![c] = @ \o ws]
            /\ \A i \in DOMAIN ws : ws[i].op # "setPost"
            /\ w.op = "setPost" /\ Head(acks[c]).ok =>
                 1 \in DOMAIN ws /\ ws[1].op = "setComments" /\ ws[1].post = w.post
      <3>0. /\ w.post \in Users /\ w.bucket \in BucketIDs /\ w.old \in BucketIDs
            /\ Empty \in BucketIDs
        BY DEF Writes, BucketIDs
      <3>1. PICK doc, add, del :
              /\ doc = Write("setComments", w.post, Empty, Empty)
              /\ add = Write("addToBucket", w.post, w.bucket, Empty)
              /\ del = Write("removeOld", w.post, w.old, Empty)
        OBVIOUS
      <3>2. /\ doc \in Writes /\ doc.op = "setComments" /\ doc.post = w.post
            /\ add \in Writes /\ add.op = "addToBucket"
            /\ del \in Writes /\ del.op = "removeOld"
        <4>1. {"setComments", "addToBucket", "removeOld"} \subseteq WriteOps
          BY DEF WriteOps
        <4>2. doc \in Writes /\ doc.op = "setComments" /\ doc.post = w.post
          BY <3>0, <3>1, <4>1, WriteType
        <4>3. add \in Writes /\ add.op = "addToBucket"
          BY <3>0, <3>1, <4>1, WriteType
        <4>4. del \in Writes /\ del.op = "removeOld"
          BY <3>0, <3>1, <4>1, WriteType
        <4> QED BY <4>2, <4>3, <4>4
      <3>3. CASE PostCreated(c)
        <4>1. queue' = [queue EXCEPT ![c] =
                @ \o IF w.bucket # Empty THEN <<doc, add>> ELSE <<doc>>]
          BY <2>w, <3>1, <3>3 DEF PostCreated
        <4>2. CASE w.bucket # Empty
          <5>1. <<doc, add>> \in Seq(Writes)
            BY <3>2
          <5>2. queue' = [queue EXCEPT ![c] = @ \o <<doc, add>>]
            BY <4>1, <4>2
          <5>3. /\ \A i \in DOMAIN <<doc, add>> : <<doc, add>>[i].op # "setPost"
                /\ 1 \in DOMAIN <<doc, add>> /\ <<doc, add>>[1] = doc
            BY <3>2
          <5> QED BY <3>2, <5>1, <5>2, <5>3
        <4>3. CASE w.bucket = Empty
          <5>1. <<doc>> \in Seq(Writes)
            BY <3>2
          <5>2. queue' = [queue EXCEPT ![c] = @ \o <<doc>>]
            BY <4>1, <4>3
          <5>3. /\ \A i \in DOMAIN <<doc>> : <<doc>>[i].op # "setPost"
                /\ 1 \in DOMAIN <<doc>> /\ <<doc>>[1] = doc
            BY <3>2
          <5> QED BY <3>2, <5>1, <5>2, <5>3
        <4> QED BY <4>2, <4>3
      <3>4. CASE PostMoved(c)
        <4>1. queue' = [queue EXCEPT ![c] = @ \o <<del, add>>]
          BY <2>w, <3>1, <3>4 DEF PostMoved
        <4>2. w.op # "setPost"
          BY <2>w, <3>4 DEF PostMoved, Acked
        <4>3. /\ <<del, add>> \in Seq(Writes)
              /\ \A i \in DOMAIN <<del, add>> : <<del, add>>[i].op # "setPost"
          BY <3>2
        <4> QED BY <4>1, <4>2, <4>3
      <3>5. CASE PostKept(c) \/ EditRefused(c)
        <4>1. w.op # "setPost"
          BY <2>w, <3>5 DEF PostKept, EditRefused, Acked
        <4>2. queue' = [queue EXCEPT ![c] = @ \o << >>]
          <5>1. UNCHANGED queue
            BY <3>5 DEF PostKept, EditRefused
          <5>2. queue[c] \in Seq(Writes) /\ queue \in [Users -> Seq(Writes)]
            BY DEF TypeOK
          <5>3. queue[c] \o << >> = queue[c]
            BY <5>2
          <5> QED BY <5>1, <5>2, <5>3
        <4>3. << >> \in Seq(Writes) /\ \A i \in DOMAIN << >> : FALSE
          OBVIOUS
        <4> QED BY <4>1, <4>2, <4>3
      <3> QED BY <1>2, <3>3, <3>4, <3>5 DEF RunClosure
    <2>5. /\ \A d \in Users : d # c => queue'[d] = queue[d]
          /\ \A i \in DOMAIN queue[c] : /\ i \in DOMAIN queue'[c]
                                        /\ queue'[c][i] = queue[c][i]
          /\ \A i \in DOMAIN queue'[c] :
               \/ i \in DOMAIN queue[c]
               \/ /\ i - Len(queue[c]) \in DOMAIN ws
                  /\ queue'[c][i] = ws[i - Len(queue[c])]
      BY <2>4, AppendElements
    <2>6. ASSUME NEW d \in Users, d # c, Answered(d) PROVE Answered(d)'
      BY <2>1, <2>3, <2>5, <2>6, AnsweredKept
    <2>7. ASSUME Answered(c) PROVE Answered(c)'
      <3>1. \A i \in DOMAIN queue'[c] :
              queue'[c][i].op = "setPost" => queue'[c][i].hook
        BY <2>4, <2>5, <2>7 DEF Answered
      <3>2. Commenting(c) => Commenting(c)'
        <4>1. ASSUME NEW i \in DOMAIN queue[c], queue[c][i].op = "setComments",
                     queue[c][i].post = c
              PROVE  Commenting(c)'
          BY <2>5, <4>1 DEF Commenting
        <4>2. ASSUME NEW i \in DOMAIN acks[c], acks[c][i].ok,
                     acks[c][i].write.op = "setPost", acks[c][i].write.post = c
              PROVE  Commenting(c)'
          <5>1. CASE i # 1
            BY <2>3, <4>2, <5>1 DEF Commenting
          <5>2. CASE i = 1
            <6>1. /\ w.op = "setPost" /\ w.post = c /\ Head(acks[c]).ok
              BY <2>2, <2>3, <4>2, <5>2, HandledElements
            <6>2. /\ 1 \in DOMAIN ws /\ ws[1].op = "setComments" /\ ws[1].post = c
              BY <2>4, <6>1
            <6>3. /\ Len(queue[c]) + 1 \in DOMAIN queue'[c]
                  /\ queue'[c][Len(queue[c]) + 1] = ws[1]
              <7>1. queue[c] \in Seq(Writes) /\ queue'[c] = queue[c] \o ws
                BY <2>4 DEF TypeOK
              <7> QED BY <6>2, <7>1
            <6> QED BY <6>2, <6>3 DEF Commenting
          <5> QED BY <5>1, <5>2
        <4> QED BY <4>1, <4>2 DEF Commenting
      <3> QED BY <2>1, <2>7, <3>1, <3>2 DEF Answered
    <2> QED BY <2>1, <2>6, <2>7 DEF CommentsInv
  <1> QED BY <1>1, <1>2

LEMMA CommentsStep == TypeOK /\ ByAuthor /\ CommentsInv /\ [Next]_vars => CommentsInv'
  <1> SUFFICES ASSUME TypeOK, ByAuthor, CommentsInv, [Next]_vars
               PROVE  CommentsInv'
    OBVIOUS
  <1>0. ASSUME UNCHANGED <<posts, comments, queue, acks, kills, crashed>>
        PROVE  CommentsInv'
    BY <1>0 DEF CommentsInv, Answered, Commenting
  <1>1. ASSUME NEW c \in Users, AnswerFetch(c) \/ ShowFetched(c) PROVE CommentsInv'
    BY <1>0, <1>1 DEF AnswerFetch, ShowFetched, server
  <1>2. ASSUME NEW c \in Users, Kill(c) PROVE CommentsInv'
    <2>1. kills' # 0
      BY <1>2 DEF Kill, TypeOK
    <2> QED BY <2>1 DEF CommentsInv
  <1>3. CASE UNCHANGED vars
    BY <1>0, <1>3 DEF vars
  <1> QED
    BY <1>1, <1>2, <1>3, CommentsUse, CommentsServe, CommentsClosure DEF Next

\* A post that is on the server without its comments document has an author
\* whose device is about to write it, as long as no app was ended: edits, moves
\* and deletions by any number of other devices, and their crashes, do not come
\* between the two writes of createPost.
THEOREM HasCommentsHolds == Spec => []HasComments
  <1>1. Init => TypeOK /\ ByAuthor /\ CommentsInv
    BY TypeInit, CommentsInit DEF Init, ByAuthor
  <1>2. TypeOK /\ ByAuthor /\ CommentsInv /\ [Next]_vars
          => (TypeOK /\ ByAuthor /\ CommentsInv)'
    BY TypeStep, AuthorStep, CommentsStep
  <1>3. CommentsInv => HasComments
    BY DEF CommentsInv, HasComments, Answered
  <1> QED BY <1>1, <1>2, <1>3, PTL DEF Spec

----------------------------------------------------------------------------
(* Shelved: PostBuckets implements Shelves.  Only the server changes the   *)
(* documents, and each write it takes is one step of Shelves, given what   *)
(* the queues hold: listings and comments documents of posts that were     *)
(* filed, and new buckets whose id is in no other use.                     *)

DocsWereFiled ==
  \A c \in Users : \A i \in DOMAIN queue[c] :
    queue[c][i].op = "setComments" => Docs!Been(queue[c][i].post)

ShelfInv == FiledInv /\ BucketInv /\ DocsWereFiled

LEMMA FiledGrows == TypeOK /\ [Next]_vars => filed \subseteq filed'
  BY DEF Next, vars, Use, OpenCreate, OpenEdit, TapBucketIt, BucketItPicked,
         GoBack, CreatePost, EditPost, DeletePost, CreateBucket, DeleteBucket,
         AnswerFetch, ShowFetched, Serve, ApplySetPost, ApplyUpdatePost, File,
         RejectUpdatePost, ApplyDeletePost, ApplySetComments, ApplyRemoveOld,
         ApplyAddToBucket, ApplySetBucket, ApplyDeleteBucket, RunClosure,
         PostCreated, PostMoved, PostKept, EditRefused, CrashOnNoOldBucket, Kill

\* Every comments document under way was under way, or has its post filed.
LEMMA DocsKept ==
  ASSUME DocsWereFiled, filed \subseteq filed',
         \A d \in Users : \A i \in DOMAIN queue'[d] :
           queue'[d][i].op = "setComments" =>
             \/ \E j \in DOMAIN queue[d] : /\ queue[d][j].op = "setComments"
                                           /\ queue[d][j].post = queue'[d][i].post
             \/ Docs!Been(queue'[d][i].post)
  PROVE  DocsWereFiled'
  <1>1. \A p : Docs!Been(p) => Docs!Been(p)'
    BY DEF Docs!Been
  <1> QED BY <1>1 DEF DocsWereFiled

\* A write that a tap issues is no comments document.
LEMMA DocsUse ==
  ASSUME TypeOK, DocsWereFiled, filed \subseteq filed', NEW c \in Users, Use(c)
  PROVE  DocsWereFiled'
  <1>0. /\ screen[c].post \in Users /\ screen[c].bucket \in BucketIDs
        /\ screen[c].old \in BucketIDs
    BY DEF TypeOK, Screens
  <1>t. Zero \in BucketIDs /\ Empty \in BucketIDs /\ Buckets \subseteq BucketIDs
    BY DEF BucketIDs
  <1>o. {"setPost", "updatePost", "deletePost", "setBucket", "deleteBucket"}
          \subseteq WriteOps
    BY DEF WriteOps, PostWrites
  <1>1. ASSUME NEW op \in WriteOps, NEW p \in Users, NEW b \in BucketIDs,
               NEW o \in BucketIDs, Issue(c, Write(op, p, b, o)), op # "setComments"
        PROVE  DocsWereFiled'
    <2>1. PICK w \in Writes : w = Write(op, p, b, o) /\ w.op = op
      BY WriteType
    <2>2. \A d \in Users : \A i \in DOMAIN queue'[d] :
            \/ i \in DOMAIN queue[d] /\ queue'[d][i] = queue[d][i]
            \/ queue'[d][i] = w
      BY <1>1, <2>1, IssueElements
    <2> QED BY <1>1, <2>1, <2>2, DocsKept
  <1>2. ASSUME UNCHANGED queue PROVE DocsWereFiled'
    BY <1>2, DocsKept
  <1>3. CASE OpenCreate(c) \/ TapBucketIt(c) \/ GoBack(c)
    BY <1>2, <1>3 DEF OpenCreate, TapBucketIt, GoBack
  <1>4. CASE CreatePost(c)
    BY <1>0, <1>1, <1>4, <1>t, <1>o DEF CreatePost
  <1>5. CASE EditPost(c)
    BY <1>0, <1>1, <1>5, <1>o DEF EditPost
  <1>6. ASSUME NEW p \in Users, OpenEdit(c, p) \/ DeletePost(c, p)
        PROVE  DocsWereFiled'
    BY <1>1, <1>2, <1>6, <1>t, <1>o DEF OpenEdit, DeletePost
  <1>7. ASSUME NEW b \in Buckets,
               BucketItPicked(c, b) \/ CreateBucket(c, b) \/ DeleteBucket(c, b)
        PROVE  DocsWereFiled'
    BY <1>1, <1>2, <1>7, <1>t, <1>o DEF BucketItPicked, CreateBucket, DeleteBucket
  <1> QED BY <1>3, <1>4, <1>5, <1>6, <1>7 DEF Use

LEMMA DocsServe ==
  ASSUME TypeOK, DocsWereFiled, filed \subseteq filed', NEW c \in Users, Serve(c)
  PROVE  DocsWereFiled'
  <1>1. /\ queue[c] # <<>>
        /\ \E ok \in BOOLEAN : Settle(c, ok)
    BY DEF Serve, Take, ApplySetPost, ApplyUpdatePost, RejectUpdatePost,
           ApplyDeletePost, ApplySetComments, ApplyRemoveOld,
           ApplyAddToBucket, ApplySetBucket, ApplyDeleteBucket
  <1>2. /\ \A d \in Users : d # c => queue'[d] = queue[d]
        /\ \A i \in DOMAIN queue'[c] : /\ i + 1 \in DOMAIN queue[c]
                                       /\ queue'[c][i] = queue[c][i + 1]
    BY <1>1, SettleElements
  <1> QED BY <1>2, DocsKept

\* The closure of createPost writes the comments document of a post that the
\* server has accepted; no other closure writes one.
LEMMA DocsClosure ==
  ASSUME TypeOK, FiledInv, DocsWereFiled, filed \subseteq filed',
         NEW c \in Users, RunClosure(c) \/ Kill(c)
  PROVE  DocsWereFiled'
  <1>o. {"setComments", "addToBucket", "removeOld"} \subseteq WriteOps
    BY DEF WriteOps
  <1>1. ASSUME EndApp(c) PROVE DocsWereFiled'
    <2>1. /\ \A d \in Users : d # c => queue'[d] = queue[d]
          /\ DOMAIN queue'[c] = DOMAIN queue[c]
          /\ \A i \in DOMAIN queue[c] :
               queue'[c][i] = [queue[c][i] EXCEPT !.hook = FALSE]
      BY <1>1, EndAppElements
    <2>2. \A i \in DOMAIN queue[c] : /\ queue'[c][i].op = queue[c][i].op
                                     /\ queue'[c][i].post = queue[c][i].post
      BY <2>1, ElementType DEF Writes
    <2> QED BY <2>1, <2>2, DocsKept
  <1>2. ASSUME NEW w \in Writes, NEW ws \in Seq(Writes),
               queue' = [queue EXCEPT ![c] = @ \o ws],
               \A i \in DOMAIN ws : ws[i].op = "setComments" =>
                                      Docs!Been(ws[i].post)
        PROVE  DocsWereFiled'
    <2>1. /\ \A d \in Users : d # c => queue'[d] = queue[d]
          /\ \A i \in DOMAIN queue[c] : queue'[c][i] = queue[c][i]
          /\ \A i \in DOMAIN queue'[c] :
               \/ i \in DOMAIN queue[c]
               \/ /\ i - Len(queue[c]) \in DOMAIN ws
                  /\ queue'[c][i] = ws[i - Len(queue[c])]
      BY <1>2, AppendElements
    <2>2. ASSUME NEW d \in Users, NEW i \in DOMAIN queue'[d],
                 queue'[d][i].op = "setComments"
          PROVE  \/ \E j \in DOMAIN queue[d] :
                      /\ queue[d][j].op = "setComments"
                      /\ queue[d][j].post = queue'[d][i].post
                 \/ Docs!Been(queue'[d][i].post)
      <3>1. CASE i \in DOMAIN queue[d] /\ queue'[d][i] = queue[d][i]
        BY <2>2, <3>1
      <3>2. CASE d = c /\ i - Len(queue[c]) \in DOMAIN ws
                   /\ queue'[c][i] = ws[i - Len(queue[c])]
        BY <1>2, <2>2, <3>2
      <3> QED BY <2>1, <3>1, <3>2
    <2> QED BY <2>2, DocsKept
  <1>3. ASSUME NEW op, NEW ok, Acked(c, op, ok)
        PROVE  \E w \in Writes : /\ w = Head(acks[c]).write
                                 /\ op = "setPost" /\ ok = TRUE => Docs!Been(w.post)
    <2>1. acks[c] # <<>> /\ Head(acks[c]).write.op = op /\ Head(acks[c]).ok = ok
      BY <1>3 DEF Acked
    <2>2. acks[c] \in Seq(Outcomes)
      BY DEF TypeOK
    <2>3. 1 \in DOMAIN acks[c] /\ Head(acks[c]) = acks[c][1]
      BY <2>1, <2>2
    <2>4. PICK w \in Writes : w = Head(acks[c]).write /\ w = acks[c][1].write
      BY <2>1, <2>3, HeadType DEF Outcomes
    <2>5. op = "setPost" /\ ok = TRUE => <<w.post, w.bucket>> \in filed
      BY <2>1, <2>3, <2>4 DEF FiledInv, AcceptedWereFiled, PostWrites
    <2>6. w.bucket \in BucketIDs
      BY DEF Writes
    <2> QED BY <2>4, <2>5, <2>6 DEF Docs!Been
  <1>4. CASE PostCreated(c)
    <2>1. PICK w \in Writes : w = Head(acks[c]).write /\ Docs!Been(w.post)
      BY <1>3, <1>4 DEF PostCreated
    <2>2. w.post \in Users /\ w.bucket \in BucketIDs /\ Empty \in BucketIDs
      BY DEF Writes, BucketIDs
    <2>3. PICK doc, add : /\ doc = Write("setComments", w.post, Empty, Empty)
                          /\ add = Write("addToBucket", w.post, w.bucket, Empty)
      OBVIOUS
    <2>4. doc \in Writes /\ doc.post = w.post
      BY <1>o, <2>2, <2>3, WriteType
    <2>5. add \in Writes /\ add.op = "addToBucket"
      BY <1>o, <2>2, <2>3, WriteType
    <2>6. queue' = [queue EXCEPT ![c] =
            @ \o IF w.bucket # Empty THEN <<doc, add>> ELSE <<doc>>]
      BY <1>4, <2>1, <2>3 DEF PostCreated
    <2>7. /\ <<doc, add>> \in Seq(Writes) /\ <<doc>> \in Seq(Writes)
          /\ \A i \in DOMAIN <<doc, add>> : <<doc, add>>[i] \in {doc, add}
          /\ \A i \in DOMAIN <<doc>> : <<doc>>[i] = doc
      BY <2>4, <2>5
    <2>8. CASE w.bucket # Empty
      BY <1>2, <2>1, <2>4, <2>5, <2>6, <2>7, <2>8
    <2>9. CASE w.bucket = Empty
      BY <1>2, <2>1, <2>4, <2>6, <2>7, <2>9
    <2> QED BY <2>8, <2>9
  <1>5. CASE PostMoved(c)
    <2>1. PICK w \in Writes : w = Head(acks[c]).write
      BY <1>3, <1>5 DEF PostMoved
    <2>2. /\ w.post \in Users /\ w.bucket \in BucketIDs /\ w.old \in BucketIDs
          /\ Empty \in BucketIDs
      BY DEF Writes, BucketIDs
    <2>3. PICK del, add : /\ del = Write("removeOld", w.post, w.old, Empty)
                          /\ add = Write("addToBucket", w.post, w.bucket, Empty)
      OBVIOUS
    <2>4. del \in Writes /\ del.op = "removeOld"
      BY <1>o, <2>2, <2>3, WriteType
    <2>5. add \in Writes /\ add.op = "addToBucket"
      BY <1>o, <2>2, <2>3, WriteType
    <2>6. queue' = [queue EXCEPT ![c] = @ \o <<del, add>>]
      BY <1>5, <2>1, <2>3 DEF PostMoved
    <2>7. /\ <<del, add>> \in Seq(Writes)
          /\ \A i \in DOMAIN <<del, add>> : <<del, add>>[i] \in {del, add}
      BY <2>4, <2>5
    <2> QED BY <1>2, <2>4, <2>5, <2>6, <2>7
  <1>6. CASE PostKept(c) \/ EditRefused(c)
    <2>1. UNCHANGED queue
      BY <1>6 DEF PostKept, EditRefused
    <2> QED BY <2>1, DocsKept
  <1> QED BY <1>1, <1>4, <1>5, <1>6 DEF RunClosure, CrashOnNoOldBucket, Kill

LEMMA ShelfStep == TypeOK /\ ShelfInv /\ [Next]_vars => ShelfInv'
  <1> SUFFICES ASSUME TypeOK, ShelfInv, [Next]_vars PROVE DocsWereFiled'
    BY FiledStep, BucketStep DEF ShelfInv
  <1>0. filed \subseteq filed' /\ FiledInv /\ DocsWereFiled
    BY FiledGrows DEF ShelfInv
  <1>1. ASSUME UNCHANGED queue PROVE DocsWereFiled'
    BY <1>0, <1>1, DocsKept
  <1>2. ASSUME NEW c \in Users, AnswerFetch(c) \/ ShowFetched(c)
        PROVE  DocsWereFiled'
    BY <1>1, <1>2 DEF AnswerFetch, ShowFetched
  <1>3. CASE UNCHANGED vars
    BY <1>1, <1>3 DEF vars
  <1> QED BY <1>0, <1>2, <1>3, DocsUse, DocsServe, DocsClosure DEF Next

\* Each write that the server takes is a step of Shelves or changes no document.
LEMMA ShelfServe ==
  ASSUME TypeOK, ShelfInv, NEW c \in Users, Serve(c)
  PROVE  [Docs!Next]_Docs!vars
  <1>0. queue[c] # <<>>
    BY DEF Serve, Take, ApplySetPost, ApplyUpdatePost, RejectUpdatePost,
           ApplyDeletePost, ApplySetComments, ApplyRemoveOld, ApplyAddToBucket,
           ApplySetBucket, ApplyDeleteBucket
  <1>w. PICK w \in Writes : w = Head(queue[c])
    BY <1>0, HeadType
  <1>t. w.post \in Users /\ w.bucket \in BucketIDs
    BY DEF Writes
  <1>h. 1 \in DOMAIN queue[c] /\ w = queue[c][1]
    BY <1>0, <1>w, HeadTail DEF TypeOK
  <1>1. CASE ApplySetPost(c) \/ ApplyUpdatePost(c)
    <2>1. Docs!File(w.post, w.bucket)
      BY <1>w, <1>1 DEF ApplySetPost, ApplyUpdatePost, File, Docs!File
    <2> QED BY <1>t, <2>1 DEF Docs!Next
  <1>2. CASE ApplyDeletePost(c)
    <2>1. Docs!Remove(w.post)
      BY <1>w, <1>2 DEF ApplyDeletePost, Docs!Remove
    <2> QED BY <1>t, <2>1 DEF Docs!Next
  <1>3. CASE ApplySetComments(c)
    <2>1. w.op = "setComments"
      BY <1>w, <1>3 DEF ApplySetComments, Take
    <2>2. Docs!Been(w.post)
      BY <1>h, <2>1 DEF ShelfInv, DocsWereFiled
    <2>3. Docs!Discuss(w.post)
      BY <1>w, <1>3, <2>2 DEF ApplySetComments, Docs!Discuss
    <2> QED BY <1>t, <2>3 DEF Docs!Next
  <1>4. CASE ApplyAddToBucket(c)
    <2>1. postsIDs' = [b \in Buckets |->
            IF b = w.bucket /\ status[b] = "live" THEN postsIDs[b] \cup {w.post}
                                                  ELSE postsIDs[b]]
      BY <1>w, <1>4 DEF ApplyAddToBucket
    <2>2. <<w.post, w.bucket>> \in filed
      BY <1>w, <1>h, <1>4
         DEF ApplyAddToBucket, Take, ShelfInv, FiledInv, ListedWereFiled
    <2>3. CASE w.bucket \in Buckets /\ status[w.bucket] = "live"
      <3>1. Docs!List(w.post, w.bucket)
        BY <1>4, <2>1, <2>2, <2>3 DEF ApplyAddToBucket, Docs!List, TypeOK
      <3> QED BY <1>t, <2>3, <3>1 DEF Docs!Next
    <2>4. CASE ~(w.bucket \in Buckets /\ status[w.bucket] = "live")
      <3>1. postsIDs' = postsIDs
        BY <2>1, <2>4 DEF TypeOK
      <3> QED BY <1>4, <3>1 DEF ApplyAddToBucket, Docs!vars
    <2> QED BY <2>3, <2>4
  <1>5. CASE ApplySetBucket(c)
    <2>1. /\ w.op = "setBucket"
          /\ status' = [status EXCEPT ![w.bucket] = "live"]
          /\ postsIDs' = [postsIDs EXCEPT ![w.bucket] = {}]
      BY <1>w, <1>5 DEF ApplySetBucket, Take
    <2>2. w.bucket \in Buckets /\ status[w.bucket] = "unborn"
      BY <1>h, <2>1 DEF ShelfInv, BucketInv, SetUnborn
    <2>3. postsIDs' = postsIDs
      BY <2>1, <2>2 DEF ShelfInv, BucketInv, EmptyUnlessLive, TypeOK
    <2>4. Docs!Open(w.bucket)
      BY <1>5, <2>1, <2>2, <2>3 DEF ApplySetBucket, Docs!Open
    <2> QED BY <2>2, <2>4 DEF Docs!Next
  <1>6. CASE ApplyDeleteBucket(c)
    <2>1. /\ status' = [status EXCEPT ![w.bucket] =
                          IF @ = "unborn" THEN @ ELSE "dead"]
          /\ postsIDs' = [postsIDs EXCEPT ![w.bucket] = {}]
          /\ UNCHANGED <<posts, comments, filed>>
      BY <1>w, <1>6 DEF ApplyDeleteBucket
    <2>2. CASE w.bucket \in Buckets /\ status[w.bucket] # "unborn"
      <3>1. Docs!Close(w.bucket)
        BY <2>1, <2>2 DEF Docs!Close, TypeOK
      <3> QED BY <2>2, <3>1 DEF Docs!Next
    <2>3. CASE ~(w.bucket \in Buckets /\ status[w.bucket] # "unborn")
      <3>1. status' = status
        BY <2>1, <2>3 DEF TypeOK
      <3>2. postsIDs' = postsIDs
        BY <2>1, <2>3 DEF TypeOK, ShelfInv, BucketInv, EmptyUnlessLive
      <3> QED BY <2>1, <3>1, <3>2 DEF Docs!vars
    <2> QED BY <2>2, <2>3
  <1>7. CASE RejectUpdatePost(c) \/ ApplyRemoveOld(c)
    BY <1>7 DEF RejectUpdatePost, ApplyRemoveOld, server, Docs!vars
  <1> QED BY <1>1, <1>2, <1>3, <1>4, <1>5, <1>6, <1>7 DEF Serve

\* PostBuckets implements Shelves: for any number of devices, posts and buckets,
\* with refusals, crashes and ended apps, a bucket is opened once and closed for
\* good, lists only posts that were put there while it is open, and comments are
\* kept only for posts there have been.
THEOREM ShelvedHolds == Spec => Shelved
  <1>1. Init => Docs!Init
    BY DEF Init, Docs!Init
  <1>2. Init => TypeOK /\ ShelfInv
    <2>1. Init => DocsWereFiled
      BY DEF Init, DocsWereFiled
    <2> QED BY <2>1, TypeInit, FiledInit, BucketInit DEF ShelfInv
  <1>3. TypeOK /\ ShelfInv /\ [Next]_vars => (TypeOK /\ ShelfInv)'
    BY TypeStep, ShelfStep
  <1>4. TypeOK /\ ShelfInv /\ [Next]_vars => [Docs!Next]_Docs!vars
    <2> SUFFICES ASSUME TypeOK, ShelfInv, [Next]_vars
                 PROVE  [Docs!Next]_Docs!vars
      OBVIOUS
    <2>1. ASSUME NEW c \in Users, Use(c) \/ AnswerFetch(c) \/ ShowFetched(c)
                                    \/ RunClosure(c) \/ Kill(c)
          PROVE  UNCHANGED Docs!vars
      BY <2>1 DEF Use, OpenCreate, OpenEdit, TapBucketIt, BucketItPicked, GoBack,
                  CreatePost, EditPost, DeletePost, CreateBucket, DeleteBucket,
                  AnswerFetch, ShowFetched, RunClosure, PostCreated, PostMoved,
                  PostKept, EditRefused, CrashOnNoOldBucket, Kill, server,
                  Docs!vars
    <2>2. CASE UNCHANGED vars
      BY <2>2 DEF vars, Docs!vars
    <2> QED BY <2>1, <2>2, ShelfServe DEF Next
  <1> QED BY <1>1, <1>2, <1>3, <1>4, PTL DEF Spec, Shelved, Docs!Spec
============================================================================
