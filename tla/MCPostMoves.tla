----------------------------- MODULE MCPostMoves -----------------------------
(* PostBuckets with a history of the moves editPost makes, on small instances. *)
EXTENDS MCPostBuckets

\* history: the <<post, bucket>> such that editPost has asked to take the post out of
\* this bucket, which listed it, into another one, both of them live; until the post is
\* created anew, or someone has it listed there again.
VARIABLE moved

varsM == <<vars, moved>>

MovedOut(c, p, b) ==
  /\ PostMoved(c)
  /\ LET w == Head(acks[c]).write
     IN /\ w.post = p /\ w.old = b
        /\ p \in postsIDs[b] /\ status[b] = "live"
        /\ w.bucket \in Buckets /\ status[w.bucket] = "live"

PutBack(c, p, b) ==
  \/ ApplySetPost(c) /\ Head(queue[c]).post = p
  \/ ApplyAddToBucket(c) /\ Head(queue[c]).post = p /\ Head(queue[c]).bucket = b

InitM == Init /\ moved = {}

NextM ==
  /\ Next
  /\ LET Of(A(_, _, _)) == {m \in Users \X Buckets : \E c \in Users : A(c, m[1], m[2])}
     IN moved' = (moved \cup Of(MovedOut)) \ Of(PutBack)

SpecM == InitM /\ [][NextM]_varsM

\* What the comment in editPost says, "Remove postID from old Bucket post array": once a
\* post has been moved from one live bucket to another and nothing is under way, the old
\* bucket does not list it, unless it was created anew or listed there again.
OldBucketForgets ==
  (\A c \in Users : queue[c] = <<>> /\ acks[c] = <<>>) =>
    \A m \in moved : m[1] \notin postsIDs[m[2]]
============================================================================
