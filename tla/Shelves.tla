------------------------------ MODULE Shelves ------------------------------
(***************************************************************************)
(* What the documents of posts and buckets promise together: a post is in  *)
(* one place at a time; a bucket is opened once, lists nothing but posts   *)
(* that were put there while it is open, and is closed for good; comments  *)
(* are kept for nothing but posts there have been.  Nothing is said of the *)
(* devices: whatever they send, and in whatever order it comes.            *)
(***************************************************************************)
CONSTANTS
  Posts,     \* ids of posts
  Buckets,   \* ids of buckets
  Places,    \* where a post may be: a bucket, or none
  Nowhere,   \* the place of a post for which no bucket was picked
  NoPost     \* there is no such post

VARIABLES
  place,     \* the place of each post, or NoPost
  status,    \* is a bucket "unborn", "live" or "dead"
  shelf,     \* the posts each bucket lists
  talked,    \* the posts comments are kept for
  filed      \* history: the <<post, place>> pairs there have been

vars == <<place, status, shelf, talked, filed>>

Been(p) == \E b \in Places : <<p, b>> \in filed

Init ==
  /\ place \in [Posts -> {NoPost, Nowhere}]
  /\ status \in [Buckets -> {"unborn", "live"}]
  /\ shelf = [b \in Buckets |-> {}]
  /\ talked = {p \in Posts : place[p] # NoPost}
  /\ filed = {<<p, Nowhere>> : p \in talked}

File(p, b) ==
  /\ place' = [place EXCEPT ![p] = b]
  /\ filed' = filed \cup {<<p, b>>}
  /\ UNCHANGED <<status, shelf, talked>>

Remove(p) ==
  /\ place' = [place EXCEPT ![p] = NoPost]
  /\ UNCHANGED <<status, shelf, talked, filed>>

Discuss(p) ==
  /\ Been(p)
  /\ talked' = talked \cup {p}
  /\ UNCHANGED <<place, status, shelf, filed>>

Open(b) ==
  /\ status[b] = "unborn"
  /\ status' = [status EXCEPT ![b] = "live"]
  /\ UNCHANGED <<place, shelf, talked, filed>>

List(p, b) ==
  /\ status[b] = "live"
  /\ <<p, b>> \in filed
  /\ shelf' = [shelf EXCEPT ![b] = @ \cup {p}]
  /\ UNCHANGED <<place, status, talked, filed>>

Close(b) ==
  /\ status[b] # "unborn"
  /\ status' = [status EXCEPT ![b] = "dead"]
  /\ shelf' = [shelf EXCEPT ![b] = {}]
  /\ UNCHANGED <<place, talked, filed>>

Next ==
  \/ \E p \in Posts : Remove(p) \/ Discuss(p) \/ \E b \in Places : File(p, b)
  \/ \E b \in Buckets : Open(b) \/ Close(b) \/ \E p \in Posts : List(p, b)

Spec == Init /\ [][Next]_vars
============================================================================
