----------------------------- MODULE Directory -----------------------------
(***************************************************************************)
(* What the documents of conversations promise together: a conversation is *)
(* made once, for those who were picked; its members and the lists that    *)
(* name it are theirs; only they open it and write in it; and its own      *)
(* document is on the server before anything that refers to it.            *)
(***************************************************************************)
EXTENDS Naturals, Sequences

CONSTANTS
  Users,
  Ids,       \* of conversations
  None       \* no conversation is open

VARIABLES
  made,      \* the conversations someone made
  picked,    \* whom each was made for
  sent,      \* the conversation of each message
  convs,     \* on the server: the conversations
  members,   \* on the server: the members of each
  lists,     \* on the server: the conversations each user has
  posted,    \* on the server: the messages
  opened     \* the conversation each user has open

vars == <<made, picked, sent, convs, members, lists, posted, opened>>

Init ==
  /\ convs \in SUBSET Ids
  /\ made = convs
  /\ members = [c \in Ids |-> IF c \in convs THEN Users ELSE {}]
  /\ picked = members
  /\ lists = [u \in Users |-> convs]
  /\ posted = {}
  /\ sent = <<>>
  /\ opened = [u \in Users |-> None]

Make(c, S) ==
  /\ c \notin made
  /\ made' = made \cup {c}
  /\ picked' = [picked EXCEPT ![c] = S]
  /\ UNCHANGED <<sent, convs, members, lists, posted, opened>>

Say(u, c) ==
  /\ u \in picked[c]
  /\ sent' = Append(sent, c)
  /\ UNCHANGED <<made, picked, convs, members, lists, posted, opened>>

Put(c) ==
  /\ c \in made
  /\ convs' = convs \cup {c}
  /\ UNCHANGED <<made, picked, sent, members, lists, posted, opened>>

Join(u, c) ==
  /\ c \in convs /\ u \in picked[c]
  /\ members' = [members EXCEPT ![c] = @ \cup {u}]
  /\ UNCHANGED <<made, picked, sent, convs, lists, posted, opened>>

List(u, c) ==
  /\ c \in convs /\ u \in picked[c]
  /\ lists' = [lists EXCEPT ![u] = @ \cup {c}]
  /\ UNCHANGED <<made, picked, sent, convs, members, posted, opened>>

Publish(m) ==
  /\ sent[m] \in convs
  /\ posted' = posted \cup {m}
  /\ UNCHANGED <<made, picked, sent, convs, members, lists, opened>>

Open(u, c) ==
  /\ c \in made /\ u \in picked[c]
  /\ opened' = [opened EXCEPT ![u] = c]
  /\ UNCHANGED <<made, picked, sent, convs, members, lists, posted>>

Close(u) ==
  /\ opened' = [opened EXCEPT ![u] = None]
  /\ UNCHANGED <<made, picked, sent, convs, members, lists, posted>>

Next ==
  \/ \E c \in Ids : Put(c) \/ \E S \in SUBSET Users : Make(c, S)
  \/ \E c \in Ids : \E u \in Users : Say(u, c) \/ Join(u, c) \/ List(u, c) \/ Open(u, c)
  \/ \E u \in Users : Close(u)
  \/ \E m \in DOMAIN sent : Publish(m)

Spec == Init /\ [][Next]_vars
============================================================================
