------------------------------- MODULE Gather -------------------------------
(***************************************************************************)
(* What a function that fetches a set of documents promises to the screen  *)
(* that calls it: each request is answered at most once, with exactly one  *)
(* entry for each document that was asked for, in any order.               *)
(***************************************************************************)
EXTENDS Naturals, Sequences

CONSTANTS
  Ids,     \* the documents there may be
  NotYet   \* a request has no answer yet

VARIABLES
  asked,   \* the set of documents each request is for
  answer   \* the entries each request was answered with, or NotYet

vars == <<asked, answer>>

Entries == [id : Ids, found : BOOLEAN]

\* One entry for each document of S, and no other.
Whole(s, S) ==
  /\ \A i \in DOMAIN s : s[i].id \in S
  /\ \A d \in S : \E i \in DOMAIN s : s[i].id = d
  /\ \A i, j \in DOMAIN s : s[i].id = s[j].id => i = j

Init ==
  /\ asked = <<>>
  /\ answer = <<>>

Ask(S) ==
  /\ asked' = Append(asked, S)
  /\ answer' = Append(answer, NotYet)

Answer(r) ==
  /\ answer[r] = NotYet
  /\ answer' \in [DOMAIN answer -> Seq(Entries) \cup {NotYet}]
  /\ \A q \in DOMAIN answer : q # r => answer'[q] = answer[q]
  /\ answer'[r] # NotYet
  /\ Whole(answer'[r], asked[r])
  /\ UNCHANGED asked

Next ==
  \/ \E S \in SUBSET Ids : Ask(S)
  \/ \E r \in DOMAIN asked : Answer(r)

Spec == Init /\ [][Next]_vars
============================================================================
