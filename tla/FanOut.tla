------------------------------- MODULE FanOut -------------------------------
(***************************************************************************)
(* The functions that fetch every document of a collection: fetchBuckets,  *)
(* fetchAllPostsForUser, fetchUsersData and fetchAllPosts.                 *)
(*                                                                         *)
(* Each of them gets the ids of the documents, starts one getDocument for  *)
(* each of them, enters a DispatchGroup as often, and lets the group       *)
(* notify it.  A snapshot listener starts all over with each change of the *)
(* collection, while earlier rounds are still under way.  Everything the   *)
(* app does runs on the main queue, in the order in which it was put there *)
(* by the threads of Firestore, which look at the documents on their own.  *)
(***************************************************************************)
EXTENDS Naturals, Sequences, FiniteSets

CONSTANTS
  Ids,         \* ids of documents
  Calls,       \* calls of the function, by this screen and by others
  Funs,        \* the functions this instance is about
  MaxChanges,  \* bound: changes of the collection
  MaxErrors,   \* bound: requests that end with an error
  NotYet       \* a round that has not been answered

Listeners == {"fetchBuckets", "fetchAllPostsForUser", "fetchAllPosts"}

ASSUME FunsAssumption == Funs \subseteq Listeners \cup {"fetchUsersData"}

ASSUME BoundsAssumption == MaxChanges \in Nat /\ MaxErrors \in Nat

VARIABLES
  fun,      \* the function that is called
  docs,     \* the documents of the collection
  due,      \* per call: is it "idle", "due" to hear of the documents, or "told"
  main,     \* the main queue
  rounds,   \* the rounds of all calls, in the order in which they started
  changes,  \* changes so far
  errors,   \* errors so far
  crashed   \* has the app ended with an exception

vars == <<fun, docs, due, main, rounds, changes, errors, crashed>>

----------------------------------------------------------------------------
(* Blocks of the main queue, and rounds.                                   *)

Snapshot(S) == [kind |-> "snapshot", ids |-> S]

\* What a getDocument came to: "found", "missing" or "error".
Outcome(r, d, result) ==
  [kind |-> "outcome", round |-> r, id |-> d, result |-> result]

Notify(r) == [kind |-> "notify", round |-> r]

Blocks == {Snapshot(S) : S \in SUBSET Ids}
          \cup {Outcome(r, d, result) : r \in Nat, d \in Ids,
                                        result \in {"found", "missing", "error"}}
          \cup {Notify(r) : r \in Nat}

Entries == [id : Ids, found : BOOLEAN]

\* ids: asked for; open: with a getDocument under way; inside: the group has not
\* been left for them; failed: their getDocument came to nothing; got: the
\* array, as far as it has come; answer: the array when the group notified.
Rounds == [ids : SUBSET Ids, open : SUBSET Ids, inside : SUBSET Ids,
           failed : SUBSET Ids, got : Seq(Entries),
           answer : Seq(Entries) \cup {NotYet}]

ASSUME NotYetAssumption == NotYet \notin Seq(Entries)

Enqueue(blocks) == main' = main \o blocks

Done(blocks) == main' = Tail(main) \o blocks

----------------------------------------------------------------------------
Init ==
  /\ fun \in Funs
  /\ docs \in SUBSET Ids
  /\ due = [k \in Calls |-> "idle"]
  /\ main = <<>>
  /\ rounds = <<>>
  /\ changes = 0
  /\ errors = 0
  /\ crashed = FALSE

----------------------------------------------------------------------------
(* The collection, and the threads of Firestore.                           *)

\* A document comes, goes or gets other contents; every listener hears of it.
Change ==
  /\ changes < MaxChanges
  /\ changes' = changes + 1
  /\ \/ \E d \in Ids : docs' \in {docs \cup {d}, docs \ {d}}
     \/ UNCHANGED docs
  /\ due' = [k \in Calls |-> IF due[k] = "told" THEN "due" ELSE due[k]]
  /\ UNCHANGED <<fun, main, rounds, errors, crashed>>

Call(k) ==
  /\ due[k] = "idle"
  /\ due' = [due EXCEPT ![k] = "due"]
  /\ UNCHANGED <<fun, docs, main, rounds, changes, errors, crashed>>

\* A listener is told of the documents there are.  fetchUsersData asks once, and
\* then for the ids it was given, whether there are such documents or not.
Tell(k) ==
  /\ due[k] = "due"
  /\ \/ fun \in Listeners /\ due' = [due EXCEPT ![k] = "told"]
                          /\ Enqueue(<<Snapshot(docs)>>)
     \/ /\ fun \notin Listeners
        /\ due' = [due EXCEPT ![k] = "answered"]
        /\ \E S \in SUBSET Ids : Enqueue(<<Snapshot(S)>>)
  /\ UNCHANGED <<fun, docs, rounds, changes, errors, crashed>>

\* A missing user document makes fetchUserData return without calling back.
Answer(r, d) ==
  /\ d \in rounds[r].open
  /\ \E result \in {"found", "missing", "error"} :
       /\ result # "error" => (result = "found" <=> d \in docs)
       /\ result = "error" => errors < MaxErrors
       /\ errors' = IF result = "error" THEN errors + 1 ELSE errors
       /\ Enqueue(<<Outcome(r, d, result)>>)
       /\ rounds' = [rounds EXCEPT
            ![r].open = @ \ {d},
            ![r].failed = IF \/ result = "error"
                             \/ result = "missing" /\ fun = "fetchUsersData"
                            THEN @ \cup {d} ELSE @]
  /\ UNCHANGED <<fun, docs, due, changes, crashed>>

----------------------------------------------------------------------------
(* The main queue.                                                         *)

\* Fault: the group is left in the loop, not in the callback.
WaitsForNone(S) == {}

\* The ids for which the loop leaves the group to the callback: fetchAllPosts
\* leaves it itself, right away.
WaitsFor(S) == IF fun = "fetchAllPosts" THEN {} ELSE S

StartRound ==
  /\ main # <<>>
  /\ Head(main).kind = "snapshot"
  /\ LET S == Head(main).ids
     IN /\ rounds' = Append(rounds,
             [ids |-> S, open |-> S, inside |-> WaitsFor(S), failed |-> {},
              got |-> <<>>, answer |-> NotYet])
        /\ Done(IF WaitsFor(S) = {} THEN <<Notify(Len(rounds) + 1)>> ELSE <<>>)
  /\ UNCHANGED <<fun, docs, due, changes, errors, crashed>>

\* Fault: an empty document does not call back.
CallsBackIfFound(result) == result = "found"

\* fetchPost makes an empty post of a missing document.
CallsBack(result) ==
  \/ result = "found"
  \/ result = "missing" /\ fun \in {"fetchAllPostsForUser", "fetchAllPosts"}

\* The callback appends the entry and leaves the group; the last one to leave
\* makes it notify.
TakeEntry ==
  /\ main # <<>>
  /\ Head(main).kind = "outcome"
  /\ CallsBack(Head(main).result)
  /\ LET r == Head(main).round
         d == Head(main).id
     IN /\ rounds' = [rounds EXCEPT
             ![r].got = Append(@, [id |-> d, found |-> Head(main).result = "found"]),
             ![r].inside = @ \ {d}]
        /\ Done(IF rounds[r].inside = {d} THEN <<Notify(r)>> ELSE <<>>)
  /\ UNCHANGED <<fun, docs, due, changes, errors, crashed>>

\* An error is printed; a missing user is passed over.  The group waits on.
TakeNothing ==
  /\ main # <<>>
  /\ Head(main).kind = "outcome"
  /\ ~CallsBack(Head(main).result)
  /\ Head(main).result = "missing" => fun # "fetchBuckets"
  /\ Done(<<>>)
  /\ UNCHANGED <<fun, docs, due, rounds, changes, errors, crashed>>

\* document!.data()! of a missing bucket.
CrashOnMissing ==
  /\ main # <<>>
  /\ Head(main).kind = "outcome"
  /\ Head(main).result = "missing"
  /\ fun = "fetchBuckets"
  /\ main' = <<>>
  /\ crashed' = TRUE
  /\ UNCHANGED <<fun, docs, due, rounds, changes, errors>>

\* The completion gets the array as it is now.
Deliver ==
  /\ main # <<>>
  /\ Head(main).kind = "notify"
  /\ LET r == Head(main).round
     IN rounds' = [rounds EXCEPT ![r].answer = rounds[r].got]
  /\ Done(<<>>)
  /\ UNCHANGED <<fun, docs, due, changes, errors, crashed>>

RunBlock ==
  \/ StartRound
  \/ TakeEntry
  \/ TakeNothing
  \/ CrashOnMissing
  \/ Deliver

AnswerSome == \E r \in DOMAIN rounds : \E d \in Ids : Answer(r, d)

Next ==
  /\ ~crashed
  /\ \/ Change
     \/ \E k \in Calls : Call(k) \/ Tell(k)
     \/ AnswerSome
     \/ RunBlock

Spec == Init /\ [][Next]_vars

\* Firestore answers every request in the end, and the main queue runs.
Fairness == WF_vars(~crashed /\ AnswerSome) /\ WF_vars(~crashed /\ RunBlock)

FairSpec == Spec /\ Fairness

----------------------------------------------------------------------------
(* Properties.                                                             *)

TypeOK ==
  /\ fun \in Funs
  /\ docs \subseteq Ids
  /\ due \in [Calls -> {"idle", "due", "told", "answered"}]
  /\ main \in Seq(Blocks)
  /\ rounds \in Seq(Rounds)
  /\ changes \in Nat
  /\ errors \in Nat
  /\ crashed \in BOOLEAN

G == INSTANCE Gather WITH
       asked <- [r \in DOMAIN rounds |-> rounds[r].ids],
       answer <- [r \in DOMAIN rounds |-> rounds[r].answer]

\* Each round is answered at most once, with one entry for each document it was
\* started for, however the rounds and their requests overlap (the group of
\* fetchBuckets, fetchAllPostsForUser and fetchUsersData, left in the callback).
Gathers == G!Spec

\* The callback of a getDocument for d in round r is on its way: the outcome that
\* is on the main queue leaves the group, or ends the app (fetchBucket).
CallbackComing(r, d) ==
  \E i \in DOMAIN main :
    /\ main[i].kind = "outcome" /\ main[i].round = r /\ main[i].id = d
    /\ \/ CallsBack(main[i].result)
       \/ main[i].result = "missing" /\ fun = "fetchBuckets"

\* No group waits for nothing: the documents it has still to be left for are being
\* fetched, have failed, or their callback is on its way; a group that has been
\* left for all of them has notified, or is about to.
NoneHangs ==
  \/ crashed
  \/ \A r \in DOMAIN rounds :
       /\ \A d \in rounds[r].inside :
            d \in rounds[r].open \cup rounds[r].failed \/ CallbackComing(r, d)
       /\ rounds[r].inside = {} =>
            rounds[r].answer # NotYet \/ \E i \in DOMAIN main : main[i] = Notify(r)

\* A round none of whose requests fails is answered in the end, unless a bucket
\* deleted meanwhile has ended the app.
EachAnswered ==
  \A r \in 1 .. Cardinality(Calls) * (MaxChanges + 1) :
    r \in DOMAIN rounds ~>
      \/ crashed
      \/ r \in DOMAIN rounds /\ (rounds[r].answer # NotYet \/ rounds[r].failed # {})

\* What the heading of fetchAllPosts says: its completion gets all posts there
\* were when it was told of them.
FetchesAll ==
  \A r \in DOMAIN rounds :
    rounds[r].answer # NotYet => G!Whole(rounds[r].answer, rounds[r].ids)
============================================================================
