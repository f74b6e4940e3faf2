--------------------------- MODULE BucketScreens ---------------------------
(***************************************************************************)
(* The screen with the lists of public and private buckets.                *)
(*                                                                         *)
(* loadData empties the two sections and adds a listener that nobody       *)
(* removes: opening the screen, pulling it down and deleting a bucket each *)
(* add one.  With every change each listener starts a round of requests    *)
(* (see FanOut), and the answer of a round is appended to the sections, in *)
(* so far as they do not hold it yet.  The rows of the table are those of  *)
(* the last reloadData, which runs later, as a block of the main queue.    *)
(***************************************************************************)
EXTENDS Naturals, Sequences, FiniteSets

CONSTANTS
  Buckets,     \* ids of bucket documents (each is drawn once, by UUID())
  Public,      \* the buckets whose isPublic is true: it is never written again
  MaxLoads,    \* bound: times the screen is opened or pulled down
  MaxChanges,  \* bound: changes by others, and swipes
  MaxErrors    \* bound: requests that end with an error

ASSUME PublicAssumption == Public \subseteq Buckets /\ IsFiniteSet(Buckets)

ASSUME BoundsAssumption ==
  MaxLoads \in Nat /\ MaxChanges \in Nat /\ MaxErrors \in Nat

VARIABLES
  docs,       \* the bucket documents this device sees
  gone,       \* the buckets deleted so far
  listeners,  \* how many snapshot listeners there are
  due,        \* how many of them are to be told of the documents
  acks,       \* deletions by swipe whose completion has not come
  main,       \* the main queue
  rounds,     \* the rounds of all listeners, in the order in which they started
  sections,   \* the two arrays
  table,      \* the rows that are shown
  pulled,     \* history: pulled down since the table was last reloaded
  loads,
  changes,
  errors,
  crashed     \* has the app ended with an exception

database == <<docs, gone, listeners, due, acks>>
screen == <<sections, table, pulled>>
bounds == <<loads, changes, errors>>
vars == <<database, main, rounds, screen, bounds, crashed>>

----------------------------------------------------------------------------
Snapshot(S) == [kind |-> "snapshot", ids |-> S]
Outcome(r, b, found) == [kind |-> "outcome", round |-> r, id |-> b, found |-> found]
Notify(r) == [kind |-> "notify", round |-> r]
Deleted == [kind |-> "deleted"]
Reload == [kind |-> "reload"]

Blocks ==
  [kind : {"snapshot"}, ids : SUBSET Buckets]
    \cup [kind : {"outcome"}, round : Nat, id : Buckets, found : BOOLEAN]
    \cup [kind : {"notify"}, round : Nat]
    \cup [kind : {"deleted", "reload"}]

\* open: requests under way; inside: the group has not been left for them; got:
\* the buckets that have come; past: history, those deleted since it started.
Rounds == [open : SUBSET Buckets, inside : SUBSET Buckets, got : Seq(Buckets),
           past : SUBSET Buckets]

Names == {"public", "personal"}

Members(s) == {s[i] : i \in DOMAIN s}

Once(s) == \A i, j \in DOMAIN s : s[i] = s[j] => i = j

Prefix(s, t) == Len(s) <= Len(t) /\ \A i \in DOMAIN s : s[i] = t[i]

OfSection(n) == IF n = "public" THEN Public ELSE Buckets \ Public

NoRows == [n \in Names |-> <<>>]

Turn(kind) == main # <<>> /\ Head(main).kind = kind

Done(blocks) == main' = Tail(main) \o blocks

----------------------------------------------------------------------------
Init ==
  /\ docs \in SUBSET Buckets
  /\ gone = {}
  /\ listeners = 0
  /\ due = 0
  /\ acks = 0
  /\ main = <<>>
  /\ rounds = <<>>
  /\ sections = NoRows
  /\ table = NoRows
  /\ pulled = FALSE
  /\ loads = 0
  /\ changes = 0
  /\ errors = 0
  /\ crashed = FALSE

----------------------------------------------------------------------------
(* The documents and the threads of Firestore.                             *)

\* Fault: the buckets are fetched once, and nobody listens.
NoneHear == due

\* Every listener hears of every change.
AllHear == listeners

\* History: the rounds under way when b was deleted.
MarkPast(b) ==
  rounds' = [r \in DOMAIN rounds |->
               IF rounds[r].inside = {} /\ rounds[r].got = <<>> THEN rounds[r]
                 ELSE [rounds[r] EXCEPT !.past = @ \cup {b}]]

Change ==
  /\ changes < MaxChanges
  /\ changes' = changes + 1
  /\ \/ /\ \E b \in Buckets \ (docs \cup gone) : docs' = docs \cup {b}
        /\ UNCHANGED <<gone, rounds>>
     \/ \E b \in docs : /\ docs' = docs \ {b}
                        /\ gone' = gone \cup {b}
                        /\ MarkPast(b)
  /\ due' = AllHear
  /\ UNCHANGED <<listeners, acks, main, screen, loads, errors, crashed>>

\* The listeners of one query are told together.
Tell ==
  /\ due > 0
  /\ due' = 0
  /\ main' = main \o [i \in 1 .. due |-> Snapshot(docs)]
  /\ UNCHANGED <<docs, gone, listeners, acks, rounds, screen, bounds, crashed>>

\* An error is only printed: the group waits on.
Answer(r, b) ==
  /\ b \in rounds[r].open
  /\ \/ /\ main' = Append(main, Outcome(r, b, b \in docs))
        /\ UNCHANGED errors
     \/ /\ errors < MaxErrors
        /\ errors' = errors + 1
        /\ UNCHANGED main
  /\ rounds' = [rounds EXCEPT ![r].open = @ \ {b}]
  /\ UNCHANGED <<database, screen, loads, changes, crashed>>

AnswerSome == \E r \in DOMAIN rounds : \E b \in Buckets : Answer(r, b)

\* The server takes a deletion, and its completion is put on the main queue.
Acknowledge ==
  /\ acks > 0
  /\ acks' = acks - 1
  /\ main' = Append(main, Deleted)
  /\ UNCHANGED <<docs, gone, listeners, due, rounds, screen, bounds, crashed>>

----------------------------------------------------------------------------
(* The screen.                                                             *)

\* Fault: nothing reloads the table.
NoUpdate == <<>>

\* updateViews: the table is reloaded by a block of its own.
UpdateViews == <<Reload>>

LoadData ==
  /\ sections' = NoRows
  /\ listeners' = listeners + 1
  /\ due' = due + 1
  /\ UNCHANGED <<docs, gone>>

ViewDidLoad ==
  /\ listeners = 0
  /\ loads < MaxLoads
  /\ loads' = loads + 1
  /\ LoadData
  /\ main' = main \o UpdateViews
  /\ UNCHANGED <<acks, rounds, table, pulled, changes, errors, crashed>>

PullDown ==
  /\ listeners > 0
  /\ loads < MaxLoads
  /\ loads' = loads + 1
  /\ LoadData
  /\ main' = main \o UpdateViews
  /\ pulled' = TRUE
  /\ UNCHANGED <<acks, rounds, table, changes, errors, crashed>>

\* The row that is swiped is looked up in the sections of the moment; the
\* document is gone for this device at once.
Swipe(n, i) ==
  /\ i \in DOMAIN table[n]
  /\ i \in DOMAIN sections[n]
  /\ changes < MaxChanges
  /\ changes' = changes + 1
  /\ LET b == sections[n][i]
     IN /\ docs' = docs \ {b}
        /\ gone' = gone \cup {b}
        /\ due' = IF b \in docs THEN AllHear ELSE due
        /\ MarkPast(b)
  /\ acks' = acks + 1
  /\ UNCHANGED <<listeners, main, screen, loads, errors, crashed>>

CrashOnRow(n, i) ==
  /\ i \in DOMAIN table[n] \ DOMAIN sections[n]
  /\ crashed' = TRUE
  /\ UNCHANGED <<database, main, rounds, screen, bounds>>

----------------------------------------------------------------------------
(* Blocks of the main queue.                                               *)

StartRound ==
  /\ Turn("snapshot")
  /\ LET S == Head(main).ids
     IN /\ rounds' = Append(rounds,
                        [open |-> S, inside |-> S, got |-> <<>>, past |-> {}])
        /\ Done(IF S = {} THEN <<Notify(Len(rounds) + 1)>> ELSE <<>>)
  /\ UNCHANGED <<database, screen, bounds, crashed>>

\* Fault: the data of the snapshot is used when there is no document.
FoundAnyway == Head(main).found \in BOOLEAN

Found == Head(main).found

TakeBucket ==
  /\ Turn("outcome")
  /\ Found
  /\ LET r == Head(main).round
         b == Head(main).id
     IN /\ rounds' = [rounds EXCEPT ![r].got = Append(@, b),
                                    ![r].inside = @ \ {b}]
        /\ Done(IF rounds[r].inside = {b} THEN <<Notify(r)>> ELSE <<>>)
  /\ UNCHANGED <<database, screen, bounds, crashed>>

\* document!.data()!
CrashOnMissing ==
  /\ Turn("outcome")
  /\ ~Found
  /\ crashed' = TRUE
  /\ UNCHANGED <<database, main, rounds, screen, bounds>>

\* Fault: every bucket of the answer is appended.
Adds(old, result, n) == Members(result) \cap OfSection(n)

\* Fault: the section is made anew of the answer.
Renewed(old, result, n) ==
  LET new == Members(result) \cap OfSection(n)
  IN {s \in [1 .. Cardinality(new) -> new] :
        /\ Once(s)
        /\ \A i, j \in DOMAIN s : i < j =>
             \E k, l \in DOMAIN result : k < l /\ result[k] = s[i] /\ result[l] = s[j]}

\* The buckets of the answer that a section does not hold yet.
New(old, result, n) == (Members(result) \cap OfSection(n)) \ Members(old)

\* They follow its rows, in the order of the answer.
Extended(old, result, n) ==
  LET new == New(old, result, n)
  IN {old \o s : s \in {t \in [1 .. Cardinality(new) -> new] :
        /\ Once(t)
        /\ \A i, j \in DOMAIN t : i < j =>
             \E k, l \in DOMAIN result : k < l /\ result[k] = t[i] /\ result[l] = t[j]}}

Deliver ==
  /\ Turn("notify")
  /\ LET result == rounds[Head(main).round].got
     IN \E pub \in Extended(sections["public"], result, "public"),
           per \in Extended(sections["personal"], result, "personal") :
          sections' = [n \in Names |-> IF n = "public" THEN pub ELSE per]
  /\ rounds' = [rounds EXCEPT ![Head(main).round].got = <<>>,
                              ![Head(main).round].past = {}]
  /\ Done(UpdateViews)
  /\ UNCHANGED <<database, table, pulled, bounds, crashed>>

\* The completion of a deletion loads everything again.
AfterDelete ==
  /\ Turn("deleted")
  /\ LoadData
  /\ table' = NoRows
  /\ pulled' = FALSE
  /\ Done(UpdateViews)
  /\ UNCHANGED <<acks, rounds, bounds, crashed>>

ReloadData ==
  /\ Turn("reload")
  /\ table' = sections
  /\ pulled' = FALSE
  /\ Done(<<>>)
  /\ UNCHANGED <<database, rounds, sections, bounds, crashed>>

RunBlock ==
  \/ StartRound
  \/ TakeBucket
  \/ CrashOnMissing
  \/ Deliver
  \/ AfterDelete
  \/ ReloadData

Next ==
  /\ ~crashed
  /\ \/ Change
     \/ Tell
     \/ AnswerSome
     \/ Acknowledge
     \/ ViewDidLoad
     \/ PullDown
     \/ \E n \in Names : \E i \in DOMAIN table[n] : Swipe(n, i) \/ CrashOnRow(n, i)
     \/ RunBlock

Spec == Init /\ [][Next]_vars

\* Firestore tells and answers in the end, and the main queue runs.
Fairness ==
  /\ WF_vars(~crashed /\ Tell)
  /\ WF_vars(~crashed /\ AnswerSome)
  /\ WF_vars(~crashed /\ Acknowledge)
  /\ WF_vars(~crashed /\ RunBlock)

FairSpec == Spec /\ Fairness

----------------------------------------------------------------------------
(* Properties.                                                             *)

TypeOK ==
  /\ docs \subseteq Buckets
  /\ gone \subseteq Buckets
  /\ listeners \in Nat
  /\ due \in Nat
  /\ acks \in Nat
  /\ main \in Seq(Blocks)
  /\ rounds \in Seq(Rounds)
  /\ sections \in [Names -> Seq(Buckets)]
  /\ table \in [Names -> Seq(Buckets)]
  /\ pulled \in BOOLEAN
  /\ loads \in Nat
  /\ changes \in Nat
  /\ errors \in Nat
  /\ crashed \in BOOLEAN

\* However many listeners there are and however their rounds overlap, each
\* bucket has at most one row, in the section it belongs to (loadData's contains).
EachOnce ==
  \A n \in Names : Once(sections[n]) /\ Members(sections[n]) \subseteq OfSection(n)

\* Rows that are not those of the sections are about to be reloaded: no answer
\* is left in the sections unseen (the updateViews of loadData and its closure).
RowsCatchUp == table = sections \/ Reload \in Members(main)

\* The row a user swipes is the bucket that is deleted, and there is one, unless
\* the screen was just pulled down (loadData empties what the rows index).
RowIsBucket == pulled \/ \A n \in Names : Prefix(table[n], sections[n])

\* A deleted bucket comes back on the screen only with the answer of a round that
\* was under way when it was deleted (the closure of loadData appends it).
OnlyOldRoundsRevive ==
  [][\A n \in Names : \A b \in Members(sections'[n]) \ Members(sections[n]) :
       b \in docs \/ b \in rounds[Head(main).round].past]_vars

\* Round r goes on: each document it waits for is being fetched or has come, and
\* when it waits for none it is about to give its answer.
UnderWay(r) ==
  /\ \A d \in rounds[r].inside :
       \/ d \in rounds[r].open
       \/ \E m \in Members(main) : m.kind = "outcome" /\ m.round = r /\ m.id = d
  /\ rounds[r].inside = {} => Notify(r) \in Members(main)

\* No bucket is forgotten: on an open screen each one there is is in a section, or
\* it comes with a change that is still to be told, with documents on their way or
\* with a round that goes on; unless a request failed (the closure of loadData).
NoneForgotten ==
  listeners > 0 /\ errors = 0 /\ ~crashed =>
    \A b \in docs :
      \/ \E n \in Names : b \in Members(sections[n])
      \/ due > 0
      \/ \E m \in Members(main) : m.kind = "snapshot" /\ b \in m.ids
      \/ \E r \in DOMAIN rounds :
           b \in rounds[r].inside \cup Members(rounds[r].got) /\ UnderWay(r)

\* On an open screen each bucket there is gets its row in the end, unless it is
\* deleted, a request fails, or a deletion elsewhere has ended the app.
Appears ==
  \A b \in Buckets :
    listeners > 0 /\ b \in docs ~>
      \/ \E n \in Names : b \in Members(table[n])
      \/ b \notin docs \/ errors > 0 \/ crashed
============================================================================
