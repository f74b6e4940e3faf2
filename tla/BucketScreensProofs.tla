------------------------ MODULE BucketScreensProofs ------------------------
(* Proofs about BucketScreens, for any buckets and any bounds. *)
EXTENDS BucketScreens, FiniteSetTheorems, TLAPS

----------------------------------------------------------------------------
(* The inductive invariant.                                                *)

\* Before the screen is opened nothing of it is under way.
Fresh ==
  listeners = 0 => /\ due = 0 /\ acks = 0
                   /\ main = <<>> /\ rounds = <<>>
                   /\ sections = NoRows /\ table = NoRows

IInv ==
  /\ TypeOK
  /\ Fresh
  /\ EachOnce
  /\ RowsCatchUp
  /\ RowIsBucket

\* A bucket that a round has seen, and that is deleted since, is in its past.
Kept(b, round) == b \in docs \/ b \in round.past

\* Two outcomes of one request.
Same(x, y) ==
  x.kind = "outcome" /\ y.kind = "outcome" /\ x.round = y.round /\ x.id = y.id

Distinct(s) == \A i, j \in DOMAIN s : Same(s[i], s[j]) => i = j

RoundSound(round) ==
  /\ round.open \subseteq round.inside
  /\ \A b \in Members(round.got) : Kept(b, round)

BlockSound(m) ==
  /\ m.kind = "outcome" =>
       /\ m.round \in DOMAIN rounds
       /\ m.id \in rounds[m.round].inside \ rounds[m.round].open
       /\ m.found => Kept(m.id, rounds[m.round])
  /\ m.kind = "notify" =>
       m.round \in DOMAIN rounds /\ rounds[m.round].inside = {}

\* What is known of the rounds and of the outcomes on the main queue.
RInv ==
  /\ \A r \in DOMAIN rounds : RoundSound(rounds[r])
  /\ \A m \in Members(main) : BlockSound(m)
  /\ Distinct(main)

----------------------------------------------------------------------------
(* Sequences and what is in them.                                          *)

LEMMA CatMembers ==
  ASSUME NEW S, NEW s \in Seq(S), NEW t \in Seq(S)
  PROVE  /\ s \o t \in Seq(S)
         /\ Members(s \o t) = Members(s) \cup Members(t)
<1>1. /\ s \o t \in Seq(S) /\ Len(s \o t) = Len(s) + Len(t)
      /\ DOMAIN (s \o t) = 1 .. Len(s) + Len(t)
      /\ DOMAIN s = 1 .. Len(s) /\ DOMAIN t = 1 .. Len(t)
      /\ Len(s) \in Nat /\ Len(t) \in Nat
  OBVIOUS
<1>2. \A i \in 1 .. Len(s) : i \in DOMAIN (s \o t) /\ (s \o t)[i] = s[i]
  BY <1>1
<1>3. \A i \in 1 .. Len(t) : Len(s) + i \in DOMAIN (s \o t) /\ (s \o t)[Len(s) + i] = t[i]
  BY <1>1
<1>4. ASSUME NEW i \in DOMAIN (s \o t)
      PROVE  (s \o t)[i] \in Members(s) \cup Members(t)
  <2>1. CASE i <= Len(s)
    BY <1>1, <1>2, <2>1 DEF Members
  <2>2. CASE i > Len(s)
    <3>1. i - Len(s) \in 1 .. Len(t) /\ i = Len(s) + (i - Len(s))
      BY <1>1, <2>2
    <3>. QED  BY <1>1, <1>3, <3>1 DEF Members
  <2>. QED  BY <1>1, <2>1, <2>2
<1>5. Members(s) \subseteq Members(s \o t)
  BY <1>1, <1>2 DEF Members
<1>6. Members(t) \subseteq Members(s \o t)
  BY <1>1, <1>3 DEF Members
<1>7. Members(s \o t) \subseteq Members(s) \cup Members(t)
  BY <1>4 DEF Members
<1>. QED  BY <1>1, <1>5, <1>6, <1>7

LEMMA OneMember ==
  ASSUME NEW S, NEW x \in S
  PROVE  <<x>> \in Seq(S) /\ Members(<<x>>) = {x}
<1>1. <<x>> \in Seq(S) /\ DOMAIN <<x>> = {1} /\ <<x>>[1] = x
  OBVIOUS
<1>. QED  BY <1>1 DEF Members

LEMMA NoMembers ==
  ASSUME NEW S
  PROVE  <<>> \in Seq(S) /\ Members(<<>>) = {}
  BY DEF Members

LEMMA TailMembers ==
  ASSUME NEW S, NEW s \in Seq(S), s # <<>>
  PROVE  /\ Tail(s) \in Seq(S) /\ Head(s) \in S
         /\ Members(s) = {Head(s)} \cup Members(Tail(s))
<1>1. /\ Tail(s) \in Seq(S) /\ Head(s) \in S /\ Head(s) = s[1] /\ 1 \in DOMAIN s
      /\ Len(s) \in Nat \ {0} /\ DOMAIN s = 1 .. Len(s)
      /\ DOMAIN Tail(s) = 1 .. Len(s) - 1
      /\ \A i \in 1 .. Len(s) - 1 : Tail(s)[i] = s[i + 1]
  OBVIOUS
<1>2. ASSUME NEW i \in 1 .. Len(s), i # 1
      PROVE  i - 1 \in 1 .. Len(s) - 1 /\ s[i] = Tail(s)[i - 1]
  <2>1. i - 1 \in 1 .. Len(s) - 1 /\ (i - 1) + 1 = i
    BY <1>1, <1>2
  <2>. QED  BY <1>1, <2>1
<1>3. \A i \in 1 .. Len(s) - 1 : i + 1 \in 1 .. Len(s)
  BY <1>1
<1>4. Members(s) \subseteq {Head(s)} \cup Members(Tail(s))
  <2>1. ASSUME NEW i \in DOMAIN s  PROVE s[i] \in {Head(s)} \cup Members(Tail(s))
    BY <1>1, <1>2 DEF Members
  <2>. QED  BY <2>1 DEF Members
<1>5. {Head(s)} \cup Members(Tail(s)) \subseteq Members(s)
  BY <1>1, <1>3 DEF Members
<1>. QED  BY <1>1, <1>4, <1>5

\* Appending elements that are new keeps each element once, and the old rows.
LEMMA Extending ==
  ASSUME NEW old \in Seq(Buckets), NEW n \in Names, NEW result,
         NEW s \in Extended(old, result, n),
         Once(old), Members(old) \subseteq OfSection(n)
  PROVE  /\ s \in Seq(Buckets) /\ Once(s) /\ Prefix(old, s)
         /\ Members(s) \subseteq OfSection(n)
         /\ Members(s) \ Members(old) \subseteq Members(result)
<1>. DEFINE new == New(old, result, n)
<1>1. /\ new \subseteq OfSection(n) /\ new \cap Members(old) = {} /\ new \subseteq Members(result)
      /\ new \subseteq Buckets
  BY PublicAssumption DEF New, OfSection
<1>2. Cardinality(new) \in Nat
  BY <1>1, PublicAssumption, FS_Subset, FS_CardinalityType
<1>3. PICK t \in [1 .. Cardinality(new) -> new] : Once(t) /\ s = old \o t
  BY DEF Extended
<1>. HIDE DEF new
<1>4. t \in Seq(Buckets) /\ DOMAIN t = 1 .. Len(t) /\ Members(t) \subseteq new
  BY <1>1, <1>2 DEF Members
<1>5. s \in Seq(Buckets) /\ Members(s) = Members(old) \cup Members(t)
  BY <1>3, <1>4, CatMembers
<1>6. /\ Len(old) \in Nat /\ Len(t) \in Nat /\ Len(s) = Len(old) + Len(t)
      /\ DOMAIN old = 1 .. Len(old) /\ DOMAIN s = 1 .. Len(old) + Len(t)
      /\ \A i \in 1 .. Len(old) : s[i] = old[i]
      /\ \A i \in Len(old) + 1 .. Len(old) + Len(t) : s[i] = t[i - Len(old)]
  BY <1>3, <1>4
<1>7. Prefix(old, s)
  BY <1>6 DEF Prefix
<1>8. ASSUME NEW i \in DOMAIN s, NEW j \in DOMAIN s, s[i] = s[j]
      PROVE  i = j
  <2>1. CASE i <= Len(old) /\ j <= Len(old)
    BY <1>6, <1>8, <2>1 DEF Once
  <2>2. CASE i > Len(old) /\ j > Len(old)
    <3>1. /\ i - Len(old) \in DOMAIN t /\ j - Len(old) \in DOMAIN t
          /\ t[i - Len(old)] = t[j - Len(old)]
      BY <1>4, <1>6, <1>8, <2>2
    <3>2. i - Len(old) = j - Len(old)
      BY <1>3, <3>1 DEF Once
    <3>. QED  BY <1>6, <3>2
  <2>3. \A k \in DOMAIN s : k <= Len(old) => s[k] \in Members(old)
    BY <1>6 DEF Members
  <2>4. \A k \in DOMAIN s : k > Len(old) => s[k] \in new
    <3>1. TAKE k \in DOMAIN s
    <3>2. HAVE k > Len(old)
    <3>3. k - Len(old) \in DOMAIN t /\ s[k] = t[k - Len(old)]
      BY <1>4, <1>6, <3>2
    <3>. QED  BY <1>4, <3>3 DEF Members
  <2>5. ~(i <= Len(old) /\ j > Len(old)) /\ ~(i > Len(old) /\ j <= Len(old))
    BY <1>1, <1>8, <2>3, <2>4
  <2>. QED  BY <1>6, <2>1, <2>2, <2>5
<1>. QED  BY <1>1, <1>4, <1>5, <1>7, <1>8 DEF Once

----------------------------------------------------------------------------
(* The main queue and the rounds.                                          *)

LEMMA QueueFacts ==
  ASSUME TypeOK, main # <<>>, NEW blocks \in Seq(Blocks), Done(blocks)
  PROVE  /\ main' \in Seq(Blocks) /\ Head(main) \in Blocks
         /\ Members(main) = {Head(main)} \cup Members(Tail(main))
         /\ Members(main') = Members(Tail(main)) \cup Members(blocks)
<1>1. main \in Seq(Blocks)
  BY DEF TypeOK
<1>2. /\ Tail(main) \in Seq(Blocks) /\ Head(main) \in Blocks
      /\ Members(main) = {Head(main)} \cup Members(Tail(main))
  BY <1>1, TailMembers
<1>3. /\ Tail(main) \o blocks \in Seq(Blocks)
      /\ Members(Tail(main) \o blocks) = Members(Tail(main)) \cup Members(blocks)
  <2>1. \A t \in Seq(Blocks) : /\ t \o blocks \in Seq(Blocks)
                             /\ Members(t \o blocks) = Members(t) \cup Members(blocks)
    BY CatMembers
  <2>. QED  BY <1>2, <2>1
<1>4. main' = Tail(main) \o blocks
  BY DEF Done
<1>. QED  BY <1>2, <1>3, <1>4

LEMMA GrowFacts ==
  ASSUME TypeOK, NEW blocks \in Seq(Blocks), main' = main \o blocks
  PROVE  /\ main' \in Seq(Blocks)
         /\ Members(main') = Members(main) \cup Members(blocks)
  BY CatMembers DEF TypeOK

LEMMA ReloadBlock ==
  /\ UpdateViews \in Seq(Blocks) /\ Members(UpdateViews) = {Reload}
  /\ Reload.kind = "reload"
<1>1. Reload \in Blocks /\ Reload.kind = "reload"
  BY DEF Reload, Blocks
<1>. QED  BY <1>1, OneMember DEF UpdateViews

\* A round for each round there was.
LEMMA SameRounds ==
  ASSUME TypeOK, DOMAIN rounds' = DOMAIN rounds, rounds' = [r \in DOMAIN rounds' |-> rounds'[r]],
         \A r \in DOMAIN rounds : rounds'[r] \in Rounds
  PROVE  rounds' \in Seq(Rounds) /\ Len(rounds') = Len(rounds)
<1>1. Len(rounds) \in Nat /\ DOMAIN rounds = 1 .. Len(rounds)
  BY DEF TypeOK
<1>2. rounds' \in [1 .. Len(rounds) -> Rounds]
  BY <1>1
<1>3. \A f \in [1 .. Len(rounds) -> Rounds] : f \in Seq(Rounds) /\ Len(f) = Len(rounds)
  <2>1. ASSUME NEW n \in Nat, NEW f \in [1 .. n -> Rounds]
        PROVE  f \in Seq(Rounds) /\ Len(f) = n
    OBVIOUS
  <2>. QED  BY <1>1, <2>1
<1>. QED  BY <1>2, <1>3

LEMMA RoundFields ==
  ASSUME TypeOK, NEW r \in DOMAIN rounds
  PROVE  /\ rounds[r] \in Rounds
         /\ rounds[r].open \in SUBSET Buckets /\ rounds[r].inside \in SUBSET Buckets
         /\ rounds[r].got \in Seq(Buckets) /\ rounds[r].past \in SUBSET Buckets
<1>1. rounds[r] \in Rounds
  BY DEF TypeOK
<1>. QED  BY <1>1 DEF Rounds

\* What a deletion of b leaves of the rounds.
LEMMA PastFacts ==
  ASSUME TypeOK, NEW b \in Buckets, MarkPast(b)
  PROVE  /\ rounds' \in Seq(Rounds) /\ DOMAIN rounds' = DOMAIN rounds
         /\ \A r \in DOMAIN rounds :
              /\ rounds'[r].open = rounds[r].open /\ rounds'[r].inside = rounds[r].inside
              /\ rounds'[r].got = rounds[r].got
              /\ rounds[r].past \subseteq rounds'[r].past
              /\ rounds[r].inside # {} \/ rounds[r].got # <<>> => b \in rounds'[r].past
<1>1. /\ DOMAIN rounds' = DOMAIN rounds
      /\ rounds' = [r \in DOMAIN rounds' |-> rounds'[r]]
      /\ \A r \in DOMAIN rounds : rounds'[r] =
           IF rounds[r].inside = {} /\ rounds[r].got = <<>> THEN rounds[r]
             ELSE [rounds[r] EXCEPT !.past = @ \cup {b}]
  BY DEF MarkPast
<1>2. ASSUME NEW r \in DOMAIN rounds
      PROVE  /\ rounds'[r] \in Rounds
             /\ rounds'[r].open = rounds[r].open /\ rounds'[r].inside = rounds[r].inside
             /\ rounds'[r].got = rounds[r].got
             /\ rounds[r].past \subseteq rounds'[r].past
             /\ rounds[r].inside # {} \/ rounds[r].got # <<>> => b \in rounds'[r].past
  <2>1. rounds[r] \in Rounds /\ rounds[r].past \in SUBSET Buckets
    BY RoundFields
  <2>2. CASE rounds[r].inside = {} /\ rounds[r].got = <<>>
    BY <1>1, <2>1, <2>2
  <2>3. CASE ~(rounds[r].inside = {} /\ rounds[r].got = <<>>)
    <3>1. rounds'[r] = [rounds[r] EXCEPT !.past = rounds[r].past \cup {b}]
      BY <1>1, <2>3
    <3>. QED  BY <2>1, <3>1 DEF Rounds
  <2>. QED  BY <2>2, <2>3
<1>3. rounds' \in Seq(Rounds)
  BY <1>1, <1>2, SameRounds
<1>. QED  BY <1>1, <1>2, <1>3

----------------------------------------------------------------------------
(* Each action keeps the first invariant.                                  *)

LEMMA NoRowsFacts ==
  /\ NoRows \in [Names -> Seq(Buckets)]
  /\ \A n \in Names : /\ NoRows[n] = <<>> /\ Once(NoRows[n]) /\ Members(NoRows[n]) = {}
                      /\ \A s \in Seq(Buckets) : Prefix(NoRows[n], s)
<1>1. <<>> \in Seq(Buckets) /\ Len(<<>>) = 0 /\ DOMAIN <<>> = {}
  OBVIOUS
<1>. QED  BY <1>1 DEF NoRows, Once, Members, Prefix

LEMMA InitInv == Init => IInv /\ RInv
<1>. SUFFICES ASSUME Init  PROVE IInv /\ RInv
  OBVIOUS
<1>. USE DEF Init
<1>1. main \in Seq(Blocks) /\ DOMAIN main = {} /\ Members(main) = {}
  BY DEF Members
<1>2. rounds \in Seq(Rounds) /\ DOMAIN rounds = {}
  OBVIOUS
<1>3. TypeOK
  BY <1>1, <1>2, NoRowsFacts DEF TypeOK
<1>4. Fresh /\ EachOnce /\ RowsCatchUp /\ RowIsBucket
  BY NoRowsFacts DEF Fresh, EachOnce, RowsCatchUp, RowIsBucket, Names
<1>5. RInv
  BY <1>1, <1>2 DEF RInv, Distinct
<1>. QED  BY <1>3, <1>4, <1>5 DEF IInv

\* What happens to the documents leaves the screen alone.
LEMMA OffScreen ==
  ASSUME IInv, UNCHANGED <<sections, table, pulled>>, main' \in Seq(Blocks),
         Reload \in Members(main) => Reload \in Members(main'), TypeOK',
         listeners' = listeners,
         listeners = 0 => due' = 0 /\ acks' = 0 /\ main' = <<>> /\ rounds' = <<>>
  PROVE  IInv'
<1>1. Fresh'
  BY DEF Fresh, IInv
<1>2. EachOnce' /\ RowsCatchUp' /\ RowIsBucket'
  BY DEF EachOnce, RowsCatchUp, RowIsBucket, IInv
<1>. QED  BY <1>1, <1>2 DEF IInv

LEMMA ChangeInv ==
  ASSUME IInv, Change
  PROVE  IInv'
<1>. USE DEF IInv
<1>1. /\ main' = main /\ sections' = sections /\ table' = table /\ pulled' = pulled
      /\ listeners' = listeners /\ acks' = acks /\ due' = listeners
      /\ loads' = loads /\ errors' = errors /\ crashed' = crashed /\ changes' = changes + 1
  BY DEF Change, screen, AllHear
<1>2. /\ docs' \in SUBSET Buckets /\ gone' \in SUBSET Buckets
      /\ rounds' \in Seq(Rounds) /\ (rounds = <<>> => rounds' = <<>>)
  <2>1. CASE /\ \E b \in Buckets \ (docs \cup gone) : docs' = docs \cup {b}
             /\ UNCHANGED <<gone, rounds>>
    BY <2>1 DEF TypeOK
  <2>2. CASE \E b \in docs : docs' = docs \ {b} /\ gone' = gone \cup {b} /\ MarkPast(b)
    <3>1. PICK b \in docs : docs' = docs \ {b} /\ gone' = gone \cup {b} /\ MarkPast(b)
      BY <2>2
    <3>2. b \in Buckets /\ docs \in SUBSET Buckets /\ gone \in SUBSET Buckets
      BY DEF TypeOK
    <3>3. rounds' \in Seq(Rounds) /\ DOMAIN rounds' = DOMAIN rounds
      BY <3>1, <3>2, PastFacts
    <3>4. rounds = <<>> => rounds' = <<>>
      BY <3>3
    <3>. QED  BY <3>1, <3>2, <3>3, <3>4
  <2>. QED  BY <2>1, <2>2 DEF Change
<1>3. TypeOK'
  BY <1>1, <1>2 DEF TypeOK
<1>4. main' \in Seq(Blocks) /\ Members(main) \subseteq Members(main')
  BY <1>1 DEF TypeOK
<1>. QED  BY <1>1, <1>2, <1>3, <1>4, OffScreen DEF Fresh

LEMMA TellInv ==
  ASSUME IInv, Tell
  PROVE  IInv'
<1>. USE DEF IInv
<1>. DEFINE blocks == [i \in 1 .. due |-> Snapshot(docs)]
<1>1. blocks \in Seq(Blocks)
  <2>1. Snapshot(docs) \in Blocks /\ due \in Nat
    BY DEF Snapshot, Blocks, TypeOK
  <2>. QED  BY <2>1
<1>2. main' = main \o blocks
  BY DEF Tell
<1>. HIDE DEF blocks
<1>3. main' \in Seq(Blocks) /\ Members(main) \subseteq Members(main')
  BY <1>1, <1>2, GrowFacts
<1>4. TypeOK'
  BY <1>3 DEF TypeOK, Tell, screen, bounds
<1>5. listeners # 0
  BY DEF Fresh, Tell, TypeOK
<1>. QED  BY <1>3, <1>4, <1>5, OffScreen DEF Tell, screen

LEMMA AcknowledgeInv ==
  ASSUME IInv, Acknowledge
  PROVE  IInv'
<1>. USE DEF IInv
<1>1. Deleted \in Blocks
  BY DEF Deleted, Blocks
<1>2. <<Deleted>> \in Seq(Blocks) /\ main' = main \o <<Deleted>>
  BY <1>1 DEF Acknowledge, TypeOK
<1>3. main' \in Seq(Blocks) /\ Members(main) \subseteq Members(main')
  BY <1>2, GrowFacts
<1>4. TypeOK'
  BY <1>3 DEF TypeOK, Acknowledge, screen, bounds
<1>5. listeners # 0
  BY DEF Fresh, Acknowledge, TypeOK
<1>. QED  BY <1>3, <1>4, <1>5, OffScreen DEF Acknowledge, screen

LEMMA AnswerInv ==
  ASSUME IInv, NEW r \in DOMAIN rounds, NEW b \in Buckets, Answer(r, b)
  PROVE  IInv'
<1>. USE DEF IInv
<1>1. /\ rounds' = [rounds EXCEPT ![r].open = @ \ {b}]
      /\ docs' = docs /\ gone' = gone /\ listeners' = listeners /\ due' = due /\ acks' = acks
      /\ sections' = sections /\ table' = table /\ pulled' = pulled
      /\ loads' = loads /\ changes' = changes /\ crashed' = crashed
  BY DEF Answer, database, screen
<1>2. main' \in Seq(Blocks) /\ errors' \in Nat /\ Members(main) \subseteq Members(main')
  <2>1. CASE main' = Append(main, Outcome(r, b, b \in docs)) /\ errors' = errors
    <3>1. Outcome(r, b, b \in docs) \in Blocks
      BY DEF Outcome, Blocks, TypeOK
    <3>2. /\ <<Outcome(r, b, b \in docs)>> \in Seq(Blocks)
          /\ main' = main \o <<Outcome(r, b, b \in docs)>>
      BY <2>1, <3>1 DEF TypeOK
    <3>. QED  BY <2>1, <3>2, GrowFacts DEF TypeOK
  <2>2. CASE errors' = errors + 1 /\ main' = main
    BY <2>2 DEF TypeOK
  <2>. QED  BY <2>1, <2>2 DEF Answer
<1>3. rounds' \in Seq(Rounds)
  <2>1. /\ DOMAIN rounds' = DOMAIN rounds
        /\ rounds' = [q \in DOMAIN rounds' |-> rounds'[q]]
        /\ \A q \in DOMAIN rounds : q # r => rounds'[q] = rounds[q]
        /\ rounds'[r] = [rounds[r] EXCEPT !.open = @ \ {b}]
    BY <1>1 DEF TypeOK
  <2>2. rounds'[r] \in Rounds
    BY <2>1, RoundFields DEF Rounds
  <2>3. \A q \in DOMAIN rounds : rounds'[q] \in Rounds
    BY <2>1, <2>2, RoundFields
  <2>. QED  BY <2>1, <2>3, SameRounds
<1>4. TypeOK'
  BY <1>1, <1>2, <1>3 DEF TypeOK
<1>5. rounds # <<>>
  OBVIOUS
<1>6. listeners # 0
  BY <1>5 DEF Fresh
<1>. QED  BY <1>1, <1>2, <1>4, <1>6, OffScreen

\* The sections are emptied: there are no rows, or the screen was pulled down.
LEMMA Emptied ==
  ASSUME IInv, LoadData, main' \in Seq(Blocks), Reload \in Members(main'), TypeOK',
         table' = NoRows \/ pulled'
  PROVE  IInv'
<1>1. sections' = NoRows /\ listeners' = listeners + 1 /\ listeners \in Nat
  BY DEF LoadData, IInv, TypeOK
<1>2. Fresh'
  BY <1>1 DEF Fresh
<1>3. EachOnce'
  BY <1>1, NoRowsFacts DEF EachOnce
<1>4. RowsCatchUp'
  BY DEF RowsCatchUp
<1>5. RowIsBucket'
  BY <1>1, NoRowsFacts DEF RowIsBucket
<1>. QED  BY <1>2, <1>3, <1>4, <1>5 DEF IInv

LEMMA ViewDidLoadInv ==
  ASSUME IInv, ViewDidLoad
  PROVE  IInv'
<1>1. main' = main \o UpdateViews /\ LoadData
  BY DEF ViewDidLoad
<1>2. main' \in Seq(Blocks) /\ Reload \in Members(main')
  BY <1>1, ReloadBlock, GrowFacts DEF IInv
<1>3. TypeOK'
  BY <1>2, NoRowsFacts DEF ViewDidLoad, LoadData, TypeOK, IInv
<1>4. table' = NoRows
  BY DEF ViewDidLoad, Fresh, IInv
<1>. QED  BY <1>1, <1>2, <1>3, <1>4, Emptied

LEMMA PullDownInv ==
  ASSUME IInv, PullDown
  PROVE  IInv'
<1>1. main' = main \o UpdateViews /\ LoadData /\ pulled' = TRUE
  BY DEF PullDown
<1>2. main' \in Seq(Blocks) /\ Reload \in Members(main')
  BY <1>1, ReloadBlock, GrowFacts DEF IInv
<1>3. TypeOK'
  BY <1>2, NoRowsFacts DEF PullDown, LoadData, TypeOK, IInv
<1>. QED  BY <1>1, <1>2, <1>3, Emptied

LEMMA AfterDeleteInv ==
  ASSUME IInv, AfterDelete
  PROVE  IInv'
<1>1. main # <<>> /\ Done(UpdateViews) /\ LoadData /\ table' = NoRows
  BY DEF AfterDelete, Turn
<1>2. main' \in Seq(Blocks) /\ Reload \in Members(main')
  BY <1>1, ReloadBlock, QueueFacts DEF IInv
<1>3. TypeOK'
  <2>1. /\ sections' = NoRows /\ table' = NoRows /\ pulled' = FALSE
        /\ listeners' = listeners + 1 /\ due' = due + 1
        /\ docs' = docs /\ gone' = gone /\ acks' = acks /\ rounds' = rounds
        /\ loads' = loads /\ changes' = changes /\ errors' = errors /\ crashed' = crashed
    BY DEF AfterDelete, LoadData, bounds
  <2>2. docs' \subseteq Buckets /\ gone' \subseteq Buckets
    BY <2>1 DEF TypeOK, IInv
  <2>3. listeners' \in Nat /\ due' \in Nat /\ acks' \in Nat
    BY <2>1 DEF TypeOK, IInv
  <2>4. rounds' \in Seq(Rounds) /\ loads' \in Nat /\ changes' \in Nat /\ errors' \in Nat
    BY <2>1 DEF TypeOK, IInv
  <2>5. pulled' \in BOOLEAN /\ crashed' \in BOOLEAN
    BY <2>1 DEF TypeOK, IInv
  <2>6. sections' \in [Names -> Seq(Buckets)] /\ table' \in [Names -> Seq(Buckets)]
    BY <2>1, NoRowsFacts
  <2>. QED  BY <1>2, <2>2, <2>3, <2>4, <2>5, <2>6 DEF TypeOK
<1>. QED  BY <1>1, <1>2, <1>3, Emptied

LEMMA ReloadDataInv ==
  ASSUME IInv, ReloadData
  PROVE  IInv'
<1>. USE DEF IInv
<1>1. main # <<>> /\ Done(<<>>) /\ <<>> \in Seq(Blocks)
  BY DEF ReloadData, Turn
<1>2. main' \in Seq(Blocks)
  BY <1>1, QueueFacts
<1>3. table' = sections /\ sections' = sections /\ pulled' = FALSE
      /\ UNCHANGED <<database, rounds, bounds, crashed>>
  BY DEF ReloadData
<1>4. TypeOK'
  BY <1>2, <1>3 DEF TypeOK, database, bounds
<1>5. Fresh'
  BY <1>1, <1>3 DEF Fresh, database
<1>6. EachOnce' /\ RowsCatchUp'
  BY <1>3 DEF EachOnce, RowsCatchUp
<1>7. RowIsBucket'
  <2>1. \A n \in Names : sections[n] \in Seq(Buckets)
    BY DEF TypeOK
  <2>2. \A n \in Names : Prefix(sections[n], sections[n])
    BY <2>1 DEF Prefix
  <2>. QED  BY <1>3, <2>2 DEF RowIsBucket
<1>. QED  BY <1>4, <1>5, <1>6, <1>7

LEMMA SwipeInv ==
  ASSUME IInv, NEW n \in Names, NEW i \in DOMAIN table[n], Swipe(n, i)
  PROVE  IInv'
<1>. USE DEF IInv
<1>. DEFINE b == sections[n][i]
<1>1. b \in Buckets
  BY DEF Swipe, TypeOK
<1>2. /\ docs' = docs \ {b} /\ gone' = gone \cup {b} /\ MarkPast(b)
      /\ due' = (IF b \in docs THEN AllHear ELSE due) /\ acks' = acks + 1
      /\ changes' = changes + 1 /\ listeners' = listeners /\ main' = main
      /\ sections' = sections /\ table' = table /\ pulled' = pulled
      /\ loads' = loads /\ errors' = errors /\ crashed' = crashed
  BY DEF Swipe, screen
<1>. HIDE DEF b
<1>3. rounds' \in Seq(Rounds)
  BY <1>1, <1>2, PastFacts
<1>4. TypeOK'
  BY <1>1, <1>2, <1>3 DEF TypeOK, AllHear
<1>5. listeners # 0
  BY NoRowsFacts DEF Fresh
<1>6. main' \in Seq(Blocks)
  BY <1>2 DEF TypeOK
<1>. QED  BY <1>2, <1>4, <1>5, <1>6, OffScreen

LEMMA StartRoundInv ==
  ASSUME IInv, StartRound
  PROVE  IInv'
<1>. USE DEF IInv
<1>. DEFINE S == Head(main).ids
            new == [open |-> S, inside |-> S, got |-> <<>>, past |-> {}]
            blocks == IF S = {} THEN <<Notify(Len(rounds) + 1)>> ELSE <<>>
<1>1. main # <<>> /\ Head(main).kind = "snapshot" /\ Done(blocks) /\ rounds' = Append(rounds, new)
  BY DEF StartRound, Turn
<1>2. UNCHANGED <<database, screen, bounds, crashed>>
  BY DEF StartRound
<1>3. blocks \in Seq(Blocks)
  <2>1. Notify(Len(rounds) + 1) \in Blocks
    BY DEF Notify, Blocks, TypeOK
  <2>. QED  BY <2>1
<1>. HIDE DEF blocks
<1>4. /\ main' \in Seq(Blocks) /\ Head(main) \in Blocks
      /\ Members(main) = {Head(main)} \cup Members(Tail(main))
      /\ Members(main') = Members(Tail(main)) \cup Members(blocks)
  BY <1>1, <1>3, QueueFacts
<1>5. S \in SUBSET Buckets
  BY <1>1, <1>4 DEF Blocks
<1>6. rounds' \in Seq(Rounds)
  BY <1>1, <1>5 DEF Rounds, TypeOK
<1>7. TypeOK'
  BY <1>2, <1>4, <1>6 DEF TypeOK, database, screen, bounds
<1>8. Reload \in Members(main) => Reload \in Members(main')
  BY <1>1, <1>4, ReloadBlock
<1>9. listeners # 0
  BY <1>1 DEF Fresh
<1>. QED  BY <1>2, <1>4, <1>7, <1>8, <1>9, OffScreen DEF database, screen

\* Taking b into round r.
LEMMA TakeFacts ==
  ASSUME TypeOK, NEW r \in DOMAIN rounds, NEW b \in Buckets,
         rounds' = [rounds EXCEPT ![r].got = Append(@, b), ![r].inside = @ \ {b}]
  PROVE  /\ rounds' \in Seq(Rounds) /\ DOMAIN rounds' = DOMAIN rounds
         /\ \A q \in DOMAIN rounds : q # r => rounds'[q] = rounds[q]
         /\ rounds'[r].open = rounds[r].open /\ rounds'[r].past = rounds[r].past
         /\ rounds'[r].inside = rounds[r].inside \ {b}
         /\ rounds'[r].got = rounds[r].got \o <<b>>
<1>1. /\ DOMAIN rounds' = DOMAIN rounds
      /\ rounds' = [q \in DOMAIN rounds' |-> rounds'[q]]
      /\ \A q \in DOMAIN rounds : q # r => rounds'[q] = rounds[q]
      /\ rounds'[r] = [rounds[r] EXCEPT !.got = Append(@, b), !.inside = @ \ {b}]
  BY DEF TypeOK
<1>2. rounds[r] \in Rounds /\ rounds[r].got \in Seq(Buckets)
      /\ rounds[r].inside \in SUBSET Buckets
  BY RoundFields
<1>3. /\ rounds'[r] \in Rounds
      /\ rounds'[r].open = rounds[r].open /\ rounds'[r].past = rounds[r].past
      /\ rounds'[r].inside = rounds[r].inside \ {b}
      /\ rounds'[r].got = Append(rounds[r].got, b)
  <2>. DEFINE g == Append(rounds[r].got, b)
              s == rounds[r].inside \ {b}
              d == rounds[r]
  <2>1. g \in Seq(Buckets) /\ s \in SUBSET Buckets /\ d \in Rounds
    BY <1>2
  <2>2. rounds'[r] = [d EXCEPT !.got = g, !.inside = s]
    BY <1>1, <1>2
  <2>. HIDE DEF g, s, d
  <2>3. /\ rounds'[r] \in Rounds /\ rounds'[r].open = d.open /\ rounds'[r].past = d.past
        /\ rounds'[r].inside = s /\ rounds'[r].got = g
    BY <2>1, <2>2 DEF Rounds
  <2>. QED  BY <2>3 DEF g, s, d
<1>4. \A q \in DOMAIN rounds : rounds'[q] \in Rounds
  BY <1>1, <1>3, RoundFields
<1>5. rounds' \in Seq(Rounds)
  BY <1>1, <1>4, SameRounds
<1>6. Append(rounds[r].got, b) = rounds[r].got \o <<b>>
  BY <1>2
<1>. QED  BY <1>1, <1>3, <1>5, <1>6

LEMMA TakeBucketInv ==
  ASSUME IInv, RInv, TakeBucket
  PROVE  IInv'
<1>. USE DEF IInv
<1>. DEFINE r == Head(main).round
            b == Head(main).id
            blocks == IF rounds[r].inside = {b} THEN <<Notify(r)>> ELSE <<>>
<1>1. /\ main # <<>> /\ Head(main).kind = "outcome" /\ Done(blocks)
      /\ rounds' = [rounds EXCEPT ![r].got = Append(@, b), ![r].inside = @ \ {b}]
      /\ UNCHANGED <<database, screen, bounds, crashed>>
  BY DEF TakeBucket, Turn
<1>2. Head(main) \in Blocks /\ Head(main) \in Members(main)
  BY <1>1, TailMembers DEF TypeOK
<1>3. r \in Nat /\ b \in Buckets
  BY <1>1, <1>2 DEF Blocks
<1>4. r \in DOMAIN rounds
  BY <1>1, <1>2 DEF RInv, BlockSound
<1>5. blocks \in Seq(Blocks)
  <2>1. Notify(r) \in Blocks
    BY <1>3 DEF Notify, Blocks
  <2>. QED  BY <2>1
<1>. HIDE DEF blocks, r, b
<1>6. /\ main' \in Seq(Blocks)
      /\ Members(main) = {Head(main)} \cup Members(Tail(main))
      /\ Members(main') = Members(Tail(main)) \cup Members(blocks)
  BY <1>1, <1>5, QueueFacts
<1>7. rounds' \in Seq(Rounds)
  BY <1>1, <1>3, <1>4, TakeFacts
<1>8. TypeOK'
  BY <1>1, <1>6, <1>7 DEF TypeOK, database, screen, bounds
<1>9. Reload \in Members(main) => Reload \in Members(main')
  BY <1>1, <1>6, ReloadBlock
<1>10. listeners # 0
  BY <1>1 DEF Fresh
<1>. QED  BY <1>1, <1>6, <1>8, <1>9, <1>10, OffScreen DEF database, screen

\* A round whose answer has been delivered is empty.
LEMMA DeliverFacts ==
  ASSUME TypeOK, NEW r \in DOMAIN rounds,
         rounds' = [rounds EXCEPT ![r].got = <<>>, ![r].past = {}]
  PROVE  /\ rounds' \in Seq(Rounds) /\ DOMAIN rounds' = DOMAIN rounds
         /\ \A q \in DOMAIN rounds : q # r => rounds'[q] = rounds[q]
         /\ rounds'[r].open = rounds[r].open /\ rounds'[r].inside = rounds[r].inside
         /\ rounds'[r].got = <<>>
<1>1. /\ DOMAIN rounds' = DOMAIN rounds
      /\ rounds' = [q \in DOMAIN rounds' |-> rounds'[q]]
      /\ \A q \in DOMAIN rounds : q # r => rounds'[q] = rounds[q]
      /\ rounds'[r] = [rounds[r] EXCEPT !.got = <<>>, !.past = {}]
  BY DEF TypeOK
<1>2. rounds[r] \in Rounds
  BY RoundFields
<1>3. /\ rounds'[r] \in Rounds
      /\ rounds'[r].open = rounds[r].open /\ rounds'[r].inside = rounds[r].inside
      /\ rounds'[r].got = <<>>
  <2>. DEFINE g == <<>>
              d == rounds[r]
  <2>1. g \in Seq(Buckets) /\ d \in Rounds /\ rounds'[r] = [d EXCEPT !.got = g, !.past = {}]
    BY <1>1, <1>2
  <2>. HIDE DEF g, d
  <2>2. /\ rounds'[r] \in Rounds /\ rounds'[r].open = d.open /\ rounds'[r].inside = d.inside
        /\ rounds'[r].got = g
    BY <2>1 DEF Rounds
  <2>. QED  BY <2>2 DEF g, d
<1>4. \A q \in DOMAIN rounds : rounds'[q] \in Rounds
  BY <1>1, <1>3, RoundFields
<1>5. rounds' \in Seq(Rounds)
  BY <1>1, <1>4, SameRounds
<1>. QED  BY <1>1, <1>3, <1>5

\* What the sections are after an answer.
LEMMA SectionFacts ==
  ASSUME IInv, Deliver
  PROVE  /\ sections' \in [Names -> Seq(Buckets)] /\ EachOnce'
         /\ \A n \in Names :
              /\ Prefix(sections[n], sections'[n])
              /\ Members(sections'[n]) \ Members(sections[n])
                   \subseteq Members(rounds[Head(main).round].got)
<1>. DEFINE result == rounds[Head(main).round].got
<1>1. PICK pub \in Extended(sections["public"], result, "public"),
           per \in Extended(sections["personal"], result, "personal") :
        sections' = [n \in Names |-> IF n = "public" THEN pub ELSE per]
  BY DEF Deliver
<1>2. \A n \in Names : /\ sections[n] \in Seq(Buckets) /\ Once(sections[n])
                      /\ Members(sections[n]) \subseteq OfSection(n)
  BY DEF IInv, TypeOK, EachOnce
<1>3. "public" \in Names /\ "personal" \in Names
  BY DEF Names
<1>. HIDE DEF result
<1>4. ASSUME NEW n \in Names
      PROVE  /\ sections'[n] \in Seq(Buckets) /\ Once(sections'[n])
             /\ Prefix(sections[n], sections'[n])
             /\ Members(sections'[n]) \subseteq OfSection(n)
             /\ Members(sections'[n]) \ Members(sections[n]) \subseteq Members(result)
  <2>1. sections'[n] \in Extended(sections[n], result, n)
    BY <1>1 DEF Names
  <2>. QED  BY <1>2, <2>1, Extending
<1>5. sections' \in [Names -> Seq(Buckets)]
  BY <1>1, <1>4
<1>. QED  BY <1>4, <1>5 DEF EachOnce, result

\* A prefix of a prefix.
LEMMA PrefixOf ==
  ASSUME NEW s \in Seq(Buckets), NEW t \in Seq(Buckets), NEW u \in Seq(Buckets),
         Prefix(s, t), Prefix(t, u)
  PROVE  Prefix(s, u)
  BY DEF Prefix

LEMMA DeliverInv ==
  ASSUME IInv, RInv, Deliver
  PROVE  IInv'
<1>. USE DEF IInv
<1>. DEFINE r == Head(main).round
<1>1. /\ main # <<>> /\ Head(main).kind = "notify" /\ Done(UpdateViews)
      /\ rounds' = [rounds EXCEPT ![r].got = <<>>, ![r].past = {}]
      /\ UNCHANGED <<database, table, pulled, bounds, crashed>>
  BY DEF Deliver, Turn
<1>2. Head(main) \in Members(main)
  BY <1>1, TailMembers DEF TypeOK
<1>3. r \in DOMAIN rounds
  BY <1>1, <1>2 DEF RInv, BlockSound
<1>. HIDE DEF r
<1>4. main' \in Seq(Blocks) /\ Reload \in Members(main')
  BY <1>1, ReloadBlock, QueueFacts
<1>5. rounds' \in Seq(Rounds)
  BY <1>1, <1>3, DeliverFacts
<1>6. /\ sections' \in [Names -> Seq(Buckets)] /\ EachOnce'
      /\ \A n \in Names : Prefix(sections[n], sections'[n])
  BY SectionFacts
<1>7. TypeOK'
  BY <1>1, <1>4, <1>5, <1>6 DEF TypeOK, database, bounds
<1>8. Fresh'
  BY <1>1 DEF Fresh, database
<1>9. RowsCatchUp'
  BY <1>4 DEF RowsCatchUp
<1>10. RowIsBucket'
  <2>1. \A n \in Names : table[n] \in Seq(Buckets) /\ sections[n] \in Seq(Buckets)
                         /\ sections'[n] \in Seq(Buckets)
    BY <1>6 DEF TypeOK
  <2>2. table' = table /\ pulled' = pulled
    BY <1>1
  <2>3. CASE ~pulled
    <3>1. \A n \in Names : Prefix(table[n], sections[n])
      BY <2>3 DEF RowIsBucket
    <3>2. \A n \in Names : Prefix(table[n], sections'[n])
      BY <1>6, <2>1, <3>1, PrefixOf
    <3>. QED  BY <2>2, <3>2 DEF RowIsBucket
  <2>. QED  BY <2>2, <2>3 DEF RowIsBucket
<1>. QED  BY <1>6, <1>7, <1>8, <1>9, <1>10

LEMMA CrashInv ==
  ASSUME IInv, crashed' = TRUE, UNCHANGED <<database, main, rounds, screen, bounds>>
  PROVE  IInv'
<1>1. TypeOK'
  BY DEF IInv, TypeOK, database, screen, bounds
<1>2. main' \in Seq(Blocks)
  BY DEF IInv, TypeOK
<1>3. listeners = 0 => due' = 0 /\ acks' = 0 /\ main' = <<>> /\ rounds' = <<>>
  BY DEF IInv, Fresh, database
<1>. QED  BY <1>1, <1>2, <1>3, OffScreen DEF database, screen

LEMMA IInvStep == IInv /\ RInv /\ [Next]_vars => IInv'
<1>. SUFFICES ASSUME IInv, RInv, [Next]_vars  PROVE IInv'
  OBVIOUS
<1>1. CASE Change \/ Tell \/ Acknowledge \/ ViewDidLoad \/ PullDown
  BY <1>1, ChangeInv, TellInv, AcknowledgeInv, ViewDidLoadInv, PullDownInv
<1>2. CASE AnswerSome
  BY <1>2, AnswerInv DEF AnswerSome
<1>3. ASSUME NEW n \in Names, NEW i \in DOMAIN table[n], Swipe(n, i)  PROVE IInv'
  BY <1>3, SwipeInv
<1>4. ASSUME NEW n \in Names, NEW i \in DOMAIN table[n], CrashOnRow(n, i)  PROVE IInv'
  BY <1>4, CrashInv DEF CrashOnRow
<1>5. CASE RunBlock
  BY <1>5, StartRoundInv, TakeBucketInv, CrashInv, DeliverInv, AfterDeleteInv, ReloadDataInv
    DEF RunBlock, CrashOnMissing
<1>6. CASE UNCHANGED vars
  BY <1>6 DEF vars, database, screen, bounds, IInv, TypeOK, Fresh, EachOnce, RowsCatchUp,
              RowIsBucket
<1>. QED  BY <1>1, <1>2, <1>3, <1>4, <1>5, <1>6 DEF Next

----------------------------------------------------------------------------
(* The rounds: what each action does to RInv.                              *)

NoOutcome(t) == \A i \in DOMAIN t : t[i].kind # "outcome"

LEMMA DistinctTail ==
  ASSUME NEW s \in Seq(Blocks), s # <<>>, Distinct(s)
  PROVE  /\ Distinct(Tail(s))
         /\ \A m \in Members(Tail(s)) : ~Same(Head(s), m)
<1>1. /\ Head(s) = s[1] /\ 1 \in DOMAIN s /\ Len(s) \in Nat
      /\ DOMAIN s = 1 .. Len(s) /\ DOMAIN Tail(s) = 1 .. Len(s) - 1
      /\ \A i \in 1 .. Len(s) - 1 : Tail(s)[i] = s[i + 1] /\ i + 1 \in 1 .. Len(s) /\ i + 1 # 1
  OBVIOUS
<1>2. ASSUME NEW i \in DOMAIN Tail(s), NEW j \in DOMAIN Tail(s), Same(Tail(s)[i], Tail(s)[j])
      PROVE  i = j
  <2>1. /\ i + 1 \in DOMAIN s /\ j + 1 \in DOMAIN s
        /\ Tail(s)[i] = s[i + 1] /\ Tail(s)[j] = s[j + 1]
    BY <1>1
  <2>2. i + 1 = j + 1
    BY <1>2, <2>1 DEF Distinct
  <2>. QED  BY <1>1, <2>2
<1>3. ASSUME NEW i \in DOMAIN Tail(s)  PROVE ~Same(Head(s), Tail(s)[i])
  BY <1>1 DEF Distinct
<1>. QED  BY <1>2, <1>3 DEF Distinct, Members

LEMMA DistinctCat ==
  ASSUME NEW s \in Seq(Blocks), NEW t \in Seq(Blocks), Distinct(s), NoOutcome(t)
  PROVE  Distinct(s \o t)
<1>1. /\ Len(s) \in Nat /\ Len(t) \in Nat
      /\ DOMAIN s = 1 .. Len(s) /\ DOMAIN t = 1 .. Len(t)
      /\ DOMAIN (s \o t) = 1 .. Len(s) + Len(t)
      /\ \A i \in 1 .. Len(s) : (s \o t)[i] = s[i]
      /\ \A i \in Len(s) + 1 .. Len(s) + Len(t) :
           (s \o t)[i] = t[i - Len(s)] /\ i - Len(s) \in 1 .. Len(t)
  OBVIOUS
<1>2. ASSUME NEW i \in DOMAIN (s \o t), (s \o t)[i].kind = "outcome"
      PROVE  i \in DOMAIN s /\ (s \o t)[i] = s[i]
  <2>1. CASE i \in 1 .. Len(s)
    BY <1>1, <2>1
  <2>2. CASE i \in Len(s) + 1 .. Len(s) + Len(t)
    BY <1>1, <1>2, <2>2 DEF NoOutcome
  <2>. QED  BY <1>1, <2>1, <2>2
<1>3. ASSUME NEW i \in DOMAIN (s \o t), NEW j \in DOMAIN (s \o t),
             Same((s \o t)[i], (s \o t)[j])
      PROVE  i = j
  <2>1. (s \o t)[i].kind = "outcome" /\ (s \o t)[j].kind = "outcome"
    BY <1>3 DEF Same
  <2>2. i \in DOMAIN s /\ j \in DOMAIN s /\ Same(s[i], s[j])
    BY <1>2, <1>3, <2>1
  <2>. QED  BY <2>2 DEF Distinct
<1>. QED  BY <1>3 DEF Distinct

LEMMA DistinctAppend ==
  ASSUME NEW s \in Seq(Blocks), NEW x \in Blocks, Distinct(s),
         \A m \in Members(s) : ~Same(m, x) /\ ~Same(x, m)
  PROVE  Distinct(Append(s, x))
<1>1. /\ Len(s) \in Nat /\ DOMAIN s = 1 .. Len(s) /\ DOMAIN Append(s, x) = 1 .. Len(s) + 1
      /\ \A i \in 1 .. Len(s) : Append(s, x)[i] = s[i]
      /\ Append(s, x)[Len(s) + 1] = x
  OBVIOUS
<1>2. \A i \in 1 .. Len(s) : s[i] \in Members(s)
  BY <1>1 DEF Members
<1>3. ASSUME NEW i \in 1 .. Len(s) + 1, NEW j \in 1 .. Len(s) + 1,
             Same(Append(s, x)[i], Append(s, x)[j])
      PROVE  i = j
  <2>1. CASE i \in 1 .. Len(s) /\ j \in 1 .. Len(s)
    BY <1>1, <1>3, <2>1 DEF Distinct
  <2>2. CASE i = Len(s) + 1 /\ j \in 1 .. Len(s)
    BY <1>1, <1>2, <1>3, <2>2
  <2>3. CASE i \in 1 .. Len(s) /\ j = Len(s) + 1
    BY <1>1, <1>2, <1>3, <2>3
  <2>4. i = Len(s) + 1 \/ i \in 1 .. Len(s)
    BY <1>1
  <2>5. j = Len(s) + 1 \/ j \in 1 .. Len(s)
    BY <1>1
  <2>. QED  BY <2>1, <2>2, <2>3, <2>4, <2>5
<1>. QED  BY <1>1, <1>3 DEF Distinct

\* Blocks that are neither outcomes nor answers of a round come, the first one may go.
LEMMA PlainBlocks ==
  ASSUME IInv, RInv, NEW blocks \in Seq(Blocks),
         \/ main' = main \o blocks
         \/ main # <<>> /\ Done(blocks),
         \A m \in Members(blocks) : m.kind \notin {"outcome", "notify"},
         rounds' = rounds, docs' = docs
  PROVE  RInv'
<1>1. main \in Seq(Blocks)
  BY DEF IInv, TypeOK
<1>2. NoOutcome(blocks)
  BY DEF NoOutcome, Members
<1>3. Distinct(main') /\ Members(main') \subseteq Members(main) \cup Members(blocks)
  <2>1. CASE main' = main \o blocks
    BY <1>1, <1>2, <2>1, CatMembers, DistinctCat DEF RInv
  <2>2. CASE main # <<>> /\ Done(blocks)
    <3>1. main' = Tail(main) \o blocks /\ Tail(main) \in Seq(Blocks)
      BY <1>1, <2>2 DEF Done
    <3>2. Distinct(Tail(main))
      BY <1>1, <2>2, DistinctTail DEF RInv
    <3>3. Distinct(main')
      BY <1>2, <3>1, <3>2, DistinctCat
    <3>. QED  BY <2>2, <3>3, QueueFacts DEF IInv
  <2>. QED  BY <2>1, <2>2
<1>4. \A m \in Members(main') : BlockSound(m)'
  BY <1>3 DEF RInv, BlockSound, Kept
<1>5. \A r \in DOMAIN rounds' : RoundSound(rounds[r])'
  BY DEF RInv, RoundSound, Kept
<1>. QED  BY <1>3, <1>4, <1>5 DEF RInv

\* A bucket is deleted, and the rounds under way keep it in their past.
LEMMA DeletionRounds ==
  ASSUME IInv, RInv, NEW b \in Buckets, docs' = docs \ {b}, MarkPast(b), main' = main
  PROVE  RInv'
<1>1. /\ DOMAIN rounds' = DOMAIN rounds
      /\ \A r \in DOMAIN rounds :
           /\ rounds'[r].open = rounds[r].open /\ rounds'[r].inside = rounds[r].inside
           /\ rounds'[r].got = rounds[r].got
           /\ rounds[r].past \subseteq rounds'[r].past
           /\ rounds[r].inside # {} \/ rounds[r].got # <<>> => b \in rounds'[r].past
  BY PastFacts DEF IInv
<1>2. ASSUME NEW r \in DOMAIN rounds, NEW c, Kept(c, rounds[r]),
             rounds[r].inside # {} \/ rounds[r].got # <<>>
      PROVE  Kept(c, rounds[r])'
  BY <1>1, <1>2 DEF Kept
<1>3. ASSUME NEW r \in DOMAIN rounds  PROVE RoundSound(rounds[r])'
  <2>1. RoundSound(rounds[r])
    BY DEF RInv
  <2>2. ASSUME NEW c \in Members(rounds[r].got)  PROVE Kept(c, rounds[r])'
    <3>1. rounds[r].got # <<>>
      BY DEF Members
    <3>2. Kept(c, rounds[r])
      BY <2>1 DEF RoundSound
    <3>. QED  BY <1>2, <3>1, <3>2
  <2>. QED  BY <1>1, <2>1, <2>2 DEF RoundSound
<1>4. ASSUME NEW m \in Members(main)  PROVE BlockSound(m)'
  <2>1. BlockSound(m)
    BY DEF RInv
  <2>2. ASSUME m.kind = "outcome", m.found  PROVE Kept(m.id, rounds[m.round])'
    <3>1. /\ m.round \in DOMAIN rounds /\ rounds[m.round].inside # {}
          /\ Kept(m.id, rounds[m.round])
      BY <2>1, <2>2 DEF BlockSound
    <3>. QED  BY <1>2, <3>1
  <2>. QED  BY <1>1, <2>1, <2>2 DEF BlockSound
<1>. QED  BY <1>1, <1>3, <1>4 DEF RInv

LEMMA ChangeRounds ==
  ASSUME IInv, RInv, Change
  PROVE  RInv'
<1>1. main' = main
  BY DEF Change
<1>2. CASE /\ \E b \in Buckets \ (docs \cup gone) : docs' = docs \cup {b}
           /\ UNCHANGED <<gone, rounds>>
  <2>1. docs \subseteq docs' /\ rounds' = rounds
    BY <1>2
  <2>2. \A r \in DOMAIN rounds' : RoundSound(rounds[r])'
    BY <2>1 DEF RInv, RoundSound, Kept
  <2>3. \A m \in Members(main') : BlockSound(m)'
    BY <1>1, <2>1 DEF RInv, BlockSound, Kept
  <2>. QED  BY <1>1, <2>2, <2>3 DEF RInv
<1>3. CASE \E b \in docs : docs' = docs \ {b} /\ gone' = gone \cup {b} /\ MarkPast(b)
  <2>1. PICK b \in docs : docs' = docs \ {b} /\ MarkPast(b)
    BY <1>3
  <2>2. b \in Buckets
    BY DEF IInv, TypeOK
  <2>. QED  BY <1>1, <2>1, <2>2, DeletionRounds
<1>. QED  BY <1>2, <1>3 DEF Change

LEMMA SwipeRounds ==
  ASSUME IInv, RInv, NEW n \in Names, NEW i \in DOMAIN table[n], Swipe(n, i)
  PROVE  RInv'
<1>1. sections[n][i] \in Buckets
  BY DEF Swipe, TypeOK, IInv
<1>2. /\ docs' = docs \ {sections[n][i]} /\ MarkPast(sections[n][i]) /\ main' = main
  BY DEF Swipe
<1>. QED  BY <1>1, <1>2, DeletionRounds

LEMMA AnswerRounds ==
  ASSUME IInv, RInv, NEW r \in DOMAIN rounds, NEW b \in Buckets, Answer(r, b)
  PROVE  RInv'
<1>1. /\ rounds' = [rounds EXCEPT ![r].open = @ \ {b}] /\ docs' = docs
      /\ b \in rounds[r].open
  BY DEF Answer, database
<1>2. /\ DOMAIN rounds' = DOMAIN rounds
      /\ \A q \in DOMAIN rounds : q # r => rounds'[q] = rounds[q]
      /\ rounds'[r].open = rounds[r].open \ {b} /\ rounds'[r].inside = rounds[r].inside
      /\ rounds'[r].got = rounds[r].got /\ rounds'[r].past = rounds[r].past
  <2>1. /\ DOMAIN rounds' = DOMAIN rounds
        /\ \A q \in DOMAIN rounds : q # r => rounds'[q] = rounds[q]
        /\ rounds'[r] = [rounds[r] EXCEPT !.open = @ \ {b}]
    BY <1>1 DEF IInv, TypeOK
  <2>. QED  BY <2>1, RoundFields DEF IInv, Rounds
<1>3. b \in rounds[r].inside
  BY <1>1 DEF RInv, RoundSound
<1>4. \A q \in DOMAIN rounds' : RoundSound(rounds[q])'
  BY <1>1, <1>2 DEF RInv, RoundSound, Kept
<1>5. \A m \in Members(main) : BlockSound(m)'
  <2>1. TAKE m \in Members(main)
  <2>2. BlockSound(m)
    BY DEF RInv
  <2>3. CASE m.kind \in {"outcome", "notify"} /\ m.round = r
    BY <1>1, <1>2, <2>2, <2>3 DEF BlockSound, Kept
  <2>4. CASE m.kind \in {"outcome", "notify"} /\ m.round # r
    BY <1>1, <1>2, <2>2, <2>4 DEF BlockSound, Kept
  <2>5. CASE m.kind \notin {"outcome", "notify"}
    BY <2>5 DEF BlockSound
  <2>. QED  BY <2>3, <2>4, <2>5
<1>6. CASE main' = main
  BY <1>4, <1>5, <1>6 DEF RInv
<1>7. CASE main' = Append(main, Outcome(r, b, b \in docs))
  <2>1. PICK x : x = Outcome(r, b, b \in docs)
    OBVIOUS
  <2>2. /\ x \in Blocks /\ x.kind = "outcome" /\ x.round = r /\ x.id = b
        /\ x.found = (b \in docs)
    BY <2>1 DEF Outcome, Blocks, IInv, TypeOK
  <2>3. main \in Seq(Blocks) /\ main' = Append(main, x)
    BY <1>7, <2>1 DEF IInv, TypeOK
  <2>4. Members(main') = Members(main) \cup {x}
    <3>1. Append(main, x) = main \o <<x>> /\ <<x>> \in Seq(Blocks) /\ Members(<<x>>) = {x}
      BY <2>2, <2>3, OneMember
    <3>2. Members(main \o <<x>>) = Members(main) \cup Members(<<x>>)
      BY <2>3, <3>1, CatMembers
    <3>3. main' = main \o <<x>>
      BY <2>3, <3>1
    <3>. QED  BY <3>1, <3>2, <3>3
  <2>5. BlockSound(x)'
    BY <1>1, <1>2, <1>3, <2>2 DEF BlockSound, Kept
  <2>6. ASSUME NEW m \in Members(main)  PROVE ~Same(m, x) /\ ~Same(x, m)
    BY <1>1, <2>2 DEF Same, RInv, BlockSound
  <2>7. Distinct(main')
    BY <2>2, <2>3, <2>6, DistinctAppend DEF RInv
  <2>. QED  BY <1>4, <1>5, <2>4, <2>5, <2>7 DEF RInv
<1>. QED  BY <1>6, <1>7 DEF Answer

\* One round is over with one request, or with them all; the first block goes.
LEMMA StartRoundRounds ==
  ASSUME IInv, RInv, StartRound
  PROVE  RInv'
<1>1. PICK S, n, x, blocks :
        /\ S = Head(main).ids /\ n = Len(rounds) + 1 /\ x = Notify(n)
        /\ blocks = IF S = {} THEN <<x>> ELSE <<>>
  OBVIOUS
<1>2. PICK new : new = [open |-> S, inside |-> S, got |-> <<>>, past |-> {}]
  OBVIOUS
<1>3. /\ main # <<>> /\ Done(blocks) /\ rounds' = Append(rounds, new) /\ docs' = docs
  BY <1>1, <1>2 DEF StartRound, Turn, database
<1>4. main \in Seq(Blocks) /\ rounds \in Seq(Rounds) /\ n \in Nat
  BY <1>1 DEF IInv, TypeOK
<1>5. x \in Blocks /\ x.kind = "notify" /\ x.round = n
  BY <1>1, <1>4 DEF Notify, Blocks
<1>6. /\ blocks \in Seq(Blocks) /\ NoOutcome(blocks)
      /\ \A m \in Members(blocks) : m = x /\ S = {}
  <2>1. CASE S = {}
    <3>1. blocks = <<x>> /\ DOMAIN blocks = {1} /\ blocks[1] = x
      BY <1>1, <2>1
    <3>. QED  BY <1>5, <2>1, <3>1, OneMember DEF NoOutcome
  <2>2. CASE S # {}
    BY <1>1, <2>2 DEF NoOutcome, Members
  <2>. QED  BY <2>1, <2>2
<1>7. /\ Members(main) = {Head(main)} \cup Members(Tail(main))
      /\ Members(main') = Members(Tail(main)) \cup Members(blocks)
  BY <1>3, <1>6, QueueFacts DEF IInv
<1>8. Distinct(main')
  <2>1. main' = Tail(main) \o blocks /\ Tail(main) \in Seq(Blocks)
    BY <1>3, <1>4 DEF Done
  <2>. QED  BY <1>3, <1>4, <1>6, <2>1, DistinctTail, DistinctCat DEF RInv
<1>9. /\ DOMAIN rounds' = DOMAIN rounds \cup {n}
      /\ \A r \in DOMAIN rounds : rounds'[r] = rounds[r]
      /\ rounds'[n] = new
  BY <1>1, <1>3, <1>4
<1>10. \A r \in DOMAIN rounds' : RoundSound(rounds[r])'
  <2>1. new.open = new.inside /\ Members(new.got) = {}
    BY <1>2 DEF Members
  <2>2. RoundSound(rounds[n])'
    BY <1>9, <2>1 DEF RoundSound
  <2>3. \A r \in DOMAIN rounds : RoundSound(rounds[r])'
    BY <1>3, <1>9 DEF RInv, RoundSound, Kept
  <2>. QED  BY <1>9, <2>2, <2>3
<1>11. \A m \in Members(main') : BlockSound(m)'
  <2>1. ASSUME NEW m \in Members(main)  PROVE BlockSound(m)'
    BY <1>3, <1>9 DEF RInv, BlockSound, Kept
  <2>2. ASSUME S = {}  PROVE BlockSound(x)'
    <3>1. new.inside = {}
      BY <1>2, <2>2
    <3>. QED  BY <1>5, <1>9, <3>1 DEF BlockSound
  <2>. QED  BY <1>6, <1>7, <2>1, <2>2
<1>. QED  BY <1>8, <1>10, <1>11 DEF RInv

\* An outcome is taken: its bucket is in docs, or it was deleted since.
LEMMA TakeBucketRounds ==
  ASSUME IInv, RInv, TakeBucket
  PROVE  RInv'
<1>1. PICK h, r, b, x, blocks :
        /\ h = Head(main) /\ r = h.round /\ b = h.id /\ x = Notify(r)
        /\ blocks = IF rounds[r].inside = {b} THEN <<x>> ELSE <<>>
  OBVIOUS
<1>2. /\ main # <<>> /\ Done(blocks) /\ docs' = docs
      /\ h.kind = "outcome" /\ h.found
      /\ rounds' = [rounds EXCEPT ![r].got = Append(@, b), ![r].inside = @ \ {b}]
  BY <1>1 DEF TakeBucket, Turn, Found, database
<1>3. main \in Seq(Blocks) /\ h \in Blocks /\ h \in Members(main)
  BY <1>1, <1>2, TailMembers DEF IInv, TypeOK
<1>4. /\ r \in DOMAIN rounds /\ b \in rounds[r].inside \ rounds[r].open
      /\ Kept(b, rounds[r])
  BY <1>1, <1>2, <1>3 DEF RInv, BlockSound
<1>5. b \in Buckets
  BY <1>4, RoundFields DEF IInv
<1>6. /\ DOMAIN rounds' = DOMAIN rounds
      /\ \A q \in DOMAIN rounds : q # r => rounds'[q] = rounds[q]
      /\ rounds'[r].open = rounds[r].open
      /\ rounds'[r].inside = rounds[r].inside \ {b}
      /\ rounds'[r].got = rounds[r].got \o <<b>>
      /\ rounds'[r].past = rounds[r].past
  BY <1>2, <1>4, <1>5, TakeFacts DEF IInv
<1>7. x \in Blocks /\ x.kind = "notify" /\ x.round = r
  BY <1>1, <1>3, <1>4 DEF Notify, Blocks, IInv, TypeOK
<1>8. /\ blocks \in Seq(Blocks) /\ NoOutcome(blocks)
      /\ \A m \in Members(blocks) : m = x /\ rounds[r].inside = {b}
  <2>1. CASE rounds[r].inside = {b}
    <3>1. blocks = <<x>> /\ DOMAIN blocks = {1} /\ blocks[1] = x
      BY <1>1, <2>1
    <3>. QED  BY <1>7, <2>1, <3>1, OneMember DEF NoOutcome
  <2>2. CASE rounds[r].inside # {b}
    BY <1>1, <2>2 DEF NoOutcome, Members
  <2>. QED  BY <2>1, <2>2
<1>9. /\ Members(main) = {Head(main)} \cup Members(Tail(main))
      /\ Members(main') = Members(Tail(main)) \cup Members(blocks)
  BY <1>2, <1>8, QueueFacts DEF IInv
<1>10. /\ Distinct(main')
       /\ \A m \in Members(Tail(main)) : ~Same(h, m)
  <2>1. main' = Tail(main) \o blocks /\ Tail(main) \in Seq(Blocks)
    BY <1>2, <1>3 DEF Done
  <2>. QED  BY <1>1, <1>2, <1>3, <1>8, <2>1, DistinctTail, DistinctCat DEF RInv
<1>11. \A q \in DOMAIN rounds' : RoundSound(rounds[q])'
  <2>1. RoundSound(rounds[r])'
    <3>1. rounds[r].got \in Seq(Buckets) /\ RoundSound(rounds[r])
      BY <1>4, RoundFields DEF IInv, RInv
    <3>2. Members(rounds[r].got \o <<b>>) = Members(rounds[r].got) \cup {b}
      <4>1. PICK g, t : g = rounds[r].got /\ t = <<b>>
        OBVIOUS
      <4>2. g \in Seq(Buckets) /\ t \in Seq(Buckets) /\ Members(t) = {b}
        BY <1>5, <3>1, <4>1, OneMember
      <4>3. Members(g \o t) = Members(g) \cup Members(t)
        BY <4>2, CatMembers
      <4>. QED  BY <4>1, <4>2, <4>3
    <3>. QED  BY <1>2, <1>4, <1>6, <3>1, <3>2 DEF RoundSound, Kept
  <2>2. ASSUME NEW q \in DOMAIN rounds, q # r  PROVE RoundSound(rounds[q])'
    BY <1>2, <1>6, <2>2 DEF RInv, RoundSound, Kept
  <2>. QED  BY <1>6, <2>1, <2>2
<1>12. \A m \in Members(main') : BlockSound(m)'
  <2>1. ASSUME NEW m \in Members(Tail(main))  PROVE BlockSound(m)'
    <3>1. BlockSound(m)
      BY <1>9, <2>1 DEF RInv
    <3>2. CASE m.kind = "outcome" /\ m.round = r
      <4>1. m.id # b
        BY <1>1, <1>2, <1>10, <2>1, <3>2 DEF Same
      <4>. QED  BY <1>2, <1>4, <1>6, <3>1, <3>2, <4>1 DEF BlockSound, Kept
    <3>3. CASE m.kind = "notify" /\ m.round = r
      BY <1>4, <3>1, <3>3 DEF BlockSound
    <3>4. CASE m.round # r \/ m.kind \notin {"outcome", "notify"}
      BY <1>2, <1>6, <3>1, <3>4 DEF BlockSound, Kept
    <3>. QED  BY <3>2, <3>3, <3>4
  <2>2. ASSUME rounds[r].inside = {b}  PROVE BlockSound(x)'
    BY <1>4, <1>6, <1>7, <2>2 DEF BlockSound
  <2>. QED  BY <1>8, <1>9, <2>1, <2>2
<1>. QED  BY <1>10, <1>11, <1>12 DEF RInv

\* A round whose answer is given has no outcome on its way.
LEMMA DeliverRounds ==
  ASSUME IInv, RInv, Deliver
  PROVE  RInv'
<1>1. PICK h, r : h = Head(main) /\ r = h.round
  OBVIOUS
<1>2. /\ main # <<>> /\ Done(UpdateViews) /\ docs' = docs /\ h.kind = "notify"
      /\ rounds' = [rounds EXCEPT ![r].got = <<>>, ![r].past = {}]
  BY <1>1 DEF Deliver, Turn, database
<1>3. main \in Seq(Blocks) /\ h \in Members(main)
  BY <1>1, <1>2, TailMembers DEF IInv, TypeOK
<1>4. r \in DOMAIN rounds /\ rounds[r].inside = {}
  BY <1>1, <1>2, <1>3 DEF RInv, BlockSound
<1>5. /\ DOMAIN rounds' = DOMAIN rounds
      /\ \A q \in DOMAIN rounds : q # r => rounds'[q] = rounds[q]
      /\ rounds'[r].open = rounds[r].open /\ rounds'[r].inside = rounds[r].inside
      /\ rounds'[r].got = <<>>
  BY <1>2, <1>4, DeliverFacts DEF IInv
<1>6. NoOutcome(UpdateViews) /\ \A m \in Members(UpdateViews) : m.kind = "reload"
  BY ReloadBlock DEF NoOutcome, Members
<1>7. /\ Members(main) = {Head(main)} \cup Members(Tail(main))
      /\ Members(main') = Members(Tail(main)) \cup Members(UpdateViews)
  BY <1>2, ReloadBlock, QueueFacts DEF IInv
<1>8. Distinct(main')
  <2>1. main' = Tail(main) \o UpdateViews /\ Tail(main) \in Seq(Blocks)
    BY <1>2, <1>3 DEF Done
  <2>. QED  BY <1>2, <1>3, <1>6, <2>1, ReloadBlock, DistinctTail, DistinctCat DEF RInv
<1>9. \A q \in DOMAIN rounds' : RoundSound(rounds[q])'
  <2>1. Members(rounds'[r].got) = {}
    BY <1>5 DEF Members
  <2>2. RoundSound(rounds[r])'
    BY <1>4, <1>5, <2>1 DEF RInv, RoundSound
  <2>3. ASSUME NEW q \in DOMAIN rounds, q # r  PROVE RoundSound(rounds[q])'
    BY <1>2, <1>5, <2>3 DEF RInv, RoundSound, Kept
  <2>. QED  BY <1>5, <2>2, <2>3
<1>10. \A m \in Members(main') : BlockSound(m)'
  <2>1. ASSUME NEW m \in Members(Tail(main))  PROVE BlockSound(m)'
    <3>1. BlockSound(m)
      BY <1>7, <2>1 DEF RInv
    <3>2. CASE m.round = r
      BY <1>4, <1>5, <3>1, <3>2 DEF BlockSound
    <3>3. CASE m.round # r
      BY <1>2, <1>5, <3>1, <3>3 DEF BlockSound, Kept
    <3>. QED  BY <3>2, <3>3
  <2>2. ASSUME NEW m \in Members(UpdateViews)  PROVE BlockSound(m)'
    BY <1>6, <2>2 DEF BlockSound
  <2>. QED  BY <1>7, <2>1, <2>2
<1>. QED  BY <1>8, <1>9, <1>10 DEF RInv

LEMMA ScreenRounds ==
  ASSUME IInv, RInv,
         Tell \/ Acknowledge \/ ViewDidLoad \/ PullDown \/ AfterDelete \/ ReloadData
  PROVE  RInv'
<1>1. docs' = docs /\ rounds' = rounds
  BY DEF Tell, Acknowledge, ViewDidLoad, PullDown, AfterDelete, ReloadData, LoadData, database
<1>2. ASSUME Tell  PROVE RInv'
  <2>1. PICK d, s : d = due /\ s = [i \in 1 .. d |-> Snapshot(docs)]
    OBVIOUS
  <2>2. main' = main \o s
    BY <1>2, <2>1 DEF Tell
  <2>3. Snapshot(docs) \in Blocks /\ Snapshot(docs).kind = "snapshot" /\ d \in Nat
    BY <2>1 DEF Snapshot, Blocks, IInv, TypeOK
  <2>4. s \in Seq(Blocks) /\ \A m \in Members(s) : m = Snapshot(docs)
    BY <2>1, <2>3 DEF Members
  <2>5. \A m \in Members(s) : m.kind \notin {"outcome", "notify"}
    BY <2>3, <2>4
  <2>. QED  BY <1>1, <2>2, <2>4, <2>5, PlainBlocks
<1>3. ASSUME Acknowledge  PROVE RInv'
  <2>1. Deleted \in Blocks /\ Deleted.kind = "deleted"
    BY DEF Deleted, Blocks
  <2>2. <<Deleted>> \in Seq(Blocks) /\ Members(<<Deleted>>) = {Deleted}
    BY <2>1, OneMember
  <2>3. main' = main \o <<Deleted>>
    <3>1. main' = Append(main, Deleted) /\ main \in Seq(Blocks)
      BY <1>3 DEF Acknowledge, IInv, TypeOK
    <3>. QED  BY <2>1, <3>1
  <2>. QED  BY <1>1, <2>1, <2>2, <2>3, PlainBlocks
<1>4. \A m \in Members(UpdateViews) : m.kind \notin {"outcome", "notify"}
  BY ReloadBlock
<1>5. ASSUME ViewDidLoad \/ PullDown  PROVE RInv'
  <2>1. main' = main \o UpdateViews
    BY <1>5 DEF ViewDidLoad, PullDown
  <2>. QED  BY <1>1, <1>4, <2>1, ReloadBlock, PlainBlocks
<1>6. ASSUME AfterDelete  PROVE RInv'
  <2>1. main # <<>> /\ Done(UpdateViews)
    BY <1>6 DEF AfterDelete, Turn
  <2>. QED  BY <1>1, <1>4, <2>1, ReloadBlock, PlainBlocks
<1>7. ASSUME ReloadData  PROVE RInv'
  <2>1. main # <<>> /\ Done(<<>>)
    BY <1>7 DEF ReloadData, Turn
  <2>2. <<>> \in Seq(Blocks) /\ Members(<<>>) = {}
    BY NoMembers
  <2>. QED  BY <1>1, <2>1, <2>2, PlainBlocks
<1>. QED  BY <1>2, <1>3, <1>5, <1>6, <1>7

LEMMA SameStateRounds ==
  ASSUME RInv, UNCHANGED <<docs, main, rounds>>
  PROVE  RInv'
  BY DEF RInv, RoundSound, BlockSound, Kept

LEMMA RInvStep == IInv /\ RInv /\ [Next]_vars => RInv'
<1>. SUFFICES ASSUME IInv, RInv, [Next]_vars  PROVE RInv'
  OBVIOUS
<1>1. CASE Change \/ Tell \/ Acknowledge \/ ViewDidLoad \/ PullDown
  BY <1>1, ChangeRounds, ScreenRounds
<1>2. CASE AnswerSome
  BY <1>2, AnswerRounds DEF AnswerSome
<1>3. ASSUME NEW n \in Names, NEW i \in DOMAIN table[n], Swipe(n, i)  PROVE RInv'
  BY <1>3, SwipeRounds
<1>4. ASSUME NEW n \in Names, NEW i \in DOMAIN table[n], CrashOnRow(n, i)  PROVE RInv'
  BY <1>4, SameStateRounds DEF CrashOnRow, database
<1>5. CASE CrashOnMissing
  BY <1>5, SameStateRounds DEF CrashOnMissing, database
<1>6. CASE RunBlock
  BY <1>5, <1>6, StartRoundRounds, TakeBucketRounds, DeliverRounds, ScreenRounds DEF RunBlock
<1>7. CASE UNCHANGED vars
  BY <1>7, SameStateRounds DEF vars, database
<1>. QED  BY <1>1, <1>2, <1>3, <1>4, <1>6, <1>7 DEF Next

----------------------------------------------------------------------------
(* The theorems.                                                           *)

\* IInv and RInv are inductive: a screen's rows need to know of the rounds only
\* that each answer on the main queue belongs to one (fetchBuckets, loadData).
THEOREM Inductive == Spec => [](IInv /\ RInv)
<1>1. Init => IInv /\ RInv
  BY InitInv
<1>2. (IInv /\ RInv) /\ [Next]_vars => (IInv /\ RInv)'
  BY IInvStep, RInvStep
<1>. QED  BY <1>1, <1>2, PTL DEF Spec

\* Every variable keeps its type.
THEOREM TypeCorrect == Spec => []TypeOK
<1>1. IInv /\ RInv => TypeOK
  BY DEF IInv
<1>. QED  BY <1>1, Inductive, PTL

\* For any number of listeners and rounds, a bucket has one row, in its section
\* (loadData appends what the sections do not contain).
THEOREM OneRowEach == Spec => []EachOnce
<1>1. IInv /\ RInv => EachOnce
  BY DEF IInv
<1>. QED  BY <1>1, Inductive, PTL

\* A change of the sections is followed by a reload of the table (updateViews).
THEOREM TableFollows == Spec => []RowsCatchUp
<1>1. IInv /\ RInv => RowsCatchUp
  BY DEF IInv
<1>. QED  BY <1>1, Inductive, PTL

\* Unless the screen was just pulled down, the row that is swiped is the bucket
\* that is deleted (commit editingStyle looks it up in the sections).
THEOREM SwipedIsDeleted == Spec => []RowIsBucket
<1>1. IInv /\ RInv => RowIsBucket
  BY DEF IInv
<1>. QED  BY <1>1, Inductive, PTL

\* Sections grow with an answer only.
LEMMA Growth ==
  ASSUME IInv, RInv, [Next]_vars, NEW n \in Names,
         NEW b \in Members(sections'[n]) \ Members(sections[n])
  PROVE  b \in docs \/ b \in rounds[Head(main).round].past
<1>1. CASE Deliver
  <2>1. PICK h, r : h = Head(main) /\ r = h.round
    OBVIOUS
  <2>2. main # <<>> /\ h.kind = "notify"
    BY <1>1, <2>1 DEF Deliver, Turn
  <2>3. h \in Members(main)
    BY <2>1, <2>2, TailMembers DEF IInv, TypeOK
  <2>4. r \in DOMAIN rounds
    BY <2>1, <2>2, <2>3 DEF RInv, BlockSound
  <2>5. b \in Members(rounds[r].got)
    BY <1>1, <2>1, SectionFacts
  <2>. QED  BY <2>1, <2>4, <2>5 DEF RInv, RoundSound, Kept
<1>2. CASE LoadData
  <2>1. sections' = NoRows
    BY <1>2 DEF LoadData
  <2>. QED  BY <2>1, NoRowsFacts
<1>3. CASE UNCHANGED sections
  BY <1>3
<1>4. Deliver \/ LoadData \/ UNCHANGED sections
  BY DEF Next, Change, Tell, AnswerSome, Answer, Acknowledge, ViewDidLoad, PullDown, Swipe,
         CrashOnRow, RunBlock, StartRound, TakeBucket, CrashOnMissing, AfterDelete, ReloadData,
         screen, vars
<1>. QED  BY <1>1, <1>2, <1>3, <1>4

\* Whatever the screen gains is there, or it was deleted while its round was under
\* way: no later round brings it back (the closure of loadData).
THEOREM OldRoundsRevive == Spec => OnlyOldRoundsRevive
<1>1. IInv /\ RInv /\ [Next]_vars =>
        [\A n \in Names : \A b \in Members(sections'[n]) \ Members(sections[n]) :
           b \in docs \/ b \in rounds[Head(main).round].past]_vars
  BY Growth
<1>. QED  BY <1>1, Inductive, PTL DEF Spec, OnlyOldRoundsRevive
----------------------------------------------------------------------------
(* No bucket is forgotten.                                                 *)

Busy(round) == round.inside # {} \/ round.got # <<>>

Comes(b) ==
  \/ \E n \in Names : b \in Members(sections[n])
  \/ due > 0
  \/ \E m \in Members(main) : m.kind = "snapshot" /\ b \in m.ids
  \/ \E r \in DOMAIN rounds : b \in rounds[r].inside \cup Members(rounds[r].got)

RoundsGoOn == \A r \in DOMAIN rounds : Busy(rounds[r]) => UnderWay(r)

\* The inductive invariant: every round that has something goes on.
UInv ==
  errors = 0 /\ ~crashed => RoundsGoOn /\ (listeners > 0 => \A b \in docs : Comes(b))

\* Appending all the new elements leaves out none of the answer.
LEMMA ExtendedHasAll ==
  ASSUME NEW old \in Seq(Buckets), NEW n \in Names, NEW result,
         NEW s \in Extended(old, result, n), NEW b \in Members(result) \cap OfSection(n)
  PROVE  b \in Members(s)
<1>. DEFINE new == New(old, result, n)
<1>1. new \subseteq Buckets /\ IsFiniteSet(new)
  BY PublicAssumption, FS_Subset DEF New, OfSection
<1>2. PICK t \in [1 .. Cardinality(new) -> new] : Once(t) /\ s = old \o t
  BY DEF Extended
<1>3. b \in Members(old) \/ b \in new
  BY DEF New
<1>. HIDE DEF new
<1>4. Cardinality(new) \in Nat
  BY <1>1, FS_CardinalityType
<1>5. DOMAIN t = 1 .. Cardinality(new) /\ t \in Seq(Buckets)
  <2>1. PICK k \in Nat : k = Cardinality(new)
    BY <1>4
  <2>2. t \in [1 .. k -> Buckets]
    BY <1>1, <1>2, <2>1
  <2>. QED  BY <2>1, <2>2
<1>6. t \in Injection(1 .. Cardinality(new), new)
  BY <1>2, <1>5 DEF Injection, IsInjective, Once
<1>7. Cardinality(1 .. Cardinality(new)) = Cardinality(new)
  BY <1>4, FS_Interval
<1>8. t \in Surjection(1 .. Cardinality(new), new)
  BY <1>1, <1>6, <1>7, FS_Injection
<1>9. new \subseteq Members(t)
  BY <1>5, <1>8 DEF Surjection, Members
<1>10. Members(s) = Members(old) \cup Members(t)
  BY <1>2, <1>5, CatMembers
<1>. QED  BY <1>3, <1>9, <1>10

LEMMA SectionsKeepAll ==
  ASSUME IInv, Deliver
  PROVE  \A b \in Buckets :
           (\E n \in Names : b \in Members(sections[n]))
             \/ b \in Members(rounds[Head(main).round].got)
           => \E n \in Names : b \in Members(sections'[n])
<1>. DEFINE result == rounds[Head(main).round].got
<1>1. PICK pub \in Extended(sections["public"], result, "public"),
           per \in Extended(sections["personal"], result, "personal") :
        sections' = [n \in Names |-> IF n = "public" THEN pub ELSE per]
  BY DEF Deliver
<1>. HIDE DEF result
<1>2. \A n \in Names : sections[n] \in Seq(Buckets)
  BY DEF IInv, TypeOK
<1>3. \A n \in Names : sections'[n] \in Extended(sections[n], result, n)
  BY <1>1 DEF Names
<1>4. ASSUME NEW b \in Buckets, b \in Members(result)
      PROVE  \E n \in Names : b \in Members(sections'[n])
  <2>1. PICK n \in Names : b \in OfSection(n)
    BY DEF Names, OfSection
  <2>2. sections[n] \in Seq(Buckets) /\ sections'[n] \in Extended(sections[n], result, n)
    BY <1>2, <1>3
  <2>3. b \in Members(sections'[n])
    BY <1>4, <2>1, <2>2, ExtendedHasAll
  <2>. QED  BY <2>3
<1>5. ASSUME NEW n \in Names, NEW b \in Members(sections[n])
      PROVE  b \in Members(sections'[n])
  <2>1. Prefix(sections[n], sections'[n])
    BY SectionFacts
  <2>2. sections[n] \in Seq(Buckets) /\ sections'[n] \in Seq(Buckets)
    BY <1>2, SectionFacts
  <2>. QED  BY <2>1, <2>2 DEF Prefix, Members
<1>6. ASSUME NEW b \in Buckets,
             (\E n \in Names : b \in Members(sections[n])) \/ b \in Members(result)
      PROVE  \E n \in Names : b \in Members(sections'[n])
  BY <1>4, <1>5, <1>6
<1>. QED  BY <1>6 DEF result

\* A step that leaves the rounds what they wait for and have, and the outcomes and
\* notifications on the queue, lets them go on.
LEMMA GoOn ==
  ASSUME RoundsGoOn, DOMAIN rounds' = DOMAIN rounds,
         \A r \in DOMAIN rounds : /\ rounds'[r].open = rounds[r].open
                                  /\ rounds'[r].inside = rounds[r].inside
                                  /\ rounds'[r].got = rounds[r].got,
         \A m \in Members(main) : m.kind \in {"outcome", "notify"} => m \in Members(main')
  PROVE  RoundsGoOn'
<1>1. \A r : Notify(r).kind = "notify" /\ Notify(r)' = Notify(r)
  BY DEF Notify
<1>. QED  BY <1>1 DEF RoundsGoOn, UnderWay, Busy

\* The documents that come with something still come with it.
LEMMA ComeOn ==
  ASSUME NEW b, Comes(b), due > 0 => due' > 0,
         \A n \in Names : Members(sections[n]) \subseteq Members(sections'[n]),
         \A m \in Members(main) : m.kind = "snapshot" => m \in Members(main'),
         \A r \in DOMAIN rounds : /\ r \in DOMAIN rounds'
                                  /\ rounds[r].inside \subseteq
                                       rounds'[r].inside \cup Members(rounds'[r].got)
                                  /\ Members(rounds[r].got) \subseteq Members(rounds'[r].got)
  PROVE  Comes(b)'
  BY DEF Comes

LEMMA SameRoundsU ==
  ASSUME rounds' = rounds
  PROVE  /\ DOMAIN rounds' = DOMAIN rounds
         /\ \A r \in DOMAIN rounds : /\ rounds'[r].open = rounds[r].open
                                     /\ rounds'[r].inside = rounds[r].inside
                                     /\ rounds'[r].got = rounds[r].got
  OBVIOUS

LEMMA ChangeU ==
  ASSUME IInv, UInv, errors' = errors, crashed' = crashed,
         \/ Change
         \/ \E n \in Names : \E i \in DOMAIN table[n] : Swipe(n, i)
  PROVE  UInv'
<1>1. /\ main' = main /\ sections' = sections /\ listeners' = listeners
      /\ DOMAIN rounds' = DOMAIN rounds
      /\ \A r \in DOMAIN rounds : /\ rounds'[r].open = rounds[r].open
                                  /\ rounds'[r].inside = rounds[r].inside
                                  /\ rounds'[r].got = rounds[r].got
      /\ \/ due' = listeners
         \/ due' = due /\ docs' \subseteq docs
  <2>1. CASE Change
    <3>1. CASE rounds' = rounds
      BY <2>1, <3>1, SameRoundsU DEF Change, AllHear, screen
    <3>2. CASE rounds' # rounds
      <4>1. PICK b \in docs : MarkPast(b)
        BY <2>1, <3>2 DEF Change
      <4>2. b \in Buckets
        BY DEF IInv, TypeOK
      <4>. QED  BY <2>1, <4>1, <4>2, PastFacts DEF Change, AllHear, screen, IInv
    <3>. QED  BY <3>1, <3>2
  <2>2. CASE \E n \in Names : \E i \in DOMAIN table[n] : Swipe(n, i)
    <3>0. PICK n \in Names : \E i \in DOMAIN table[n] : Swipe(n, i)
      BY <2>2
    <3>1. PICK i \in DOMAIN table[n] : Swipe(n, i)
      BY <3>0
    <3>2. sections[n][i] \in Buckets
      BY <3>1 DEF Swipe, TypeOK, IInv
    <3>. QED  BY <3>1, <3>2, PastFacts DEF Swipe, AllHear, screen, IInv
  <2>. QED  BY <2>1, <2>2
<1>2. RoundsGoOn => RoundsGoOn'
  BY <1>1, GoOn
<1>3. ASSUME due' = due, docs' \subseteq docs, NEW b \in docs', Comes(b)  PROVE Comes(b)'
  BY <1>1, <1>3, ComeOn
<1>4. ASSUME due' = listeners, listeners > 0, NEW b  PROVE Comes(b)'
  BY <1>4 DEF Comes
<1>. QED  BY <1>1, <1>2, <1>3, <1>4 DEF UInv

LEMMA TellU ==
  ASSUME IInv, UInv, Tell
  PROVE  UInv'
<1>1. PICK d, x, s : d = due /\ x = Snapshot(docs) /\ s = [i \in 1 .. d |-> x]
  OBVIOUS
<1>2. main' = main \o s /\ d > 0 /\ d \in Nat
  BY <1>1 DEF Tell, IInv, TypeOK
<1>3. x \in Blocks /\ x.kind = "snapshot" /\ x.ids = docs
  BY <1>1 DEF Snapshot, Blocks, IInv, TypeOK
<1>4. s \in Seq(Blocks) /\ x \in Members(s)
  <2>1. s \in Seq(Blocks) /\ DOMAIN s = 1 .. d /\ 1 \in 1 .. d /\ s[1] = x
    BY <1>1, <1>2, <1>3
  <2>. QED  BY <2>1 DEF Members
<1>5. Members(main) \subseteq Members(main') /\ x \in Members(main')
  BY <1>2, <1>4, GrowFacts DEF IInv
<1>6. UNCHANGED <<rounds, docs, listeners, errors, crashed>>
  BY DEF Tell, bounds
<1>7. RoundsGoOn => RoundsGoOn'
  BY <1>5, <1>6, SameRoundsU, GoOn
<1>8. \A b \in docs : Comes(b)'
  BY <1>3, <1>5 DEF Comes
<1>. QED  BY <1>6, <1>7, <1>8 DEF UInv

LEMMA AnswerU ==
  ASSUME IInv, UInv, NEW r \in DOMAIN rounds, NEW b \in Buckets, Answer(r, b)
  PROVE  UInv'
<1>1. /\ rounds' = [rounds EXCEPT ![r].open = @ \ {b}]
      /\ docs' = docs /\ listeners' = listeners /\ due' = due /\ sections' = sections
      /\ crashed' = crashed
  BY DEF Answer, database, screen
<1>2. /\ DOMAIN rounds' = DOMAIN rounds
      /\ \A q \in DOMAIN rounds : q # r => rounds'[q] = rounds[q]
      /\ rounds'[r].open = rounds[r].open \ {b} /\ rounds'[r].inside = rounds[r].inside
      /\ rounds'[r].got = rounds[r].got
  <2>1. /\ DOMAIN rounds' = DOMAIN rounds
        /\ \A q \in DOMAIN rounds : q # r => rounds'[q] = rounds[q]
        /\ rounds'[r] = [rounds[r] EXCEPT !.open = @ \ {b}]
    BY <1>1 DEF IInv, TypeOK
  <2>. QED  BY <2>1, RoundFields DEF IInv, Rounds
<1>3. CASE errors' = errors + 1
  BY <1>3 DEF UInv, IInv, TypeOK
<1>4. CASE main' = Append(main, Outcome(r, b, b \in docs)) /\ errors' = errors
  <2>1. PICK x : x = Outcome(r, b, b \in docs)
    OBVIOUS
  <2>2. x \in Blocks /\ x.kind = "outcome" /\ x.round = r /\ x.id = b
    BY <2>1 DEF Outcome, Blocks, IInv, TypeOK
  <2>3. Members(main) \subseteq Members(main') /\ x \in Members(main')
    <3>1. main \in Seq(Blocks) /\ main' = Append(main, x)
      BY <1>4, <2>1 DEF IInv, TypeOK
    <3>2. main' = main \o <<x>> /\ <<x>> \in Seq(Blocks) /\ Members(<<x>>) = {x}
      BY <2>2, <3>1, OneMember
    <3>. QED  BY <3>2, GrowFacts DEF IInv
  <2>4. \A c \in docs : Comes(c) => Comes(c)'
    <3>1. \A q \in DOMAIN rounds : /\ rounds'[q].inside = rounds[q].inside
                                   /\ rounds'[q].got = rounds[q].got
      BY <1>2
    <3>. QED  BY <1>1, <1>2, <2>3, <3>1, ComeOn
  <2>5. ASSUME RoundsGoOn  PROVE RoundsGoOn'
    <3>1. ASSUME NEW q \in DOMAIN rounds, Busy(rounds'[q])  PROVE UnderWay(q)'
      <4>1. UnderWay(q)
        BY <1>2, <2>5, <3>1 DEF RoundsGoOn, Busy
      <4>2. Notify(q)' = Notify(q)
        BY DEF Notify
      <4>3. ASSUME NEW e \in rounds[q].inside
            PROVE  \/ e \in rounds'[q].open
                   \/ \E m \in Members(main') :
                        m.kind = "outcome" /\ m.round = q /\ m.id = e
        <5>1. CASE q = r /\ e = b
          BY <2>2, <2>3, <5>1
        <5>2. CASE q # r \/ e # b
          BY <1>2, <2>3, <4>1, <4>3, <5>2 DEF UnderWay
        <5>. QED  BY <5>1, <5>2
      <4>4. rounds'[q].inside = rounds[q].inside
        BY <1>2
      <4>. QED  BY <2>3, <4>1, <4>2, <4>3, <4>4 DEF UnderWay
    <3>. QED  BY <1>2, <3>1 DEF RoundsGoOn
  <2>. QED  BY <1>1, <1>4, <2>4, <2>5 DEF UInv
<1>. QED  BY <1>3, <1>4 DEF Answer

\* The sections are emptied, and a new listener is to be told.
LEMMA LoadU ==
  ASSUME IInv, UInv, ViewDidLoad \/ PullDown \/ AfterDelete
  PROVE  UInv'
<1>1. /\ rounds' = rounds /\ errors' = errors /\ crashed' = crashed /\ due' = due + 1
  BY DEF ViewDidLoad, PullDown, AfterDelete, LoadData, bounds
<1>2. \A m \in Members(main) : m.kind \in {"outcome", "notify"} => m \in Members(main')
  <2>1. CASE ViewDidLoad \/ PullDown
    BY <2>1, ReloadBlock, GrowFacts DEF ViewDidLoad, PullDown, IInv
  <2>2. CASE AfterDelete
    BY <2>2, ReloadBlock, QueueFacts DEF AfterDelete, Turn, IInv
  <2>. QED  BY <2>1, <2>2
<1>3. RoundsGoOn => RoundsGoOn'
  BY <1>1, <1>2, SameRoundsU, GoOn
<1>4. due' > 0
  BY <1>1 DEF IInv, TypeOK
<1>. QED  BY <1>1, <1>3, <1>4 DEF UInv, Comes

LEMMA StartRoundU ==
  ASSUME IInv, UInv, StartRound
  PROVE  UInv'
<1>1. PICK h, S, n, blocks :
        /\ h = Head(main) /\ S = h.ids /\ n = Len(rounds) + 1
        /\ blocks = IF S = {} THEN <<Notify(n)>> ELSE <<>>
  OBVIOUS
<1>2. PICK new : new = [open |-> S, inside |-> S, got |-> <<>>, past |-> {}]
  OBVIOUS
<1>3. /\ main # <<>> /\ Done(blocks) /\ rounds' = Append(rounds, new) /\ h.kind = "snapshot"
      /\ docs' = docs /\ listeners' = listeners /\ due' = due /\ sections' = sections
      /\ errors' = errors /\ crashed' = crashed
  BY <1>1, <1>2 DEF StartRound, Turn, database, screen, bounds
<1>4. rounds \in Seq(Rounds) /\ n \in Nat /\ DOMAIN rounds = 1 .. n - 1
  BY <1>1 DEF IInv, TypeOK
<1>5. blocks \in Seq(Blocks)
  <2>1. Notify(n) \in Blocks
    BY <1>4 DEF Notify, Blocks
  <2>. QED  BY <1>1, <2>1
<1>6. /\ Members(main) = {h} \cup Members(Tail(main))
      /\ Members(main') = Members(Tail(main)) \cup Members(blocks)
  BY <1>1, <1>3, <1>5, QueueFacts DEF IInv
<1>7. /\ DOMAIN rounds' = DOMAIN rounds \cup {n} /\ rounds'[n] = new
      /\ \A q \in DOMAIN rounds : rounds'[q] = rounds[q]
  BY <1>1, <1>3, <1>4
<1>8. ASSUME RoundsGoOn  PROVE RoundsGoOn'
  <2>1. ASSUME NEW q \in DOMAIN rounds, Busy(rounds'[q])  PROVE UnderWay(q)'
    <3>1. UnderWay(q) /\ Notify(q)' = Notify(q) /\ Notify(q).kind = "notify"
      BY <1>7, <1>8, <2>1 DEF RoundsGoOn, Notify
    <3>. QED  BY <1>3, <1>6, <1>7, <3>1 DEF UnderWay
  <2>2. ASSUME Busy(rounds'[n])  PROVE UnderWay(n)'
    BY <1>2, <1>7, <2>2 DEF Busy, UnderWay
  <2>. QED  BY <1>7, <2>1, <2>2 DEF RoundsGoOn
<1>9. ASSUME NEW b, Comes(b)  PROVE Comes(b)'
  <2>1. CASE b \in S
    BY <1>2, <1>7, <2>1 DEF Comes
  <2>2. CASE b \notin S
    <3>1. CASE \E m \in Members(main) : m.kind = "snapshot" /\ b \in m.ids
      BY <1>1, <1>6, <2>2, <3>1 DEF Comes
    <3>2. CASE \E r \in DOMAIN rounds : b \in rounds[r].inside \cup Members(rounds[r].got)
      BY <1>7, <3>2 DEF Comes
    <3>. QED  BY <1>3, <1>9, <3>1, <3>2 DEF Comes
  <2>. QED  BY <2>1, <2>2
<1>. QED  BY <1>3, <1>8, <1>9 DEF UInv
LEMMA TakeBucketU ==
  ASSUME IInv, RInv, UInv, TakeBucket
  PROVE  UInv'
<1>1. PICK h, r, b, x, blocks :
        /\ h = Head(main) /\ r = h.round /\ b = h.id /\ x = Notify(r)
        /\ blocks = IF rounds[r].inside = {b} THEN <<x>> ELSE <<>>
  OBVIOUS
<1>2. /\ main # <<>> /\ Done(blocks) /\ h.kind = "outcome"
      /\ rounds' = [rounds EXCEPT ![r].got = Append(@, b), ![r].inside = @ \ {b}]
      /\ docs' = docs /\ listeners' = listeners /\ due' = due /\ sections' = sections
      /\ errors' = errors /\ crashed' = crashed
  BY <1>1 DEF TakeBucket, Turn, database, screen, bounds
<1>3. main \in Seq(Blocks) /\ h \in Blocks /\ h \in Members(main)
  BY <1>1, <1>2, TailMembers DEF IInv, TypeOK
<1>4. /\ r \in DOMAIN rounds /\ b \in rounds[r].inside /\ b \in Buckets /\ r \in Nat
  <2>1. r \in DOMAIN rounds /\ b \in rounds[r].inside
    BY <1>1, <1>2, <1>3 DEF RInv, BlockSound
  <2>. QED  BY <2>1, RoundFields DEF IInv, TypeOK
<1>5. /\ DOMAIN rounds' = DOMAIN rounds
      /\ \A q \in DOMAIN rounds : q # r => rounds'[q] = rounds[q]
      /\ rounds'[r].open = rounds[r].open
      /\ rounds'[r].inside = rounds[r].inside \ {b}
      /\ rounds'[r].got = rounds[r].got \o <<b>>
  BY <1>2, <1>4, TakeFacts DEF IInv
<1>6. Members(rounds'[r].got) = Members(rounds[r].got) \cup {b}
  <2>1. PICK g, t : g = rounds[r].got /\ t = <<b>>
    OBVIOUS
  <2>2. g \in Seq(Buckets) /\ t \in Seq(Buckets) /\ Members(t) = {b}
    BY <1>4, <2>1, RoundFields, OneMember DEF IInv
  <2>3. Members(g \o t) = Members(g) \cup Members(t)
    BY <2>2, CatMembers
  <2>. QED  BY <1>5, <2>1, <2>2, <2>3
<1>7. x \in Blocks
  BY <1>1, <1>4 DEF Notify, Blocks
<1>8. /\ blocks \in Seq(Blocks)
      /\ rounds[r].inside = {b} => x \in Members(blocks)
  BY <1>1, <1>7, OneMember
<1>9. /\ Members(main) = {h} \cup Members(Tail(main))
      /\ Members(main') = Members(Tail(main)) \cup Members(blocks)
  BY <1>1, <1>2, <1>8, QueueFacts DEF IInv
<1>10. ASSUME RoundsGoOn  PROVE RoundsGoOn'
  <2>1. ASSUME NEW q \in DOMAIN rounds, Busy(rounds'[q])  PROVE UnderWay(q)'
    <3>1. UnderWay(q) /\ Notify(q)' = Notify(q) /\ Notify(q).kind = "notify"
      BY <1>4, <1>5, <1>10, <2>1 DEF RoundsGoOn, Notify, Busy
    <3>2. CASE q # r
      BY <1>1, <1>2, <1>5, <1>9, <3>1, <3>2 DEF UnderWay
    <3>3. CASE q = r
      <4>1. ASSUME NEW e \in rounds'[r].inside, e \notin rounds'[r].open
            PROVE  \E m \in Members(main') : m.kind = "outcome" /\ m.round = r /\ m.id = e
        BY <1>1, <1>5, <1>9, <3>1, <3>3, <4>1 DEF UnderWay
      <4>2. rounds'[r].inside = {} => Notify(r) \in Members(main')
        BY <1>1, <1>4, <1>5, <1>8, <1>9
      <4>. QED  BY <3>1, <3>3, <4>1, <4>2 DEF UnderWay
    <3>. QED  BY <3>2, <3>3
  <2>. QED  BY <1>5, <2>1 DEF RoundsGoOn
<1>11. \A c \in docs : Comes(c) => Comes(c)'
  <2>1. \A q \in DOMAIN rounds :
          /\ q \in DOMAIN rounds'
          /\ rounds[q].inside \subseteq rounds'[q].inside \cup Members(rounds'[q].got)
          /\ Members(rounds[q].got) \subseteq Members(rounds'[q].got)
    BY <1>5, <1>6
  <2>2. \A m \in Members(main) : m.kind = "snapshot" => m \in Members(main')
    BY <1>2, <1>9
  <2>. QED  BY <1>2, <2>1, <2>2, ComeOn
<1>. QED  BY <1>2, <1>10, <1>11 DEF UInv

LEMMA DeliverU ==
  ASSUME IInv, RInv, UInv, Deliver
  PROVE  UInv'
<1>1. PICK h, r : h = Head(main) /\ r = h.round
  OBVIOUS
<1>2. /\ main # <<>> /\ Done(UpdateViews) /\ h.kind = "notify"
      /\ rounds' = [rounds EXCEPT ![r].got = <<>>, ![r].past = {}]
      /\ docs' = docs /\ listeners' = listeners /\ due' = due
      /\ errors' = errors /\ crashed' = crashed
  BY <1>1 DEF Deliver, Turn, database, bounds
<1>3. main \in Seq(Blocks) /\ h \in Blocks /\ h \in Members(main)
  BY <1>1, <1>2, TailMembers DEF IInv, TypeOK
<1>4. r \in DOMAIN rounds /\ rounds[r].inside = {}
  BY <1>1, <1>2, <1>3 DEF RInv, BlockSound
<1>5. /\ DOMAIN rounds' = DOMAIN rounds
      /\ \A q \in DOMAIN rounds : q # r => rounds'[q] = rounds[q]
      /\ rounds'[r].open = rounds[r].open /\ rounds'[r].inside = rounds[r].inside
      /\ rounds'[r].got = <<>>
  BY <1>2, <1>4, DeliverFacts DEF IInv
<1>6. /\ Members(main) = {h} \cup Members(Tail(main))
      /\ Members(main') = Members(Tail(main)) \cup Members(UpdateViews)
  BY <1>1, <1>2, ReloadBlock, QueueFacts DEF IInv
<1>7. h = Notify(r)
  BY <1>1, <1>2, <1>3 DEF Notify, Blocks
<1>8. ASSUME RoundsGoOn  PROVE RoundsGoOn'
  <2>1. ASSUME NEW q \in DOMAIN rounds, Busy(rounds'[q])  PROVE UnderWay(q)'
    <3>1. q # r
      BY <1>4, <1>5, <2>1 DEF Busy
    <3>2. UnderWay(q) /\ Notify(q)' = Notify(q) /\ Notify(q) # h
      BY <1>1, <1>5, <1>8, <2>1, <3>1 DEF RoundsGoOn, Notify
    <3>. QED  BY <1>2, <1>5, <1>6, <3>1, <3>2 DEF UnderWay
  <2>. QED  BY <1>5, <2>1 DEF RoundsGoOn
<1>9. ASSUME NEW b \in docs, Comes(b)  PROVE Comes(b)'
  <2>1. b \in Buckets
    BY DEF IInv, TypeOK
  <2>2. CASE (\E n \in Names : b \in Members(sections[n])) \/ b \in Members(rounds[r].got)
    BY <1>1, <2>1, <2>2, SectionsKeepAll DEF Comes
  <2>3. CASE \E m \in Members(main) : m.kind = "snapshot" /\ b \in m.ids
    BY <1>2, <1>6, <2>3 DEF Comes
  <2>4. CASE \E q \in DOMAIN rounds : q # r /\ b \in rounds[q].inside \cup Members(rounds[q].got)
    BY <1>5, <2>4 DEF Comes
  <2>. QED  BY <1>2, <1>4, <1>9, <2>2, <2>3, <2>4 DEF Comes
<1>. QED  BY <1>2, <1>8, <1>9 DEF UInv

\* Blocks that concern no round come or go.
LEMMA OtherU ==
  ASSUME IInv, UInv, Acknowledge \/ ReloadData
  PROVE  UInv'
<1>1. \A m \in Members(main) : m.kind \in {"outcome", "notify", "snapshot"} => m \in Members(main')
  <2>1. CASE Acknowledge
    <3>1. Deleted \in Blocks /\ main \in Seq(Blocks)
      BY DEF Deleted, Blocks, IInv, TypeOK
    <3>2. <<Deleted>> \in Seq(Blocks) /\ main' = main \o <<Deleted>>
      BY <2>1, <3>1 DEF Acknowledge
    <3>. QED  BY <3>2, GrowFacts DEF IInv
  <2>2. CASE ReloadData
    <3>1. <<>> \in Seq(Blocks)
      OBVIOUS
    <3>. QED  BY <2>2, <3>1, QueueFacts DEF ReloadData, Turn, IInv
  <2>. QED  BY <2>1, <2>2
<1>2. UNCHANGED <<docs, listeners, due, rounds, sections, errors, crashed>>
  BY DEF Acknowledge, ReloadData, screen, bounds, database
<1>3. RoundsGoOn => RoundsGoOn'
  BY <1>1, <1>2, SameRoundsU, GoOn
<1>4. \A b \in docs : Comes(b) => Comes(b)'
  BY <1>1, <1>2, ComeOn
<1>. QED  BY <1>2, <1>3, <1>4 DEF UInv

LEMMA UInvStep == IInv /\ RInv /\ UInv /\ [Next]_vars => UInv'
<1>. SUFFICES ASSUME IInv, RInv, UInv, [Next]_vars  PROVE UInv'
  OBVIOUS
<1>1. CASE Change \/ \E n \in Names : \E i \in DOMAIN table[n] : Swipe(n, i)
  <2>1. errors' = errors /\ crashed' = crashed
    BY <1>1 DEF Change, Swipe
  <2>. QED  BY <1>1, <2>1, ChangeU
<1>2. CASE Tell \/ Acknowledge \/ ViewDidLoad \/ PullDown \/ AfterDelete \/ ReloadData
  BY <1>2, TellU, LoadU, OtherU
<1>3. CASE AnswerSome
  BY <1>3, AnswerU DEF AnswerSome
<1>4. CASE StartRound \/ TakeBucket \/ Deliver
  BY <1>4, StartRoundU, TakeBucketU, DeliverU
<1>5. CASE crashed'
  BY <1>5 DEF UInv
<1>6. CASE UNCHANGED vars
  BY <1>6 DEF vars, database, screen, bounds, UInv, RoundsGoOn, Comes, UnderWay, Notify
<1>7. crashed' \in BOOLEAN
  BY IInvStep DEF IInv, TypeOK
<1>. QED  BY <1>1, <1>2, <1>3, <1>4, <1>5, <1>6 DEF Next, RunBlock, CrashOnRow, CrashOnMissing

\* While no request fails, each bucket there is is in a section of the open screen
\* or on its way there: no interleaving of changes, listeners and rounds forgets it
\* (loadData and its closure).
THEOREM ForgetsNone == Spec => []NoneForgotten
<1>1. Init => UInv
  BY DEF Init, UInv, RoundsGoOn
<1>2. IInv /\ RInv /\ UInv => NoneForgotten
  <2>. SUFFICES ASSUME IInv, UInv, listeners > 0, errors = 0, ~crashed, NEW b \in docs
                PROVE  \/ \E n \in Names : b \in Members(sections[n])
                       \/ due > 0
                       \/ \E m \in Members(main) : m.kind = "snapshot" /\ b \in m.ids
                       \/ \E r \in DOMAIN rounds :
                            b \in rounds[r].inside \cup Members(rounds[r].got) /\ UnderWay(r)
    BY DEF NoneForgotten
  <2>1. Comes(b) /\ RoundsGoOn
    BY DEF UInv
  <2>2. \A r \in DOMAIN rounds : b \in rounds[r].inside \cup Members(rounds[r].got) => Busy(rounds[r])
    BY DEF Busy, Members
  <2>. QED  BY <2>1, <2>2 DEF Comes, RoundsGoOn
<1>3. Spec => []UInv
  BY <1>1, UInvStep, Inductive, PTL DEF Spec
<1>. QED  BY <1>2, <1>3, Inductive, PTL
=============================================================================
