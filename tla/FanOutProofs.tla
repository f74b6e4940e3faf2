---------------------------- MODULE FanOutProofs ----------------------------
(***************************************************************************)
(* The functions that leave their group in the callback implement Gather,  *)
(* for any number of documents, calls, changes and errors.                 *)
(***************************************************************************)
EXTENDS FanOut, TLAPS

----------------------------------------------------------------------------
(* The inductive invariant.                                                *)

\* The group of a round has been left for exactly the entries that have come.
RoundOK(R) ==
  /\ R.open \subseteq R.inside
  /\ R.inside \subseteq R.ids
  /\ \A i \in DOMAIN R.got : R.got[i].id \in R.ids \ R.inside
  /\ \A d \in R.ids \ R.inside : \E i \in DOMAIN R.got : R.got[i].id = d
  /\ \A i, j \in DOMAIN R.got : R.got[i].id = R.got[j].id => i = j
  /\ R.answer # NotYet => R.inside = {}

\* Block B fits the rounds rs: an outcome is of a request whose group has still
\* to be left, a notification of a group that has been left for good and has not
\* notified yet.
BlockOK(rs, B) ==
  /\ B.kind = "outcome" =>
       B.round \in DOMAIN rs /\ B.id \in rs[B.round].inside \ rs[B.round].open
  /\ B.kind = "notify" =>
       B.round \in DOMAIN rs /\ rs[B.round].inside = {} /\ rs[B.round].answer = NotYet

\* Two outcomes of one request, or two notifications of one group.
Clash(A, B) ==
  \/ A.kind = "outcome" /\ B.kind = "outcome" /\ A.round = B.round /\ A.id = B.id
  \/ A.kind = "notify" /\ B.kind = "notify" /\ A.round = B.round

BlocksOK ==
  /\ \A i \in DOMAIN main : BlockOK(rounds, main[i])
  /\ \A i, j \in DOMAIN main : i # j => ~Clash(main[i], main[j])

GatherInv == BlocksOK /\ \A r \in DOMAIN rounds : RoundOK(rounds[r])

\* The functions at hand leave the group in the callback.
LeaveInCallback == "fetchAllPosts" \notin Funs

----------------------------------------------------------------------------
(* Types.                                                                  *)

LEMMA BlockType ==
  /\ \A S \in SUBSET Ids : Snapshot(S) \in Blocks
  /\ \A r \in Nat : Notify(r) \in Blocks
  /\ \A r \in Nat : \A d \in Ids : \A x \in {"found", "missing", "error"} :
       Outcome(r, d, x) \in Blocks
  BY DEF Blocks

LEMMA BlockFields ==
  ASSUME NEW B \in Blocks
  PROVE  /\ B.kind = "snapshot" => B.ids \in SUBSET Ids
         /\ B.kind = "outcome" =>
              B.round \in Nat /\ B.id \in Ids /\ B.result \in {"found", "missing", "error"}
         /\ B.kind = "notify" => B.round \in Nat
  BY DEF Blocks, Snapshot, Outcome, Notify

\* The main queue after its first block has run and put at most one more there.
LEMMA DoneBlocks ==
  ASSUME NEW T, main \in Seq(T), main # <<>>,
         NEW bs \in Seq(T), Len(bs) <= 1, Done(bs)
  PROVE  /\ main' \in Seq(T)
         /\ \A i \in DOMAIN main' :
              \/ i + 1 \in DOMAIN main /\ main'[i] = main[i + 1]
              \/ bs # <<>> /\ i = Len(main) /\ main'[i] = bs[1]
  BY DEF Done

LEMMA EnqueueBlock ==
  ASSUME NEW T, main \in Seq(T), NEW B \in T, Enqueue(<<B>>)
  PROVE  /\ main' \in Seq(T)
         /\ \A i \in DOMAIN main' :
              \/ i \in DOMAIN main /\ main'[i] = main[i]
              \/ i = Len(main) + 1 /\ main'[i] = B
  BY DEF Enqueue

LEMMA HeadBlock ==
  ASSUME main \in Seq(Blocks), main # <<>>
  PROVE  Head(main) \in Blocks /\ Head(main) = main[1] /\ 1 \in DOMAIN main
  OBVIOUS

LEMMA RoundFields ==
  ASSUME rounds \in Seq(Rounds), NEW r \in DOMAIN rounds
  PROVE  /\ rounds[r] \in Rounds
         /\ rounds[r].ids \subseteq Ids
         /\ rounds[r].open \subseteq Ids
         /\ rounds[r].inside \subseteq Ids
         /\ rounds[r].failed \subseteq Ids
         /\ rounds[r].got \in Seq(Entries)
         /\ rounds[r].answer \in Seq(Entries) \cup {NotYet}
         /\ r \in Nat
  <1>1. rounds[r] \in Rounds
    OBVIOUS
  <1> QED
    BY <1>1 DEF Rounds

\* A round with some fields replaced leaves the others alone.
LEMMA ReplaceRound ==
  ASSUME rounds \in Seq(Rounds), NEW r, NEW R, r \in DOMAIN rounds => R \in Rounds,
         rounds' = [rounds EXCEPT ![r] = R]
  PROVE  /\ rounds' \in Seq(Rounds)
         /\ DOMAIN rounds' = DOMAIN rounds
         /\ Len(rounds') = Len(rounds)
         /\ r \in DOMAIN rounds => rounds'[r] = R
         /\ \A q \in DOMAIN rounds : q # r => rounds'[q] = rounds[q]
  <1>1. DOMAIN rounds' = DOMAIN rounds
    OBVIOUS
  <1>2. /\ r \in DOMAIN rounds => rounds'[r] = R
        /\ \A q \in DOMAIN rounds : q # r => rounds'[q] = rounds[q]
    OBVIOUS
  <1>3. \A q \in DOMAIN rounds : rounds'[q] \in Rounds
    BY <1>2
  <1>4. Len(rounds) \in Nat /\ DOMAIN rounds = 1 .. Len(rounds)
    OBVIOUS
  <1>5. rounds' = [q \in 1 .. Len(rounds) |-> rounds'[q]]
    BY <1>1, <1>4
  <1>6. [q \in 1 .. Len(rounds) |-> rounds'[q]] \in Seq(Rounds)
    <2>1. \A q \in 1 .. Len(rounds) : rounds'[q] \in Rounds
      BY <1>3, <1>4
    <2> QED
      BY <2>1, <1>4
  <1>7. Len(rounds') = Len(rounds)
    BY <1>1, <1>4, <1>5, <1>6
  <1> QED
    BY <1>1, <1>2, <1>5, <1>6, <1>7

LEMMA TypeInit == Init => TypeOK
  <1> SUFFICES ASSUME Init PROVE TypeOK
    OBVIOUS
  <1>1. main \in Seq(Blocks) /\ rounds \in Seq(Rounds)
    BY DEF Init
  <1>2. due \in [Calls -> {"idle", "due", "told", "answered"}]
    BY DEF Init
  <1> QED
    BY <1>1, <1>2 DEF Init, TypeOK

\* What an answer makes of its round.
Answered(R, d, result) ==
  [R EXCEPT !.open = @ \ {d},
            !.failed = IF \/ result = "error"
                          \/ result = "missing" /\ fun = "fetchUsersData"
                         THEN @ \cup {d} ELSE @]

\* What a callback makes of its round.
Taken(R, B) ==
  [R EXCEPT !.got = Append(@, [id |-> B.id, found |-> B.result = "found"]),
            !.inside = @ \ {B.id}]

LEMMA TakeRound ==
  ASSUME TypeOK, NEW B \in Blocks, B.kind = "outcome", B.round \in DOMAIN rounds,
         rounds' = [rounds EXCEPT
            ![B.round].got = Append(@, [id |-> B.id, found |-> B.result = "found"]),
            ![B.round].inside = @ \ {B.id}]
  PROVE  /\ Taken(rounds[B.round], B) \in Rounds
         /\ rounds' = [rounds EXCEPT ![B.round] = Taken(rounds[B.round], B)]
  <1> DEFINE R == rounds[B.round]
             e == [id |-> B.id, found |-> B.result = "found"]
  <1>1. R \in Rounds
    BY DEF TypeOK
  <1>2. e \in Entries
    BY BlockFields DEF Entries
  <1>3. Append(R.got, e) \in Seq(Entries) /\ R.inside \ {B.id} \in SUBSET Ids
    <2> HIDE DEF e
    <2> QED
      BY <1>1, <1>2 DEF Rounds
  <1>4. Taken(R, B) \in Rounds
    <2> HIDE DEF e
    <2> DEFINE g == Append(R.got, e)
               s == R.inside \ {B.id}
    <2>1. Taken(R, B) = [R EXCEPT !.got = g, !.inside = s]
      BY DEF Taken, e
    <2> HIDE DEF g, s
    <2> QED
      BY <1>1, <1>3, <2>1 DEF Rounds, g, s
  <1>5. rounds' = [rounds EXCEPT ![B.round] = Taken(rounds[B.round], B)]
    BY <1>1 DEF Rounds, Taken
  <1> QED
    BY <1>4, <1>5

\* The types of the variables that a step on the main queue leaves alone.
LEMMA TypeRest ==
  ASSUME TypeOK, UNCHANGED <<fun, docs, due, changes, errors>>, crashed' \in BOOLEAN,
         main' \in Seq(Blocks), rounds' \in Seq(Rounds)
  PROVE  TypeOK'
  BY DEF TypeOK

LEMMA TypeFirestore ==
  ASSUME TypeOK,
         \/ Change
         \/ \E k \in Calls : Call(k) \/ Tell(k)
         \/ AnswerSome
  PROVE  TypeOK'
  <1>1. CASE Change
    <2>1. docs' \subseteq Ids
      BY <1>1 DEF Change, TypeOK
    <2>2. due' \in [Calls -> {"idle", "due", "told", "answered"}]
      BY <1>1 DEF Change, TypeOK
    <2>3. changes' \in Nat
      BY <1>1 DEF Change, TypeOK
    <2> QED
      BY <1>1, <2>1, <2>2, <2>3 DEF Change, TypeOK
  <1>2. ASSUME NEW k \in Calls, Call(k) PROVE TypeOK'
    BY <1>2 DEF Call, TypeOK
  <1>3. ASSUME NEW k \in Calls, Tell(k) PROVE TypeOK'
    <2>1. due' \in [Calls -> {"idle", "due", "told", "answered"}]
      BY <1>3 DEF Tell, TypeOK
    <2>2. \E S \in SUBSET Ids : Enqueue(<<Snapshot(S)>>)
      BY <1>3 DEF Tell, TypeOK
    <2>3. main' \in Seq(Blocks)
      BY <2>2, BlockType, EnqueueBlock DEF TypeOK
    <2> QED
      BY <1>3, <2>1, <2>3 DEF Tell, TypeOK
  <1>4. ASSUME NEW r \in DOMAIN rounds, NEW d \in Ids, Answer(r, d) PROVE TypeOK'
    <2> PICK result \in {"found", "missing", "error"} :
          /\ errors' = IF result = "error" THEN errors + 1 ELSE errors
          /\ Enqueue(<<Outcome(r, d, result)>>)
          /\ rounds' = [rounds EXCEPT
               ![r].open = @ \ {d},
               ![r].failed = IF \/ result = "error"
                                \/ result = "missing" /\ fun = "fetchUsersData"
                               THEN @ \cup {d} ELSE @]
      BY <1>4 DEF Answer
    <2>1. main' \in Seq(Blocks)
      <3>0. r \in Nat
        BY DEF TypeOK
      <3>1. Outcome(r, d, result) \in Blocks
        BY <3>0, BlockType
      <3> QED
        BY <3>1, EnqueueBlock DEF TypeOK
    <2>2. rounds' \in Seq(Rounds)
      <3>1. /\ Answered(rounds[r], d, result) \in Rounds
            /\ rounds' = [rounds EXCEPT ![r] = Answered(rounds[r], d, result)]
        <4>1. rounds[r] \in Rounds
          BY DEF TypeOK
        <4> QED
          BY <4>1 DEF Rounds, Answered
      <3>2. rounds \in Seq(Rounds)
        BY DEF TypeOK
      <3> QED
        BY <3>1, <3>2, ReplaceRound
    <2>3. errors' \in Nat
      BY DEF TypeOK
    <2> QED
      BY <1>4, <2>1, <2>2, <2>3 DEF Answer, TypeOK
  <1> QED
    BY <1>1, <1>2, <1>3, <1>4 DEF AnswerSome

LEMMA TypeRun == TypeOK /\ RunBlock => TypeOK'
  <1> SUFFICES ASSUME TypeOK, RunBlock PROVE TypeOK'
    OBVIOUS
  <1> DEFINE B == Head(main)
  <1>0. main \in Seq(Blocks) /\ rounds \in Seq(Rounds) /\ fun \in Funs
    BY DEF TypeOK
  <1>1. main # <<>> /\ B \in Blocks
    BY <1>0 DEF RunBlock, StartRound, TakeEntry, TakeNothing, CrashOnMissing, Deliver
  <1>2. CASE StartRound
    <2> DEFINE S == B.ids
               R == [ids |-> S, open |-> S, inside |-> WaitsFor(S), failed |-> {},
                     got |-> <<>>, answer |-> NotYet]
    <2>1. R \in Rounds
      <3>1. S \in SUBSET Ids
        BY <1>1, <1>2, BlockFields DEF StartRound
      <3>2. WaitsFor(S) \in SUBSET Ids
        BY <3>1 DEF WaitsFor
      <3>3. <<>> \in Seq(Entries)
        OBVIOUS
      <3> QED
        BY <3>1, <3>2, <3>3 DEF Rounds
    <2>2. rounds' \in Seq(Rounds)
      <3> HIDE DEF R
      <3>1. rounds' = Append(rounds, R)
        BY <1>2 DEF StartRound, R
      <3> QED
        BY <1>0, <2>1, <3>1
    <2>3. main' \in Seq(Blocks)
      <3>1. Notify(Len(rounds) + 1) \in Blocks
        BY <1>0, BlockType
      <3> DEFINE bs == IF WaitsFor(S) = {} THEN <<Notify(Len(rounds) + 1)>> ELSE <<>>
      <3>2. bs \in Seq(Blocks) /\ Len(bs) <= 1
        BY <3>1
      <3>3. Done(bs)
        BY <1>2 DEF StartRound
      <3> HIDE DEF bs
      <3> QED
        BY <1>0, <1>1, <3>2, <3>3, DoneBlocks
    <2> QED
      BY <1>2, <2>2, <2>3, TypeRest DEF StartRound, TypeOK
  <1>3. CASE TakeEntry
    <2> DEFINE bs == IF rounds[B.round].inside = {B.id} THEN <<Notify(B.round)>> ELSE <<>>
    <2>1. rounds' \in Seq(Rounds)
      <3>1. CASE B.round \in DOMAIN rounds
        <4>1. rounds' = [rounds EXCEPT
                ![B.round].got = Append(@, [id |-> B.id, found |-> B.result = "found"]),
                ![B.round].inside = @ \ {B.id}]
          BY <1>3 DEF TakeEntry
        <4>2. B.kind = "outcome"
          BY <1>3 DEF TakeEntry
        <4>3. /\ Taken(rounds[B.round], B) \in Rounds
              /\ rounds' = [rounds EXCEPT ![B.round] = Taken(rounds[B.round], B)]
          BY <1>1, <3>1, <4>1, <4>2, TakeRound
        <4> QED
          BY <1>0, <4>3, ReplaceRound
      <3>2. CASE B.round \notin DOMAIN rounds
        <4>1. rounds' = rounds
          BY <1>0, <1>3, <3>2 DEF TakeEntry
        <4> QED
          BY <1>0, <4>1
      <3> QED
        BY <3>1, <3>2
    <2>2. main' \in Seq(Blocks)
      <3>1. B.round \in Nat
        BY <1>1, <1>3, BlockFields DEF TakeEntry
      <3>2. bs \in Seq(Blocks) /\ Len(bs) <= 1
        BY <3>1, BlockType
      <3>3. Done(bs)
        BY <1>3 DEF TakeEntry
      <3> HIDE DEF bs
      <3> QED
        BY <1>0, <1>1, <3>2, <3>3, DoneBlocks
    <2> QED
      BY <1>3, <2>1, <2>2, TypeRest DEF TakeEntry, TypeOK
  <1>4. CASE TakeNothing
    <2>1. main' \in Seq(Blocks)
      <3>1. Done(<<>>) /\ <<>> \in Seq(Blocks) /\ Len(<<>>) <= 1
        BY <1>4 DEF TakeNothing
      <3> QED
        BY <1>0, <1>1, <3>1, DoneBlocks
    <2> QED
      BY <1>4, <2>1, TypeRest DEF TakeNothing, TypeOK
  <1>5. CASE CrashOnMissing
    <2>1. main' \in Seq(Blocks)
      BY <1>5 DEF CrashOnMissing
    <2> QED
      BY <1>5, <2>1, TypeRest DEF CrashOnMissing, TypeOK
  <1>6. CASE Deliver
    <2>1. rounds' \in Seq(Rounds)
      <3>1. CASE B.round \in DOMAIN rounds
        <4> DEFINE R == [rounds[B.round] EXCEPT !.answer = rounds[B.round].got]
        <4>1. R \in Rounds
          <5>1. rounds[B.round] \in Rounds
            BY <1>0, <3>1
          <5> QED
            BY <5>1 DEF Rounds
        <4>2. rounds' = [rounds EXCEPT ![B.round] = R]
          BY <1>6, <3>1 DEF Deliver
        <4> HIDE DEF R
        <4> QED
          BY <1>0, <4>1, <4>2, ReplaceRound
      <3>2. CASE B.round \notin DOMAIN rounds
        <4>1. rounds' = rounds
          BY <1>0, <1>6, <3>2 DEF Deliver
        <4> QED
          BY <1>0, <4>1
      <3> QED
        BY <3>1, <3>2
    <2>2. main' \in Seq(Blocks)
      <3>1. Done(<<>>) /\ <<>> \in Seq(Blocks) /\ Len(<<>>) <= 1
        BY <1>6 DEF Deliver
      <3> QED
        BY <1>0, <1>1, <3>1, DoneBlocks
    <2> QED
      BY <1>6, <2>1, <2>2, TypeRest DEF Deliver, TypeOK
  <1> QED
    BY <1>2, <1>3, <1>4, <1>5, <1>6 DEF RunBlock

\* Every variable keeps its type, whatever the threads of Firestore put on the
\* main queue.
THEOREM TypeCorrect == Spec => []TypeOK
  <1>1. TypeOK /\ [Next]_vars => TypeOK'
    <2>1. TypeOK /\ UNCHANGED vars => TypeOK'
      BY DEF TypeOK, vars
    <2> QED
      BY <2>1, TypeFirestore, TypeRun DEF Next
  <1> QED
    BY TypeInit, <1>1, PTL DEF Spec

----------------------------------------------------------------------------
(* The invariant is inductive.                                             *)

\* The first block has run: what it did to the rounds must suit the blocks that
\* do not clash with it, and the block it put on the queue.
LEMMA BlocksAfterDone ==
  ASSUME main \in Seq(Blocks), main # <<>>, BlocksOK,
         NEW bs \in Seq(Blocks), Len(bs) <= 1, Done(bs),
         \A B \in Blocks : BlockOK(rounds, B) /\ ~Clash(B, Head(main)) =>
                             BlockOK(rounds', B),
         bs # <<>> => BlockOK(rounds', bs[1]),
         bs # <<>> => \A B \in Blocks : BlockOK(rounds, B) => ~Clash(B, bs[1])
  PROVE  BlocksOK'
  <1>1. \A i \in DOMAIN main' :
          \/ i + 1 \in DOMAIN main /\ main'[i] = main[i + 1]
          \/ bs # <<>> /\ i = Len(main) /\ main'[i] = bs[1]
    BY DoneBlocks
  <1>2. Head(main) = main[1] /\ 1 \in DOMAIN main /\ main' \in Seq(Blocks)
        /\ DOMAIN main' \subseteq Nat
    BY DoneBlocks
  <1>3. \A i \in DOMAIN main : main[i] \in Blocks /\ BlockOK(rounds, main[i])
    BY DEF BlocksOK
  <1>4. \A i \in DOMAIN main' : BlockOK(rounds', main'[i])
    <2> TAKE i \in DOMAIN main'
    <2>1. CASE i + 1 \in DOMAIN main /\ main'[i] = main[i + 1]
      <3>1. i + 1 # 1
        BY <1>2
      <3>2. ~Clash(main[i + 1], main[1])
        BY <1>2, <2>1, <3>1 DEF BlocksOK
      <3> QED
        BY <1>2, <1>3, <2>1, <3>2
    <2> QED
      BY <1>1, <2>1
  <1>5. \A A, B : Clash(A, B) => Clash(B, A)
    BY DEF Clash
  <1>6. \A i, j \in DOMAIN main' : i # j => ~Clash(main'[i], main'[j])
    <2> SUFFICES ASSUME NEW i \in DOMAIN main', NEW j \in DOMAIN main', i # j
                 PROVE  ~Clash(main'[i], main'[j])
      OBVIOUS
    <2>1. CASE /\ i + 1 \in DOMAIN main /\ main'[i] = main[i + 1]
               /\ j + 1 \in DOMAIN main /\ main'[j] = main[j + 1]
      <3>1. i + 1 # j + 1
        BY <1>2
      <3> QED
        BY <2>1, <3>1 DEF BlocksOK
    <2>2. CASE i + 1 \in DOMAIN main /\ main'[i] = main[i + 1]
               /\ bs # <<>> /\ main'[j] = bs[1]
      BY <1>3, <2>2
    <2>3. CASE j + 1 \in DOMAIN main /\ main'[j] = main[j + 1]
               /\ bs # <<>> /\ main'[i] = bs[1]
      BY <1>3, <1>5, <2>3
    <2> QED
      BY <1>1, <2>1, <2>2, <2>3
  <1> QED
    BY <1>4, <1>6 DEF BlocksOK

LEMMA BlocksAfterEnqueue ==
  ASSUME main \in Seq(Blocks), BlocksOK, NEW B \in Blocks, Enqueue(<<B>>),
         \A A \in Blocks : BlockOK(rounds, A) => BlockOK(rounds', A) /\ ~Clash(A, B),
         BlockOK(rounds', B)
  PROVE  BlocksOK'
  <1>1. \A i \in DOMAIN main' :
          \/ i \in DOMAIN main /\ main'[i] = main[i]
          \/ i = Len(main) + 1 /\ main'[i] = B
    BY EnqueueBlock
  <1>2. \A i \in DOMAIN main : main[i] \in Blocks /\ BlockOK(rounds, main[i])
    BY DEF BlocksOK
  <1>3. \A A, C : Clash(A, C) => Clash(C, A)
    BY DEF Clash
  <1>4. \A i \in DOMAIN main' : BlockOK(rounds', main'[i])
    BY <1>1, <1>2
  <1>5. \A i, j \in DOMAIN main' : i # j => ~Clash(main'[i], main'[j])
    <2> SUFFICES ASSUME NEW i \in DOMAIN main', NEW j \in DOMAIN main', i # j
                 PROVE  ~Clash(main'[i], main'[j])
      OBVIOUS
    <2>1. CASE /\ i \in DOMAIN main /\ main'[i] = main[i]
               /\ j \in DOMAIN main /\ main'[j] = main[j]
      BY <2>1 DEF BlocksOK
    <2>2. CASE i \in DOMAIN main /\ main'[i] = main[i] /\ main'[j] = B
      BY <1>2, <2>2
    <2>3. CASE j \in DOMAIN main /\ main'[j] = main[j] /\ main'[i] = B
      BY <1>2, <1>3, <2>3
    <2> QED
      BY <1>1, <2>1, <2>2, <2>3
  <1> QED
    BY <1>4, <1>5 DEF BlocksOK

LEMMA GatherInit == Init => GatherInv
  BY DEF Init, GatherInv, BlocksOK

\* What is needed of the first block.
LEMMA HeadOK ==
  ASSUME TypeOK, GatherInv, main # <<>>
  PROVE  /\ main \in Seq(Blocks)
         /\ Head(main) \in Blocks
         /\ BlockOK(rounds, Head(main))
  <1>1. main \in Seq(Blocks)
    BY DEF TypeOK
  <1>2. Head(main) \in Blocks /\ Head(main) = main[1] /\ 1 \in DOMAIN main
    BY <1>1, HeadBlock
  <1> QED
    BY <1>1, <1>2 DEF GatherInv, BlocksOK

LEMMA GatherAnswer ==
  ASSUME TypeOK, GatherInv, NEW r \in DOMAIN rounds, NEW d \in Ids, Answer(r, d)
  PROVE  /\ GatherInv'
         /\ DOMAIN rounds' = DOMAIN rounds
         /\ \A q \in DOMAIN rounds : /\ rounds'[q].ids = rounds[q].ids
                                     /\ rounds'[q].answer = rounds[q].answer
  <1> PICK result \in {"found", "missing", "error"} :
        /\ Enqueue(<<Outcome(r, d, result)>>)
        /\ rounds' = [rounds EXCEPT
             ![r].open = @ \ {d},
             ![r].failed = IF \/ result = "error"
                              \/ result = "missing" /\ fun = "fetchUsersData"
                             THEN @ \cup {d} ELSE @]
    BY DEF Answer
  <1> DEFINE R == rounds[r]
             S == Answered(R, d, result)
             B == Outcome(r, d, result)
  <1>1. rounds \in Seq(Rounds) /\ main \in Seq(Blocks) /\ R \in Rounds /\ r \in Nat
    BY DEF TypeOK
  <1>2. S \in Rounds /\ rounds' = [rounds EXCEPT ![r] = S]
    BY <1>1 DEF Rounds, Answered
  <1>3. /\ S.open = R.open \ {d} /\ S.ids = R.ids /\ S.inside = R.inside
        /\ S.got = R.got /\ S.answer = R.answer
    BY <1>1 DEF Rounds, Answered
  <1>4. /\ DOMAIN rounds' = DOMAIN rounds
        /\ rounds'[r] = S
        /\ \A q \in DOMAIN rounds : q # r => rounds'[q] = rounds[q]
    <2> HIDE DEF S
    <2> QED
      BY <1>1, <1>2, ReplaceRound
  <1> HIDE DEF S
  <1>5. \A q \in DOMAIN rounds' : RoundOK(rounds'[q])
    <2>1. RoundOK(S)
      BY <1>3 DEF RoundOK, GatherInv
    <2> QED
      BY <1>4, <2>1 DEF GatherInv
  <1>6. d \in R.open /\ d \in R.inside
    BY DEF Answer, GatherInv, RoundOK
  <1>7. B \in Blocks /\ B.kind = "outcome" /\ B.round = r /\ B.id = d
    BY <1>1, BlockType DEF Outcome
  <1> HIDE DEF B
  <1>8. BlockOK(rounds', B)
    BY <1>3, <1>4, <1>6, <1>7 DEF BlockOK
  <1>9. ASSUME NEW A \in Blocks, BlockOK(rounds, A)
        PROVE  BlockOK(rounds', A) /\ ~Clash(A, B)
    <2>1. BlockOK(rounds', A)
      BY <1>3, <1>4, <1>9 DEF BlockOK
    <2>2. ~Clash(A, B)
      BY <1>6, <1>7, <1>9 DEF BlockOK, Clash
    <2> QED
      BY <2>1, <2>2
  <1>10. BlocksOK'
    <2>1. Enqueue(<<B>>)
      BY DEF B
    <2> QED
      BY <1>1, <1>7, <1>8, <1>9, <2>1, BlocksAfterEnqueue DEF GatherInv
  <1> QED
    BY <1>3, <1>4, <1>5, <1>10 DEF GatherInv

LEMMA GatherTell ==
  ASSUME TypeOK, GatherInv, NEW k \in Calls, Tell(k)
  PROVE  GatherInv'
  <1> PICK S \in SUBSET Ids : Enqueue(<<Snapshot(S)>>)
    BY DEF Tell, TypeOK
  <1> DEFINE B == Snapshot(S)
  <1>1. B \in Blocks /\ B.kind = "snapshot"
    BY BlockType DEF Snapshot
  <1>2. rounds' = rounds /\ main \in Seq(Blocks)
    BY DEF Tell, TypeOK
  <1> HIDE DEF B
  <1>3. BlockOK(rounds', B) /\ \A A : ~Clash(A, B)
    BY <1>1 DEF BlockOK, Clash
  <1>4. Enqueue(<<B>>)
    BY DEF B
  <1>5. BlocksOK'
    BY <1>1, <1>2, <1>3, <1>4, BlocksAfterEnqueue DEF GatherInv
  <1> QED
    BY <1>2, <1>5 DEF GatherInv

LEMMA GatherStart ==
  ASSUME LeaveInCallback, TypeOK, GatherInv, StartRound
  PROVE  /\ GatherInv'
         /\ \E R : /\ rounds' = Append(rounds, R)
                   /\ R.ids \in SUBSET Ids
                   /\ R.answer = NotYet
  <1> DEFINE S == Head(main).ids
             R == [ids |-> S, open |-> S, inside |-> WaitsFor(S), failed |-> {},
                   got |-> <<>>, answer |-> NotYet]
             bs == IF WaitsFor(S) = {} THEN <<Notify(Len(rounds) + 1)>> ELSE <<>>
  <1>1. main # <<>> /\ Head(main).kind = "snapshot" /\ rounds' = Append(rounds, R) /\ Done(bs)
    BY DEF StartRound
  <1>2. main \in Seq(Blocks) /\ Head(main) \in Blocks
    BY <1>1, HeadOK
  <1>3. WaitsFor(S) = S /\ S \in SUBSET Ids
    BY <1>1, <1>2, BlockFields DEF WaitsFor, LeaveInCallback, TypeOK
  <1>4. /\ R.ids = S /\ R.inside = S /\ R.open = S /\ R.answer = NotYet
        /\ R.got = <<>>
    BY <1>3
  <1> HIDE DEF R
  <1>5. /\ rounds \in Seq(Rounds) /\ Len(rounds) + 1 \in Nat
        /\ Len(rounds) + 1 \notin DOMAIN rounds
        /\ DOMAIN rounds' = DOMAIN rounds \cup {Len(rounds) + 1}
        /\ rounds'[Len(rounds) + 1] = R
        /\ \A q \in DOMAIN rounds : rounds'[q] = rounds[q]
    BY <1>1 DEF TypeOK
  <1>6. \A q \in DOMAIN rounds' : RoundOK(rounds'[q])
    <2>1. RoundOK(R)
      BY <1>4 DEF RoundOK
    <2> QED
      BY <1>5, <2>1 DEF GatherInv
  <1>7. \A B : BlockOK(rounds, B) => BlockOK(rounds', B)
    BY <1>5 DEF BlockOK
  <1>8. bs \in Seq(Blocks) /\ Len(bs) <= 1
    BY <1>5, BlockType
  <1>9. bs # <<>> => /\ bs[1].kind = "notify" /\ bs[1].round = Len(rounds) + 1
                     /\ R.inside = {}
    BY <1>3, <1>4 DEF Notify
  <1> HIDE DEF bs
  <1>10. bs # <<>> => /\ BlockOK(rounds', bs[1])
                      /\ \A B \in Blocks : BlockOK(rounds, B) => ~Clash(B, bs[1])
    BY <1>4, <1>5, <1>9 DEF BlockOK, Clash
  <1>11. BlocksOK'
    BY <1>1, <1>2, <1>7, <1>8, <1>10, BlocksAfterDone DEF GatherInv
  <1> QED
    BY <1>1, <1>3, <1>4, <1>6, <1>11 DEF GatherInv

\* The entry that comes is one for which the group had not been left.
LEMMA TakenOK ==
  ASSUME NEW R \in Rounds, RoundOK(R), NEW B \in Blocks,
         B.id \in R.inside \ R.open
  PROVE  /\ RoundOK(Taken(R, B))
         /\ Taken(R, B).ids = R.ids
         /\ Taken(R, B).open = R.open
         /\ Taken(R, B).inside = R.inside \ {B.id}
         /\ Taken(R, B).answer = R.answer
         /\ R.answer = NotYet
  <1> DEFINE e == [id |-> B.id, found |-> B.result = "found"]
             T == Taken(R, B)
  <1>1. /\ T.ids = R.ids /\ T.open = R.open /\ T.inside = R.inside \ {B.id}
        /\ T.answer = R.answer /\ T.got = Append(R.got, e)
    BY DEF Rounds, Taken
  <1> HIDE DEF T
  <1>2. R.got \in Seq(Entries) /\ e.id = B.id
    BY DEF Rounds
  <1> HIDE DEF e
  <1>3. /\ DOMAIN T.got = DOMAIN R.got \cup {Len(R.got) + 1}
        /\ Len(R.got) + 1 \notin DOMAIN R.got
        /\ T.got[Len(R.got) + 1].id = B.id
        /\ \A i \in DOMAIN R.got : T.got[i] = R.got[i]
    BY <1>1, <1>2
  <1>4. R.answer = NotYet
    BY DEF RoundOK
  <1>5. \A i \in DOMAIN T.got : T.got[i].id \in T.ids \ T.inside
    BY <1>1, <1>3 DEF RoundOK
  <1>6. \A d \in T.ids \ T.inside : \E i \in DOMAIN T.got : T.got[i].id = d
    <2> TAKE d \in T.ids \ T.inside
    <2>1. CASE d = B.id
      BY <1>3, <2>1
    <2>2. CASE d # B.id
      <3>1. PICK i \in DOMAIN R.got : R.got[i].id = d
        BY <1>1, <2>2 DEF RoundOK
      <3> QED
        BY <1>3, <3>1
    <2> QED
      BY <2>1, <2>2
  <1>7. \A i, j \in DOMAIN T.got : T.got[i].id = T.got[j].id => i = j
    BY <1>3 DEF RoundOK
  <1>8. RoundOK(T)
    BY <1>1, <1>4, <1>5, <1>6, <1>7 DEF RoundOK
  <1> QED
    BY <1>1, <1>4, <1>8 DEF T

LEMMA GatherTake ==
  ASSUME TypeOK, GatherInv, TakeEntry
  PROVE  /\ GatherInv'
         /\ DOMAIN rounds' = DOMAIN rounds
         /\ \A q \in DOMAIN rounds : /\ rounds'[q].ids = rounds[q].ids
                                     /\ rounds'[q].answer = rounds[q].answer
  <1> DEFINE B == Head(main)
             r == B.round
             R == rounds[r]
             T == Taken(R, B)
             bs == IF R.inside = {B.id} THEN <<Notify(r)>> ELSE <<>>
  <1>1. main # <<>> /\ B.kind = "outcome" /\ Done(bs)
    BY DEF TakeEntry
  <1>2. main \in Seq(Blocks) /\ B \in Blocks /\ BlockOK(rounds, B)
    BY <1>1, HeadOK
  <1>3. r \in DOMAIN rounds /\ B.id \in R.inside \ R.open
    BY <1>1, <1>2 DEF BlockOK
  <1>4. rounds \in Seq(Rounds) /\ R \in Rounds /\ RoundOK(R) /\ r \in Nat
    BY <1>3 DEF TypeOK, GatherInv
  <1>5. T \in Rounds /\ rounds' = [rounds EXCEPT ![r] = T]
    <2>1. rounds' = [rounds EXCEPT
            ![B.round].got = Append(@, [id |-> B.id, found |-> B.result = "found"]),
            ![B.round].inside = @ \ {B.id}]
      BY DEF TakeEntry
    <2> QED
      BY <1>1, <1>2, <1>3, <2>1, TakeRound
  <1>6. /\ RoundOK(T) /\ T.ids = R.ids /\ T.open = R.open /\ T.answer = R.answer
        /\ T.inside = R.inside \ {B.id} /\ R.answer = NotYet
    BY <1>2, <1>3, <1>4, TakenOK
  <1> HIDE DEF T
  <1>7. /\ DOMAIN rounds' = DOMAIN rounds /\ rounds'[r] = T
        /\ \A q \in DOMAIN rounds : q # r => rounds'[q] = rounds[q]
    BY <1>3, <1>4, <1>5, ReplaceRound
  <1>8. \A q \in DOMAIN rounds' : RoundOK(rounds'[q])
    BY <1>6, <1>7 DEF GatherInv
  <1>9. ASSUME NEW A \in Blocks, BlockOK(rounds, A), ~Clash(A, B)
        PROVE  BlockOK(rounds', A)
    BY <1>1, <1>3, <1>6, <1>7, <1>9 DEF BlockOK, Clash
  <1>10. bs \in Seq(Blocks) /\ Len(bs) <= 1
    BY <1>4, BlockType
  <1>11. bs # <<>> => bs[1].kind = "notify" /\ bs[1].round = r /\ T.inside = {}
    BY <1>6 DEF Notify
  <1> HIDE DEF bs
  <1>12. bs # <<>> => /\ BlockOK(rounds', bs[1])
                      /\ \A A \in Blocks : BlockOK(rounds, A) => ~Clash(A, bs[1])
    BY <1>3, <1>6, <1>7, <1>11 DEF BlockOK, Clash
  <1>13. BlocksOK'
    BY <1>1, <1>2, <1>9, <1>10, <1>12, BlocksAfterDone DEF GatherInv
  <1> QED
    BY <1>6, <1>7, <1>8, <1>13 DEF GatherInv

LEMMA GatherDeliver ==
  ASSUME TypeOK, GatherInv, Deliver
  PROVE  /\ GatherInv'
         /\ DOMAIN rounds' = DOMAIN rounds
         /\ \A q \in DOMAIN rounds : rounds'[q].ids = rounds[q].ids
         /\ \E r \in DOMAIN rounds :
              /\ rounds[r].answer = NotYet
              /\ rounds'[r].answer \in Seq(Entries)
              /\ G!Whole(rounds'[r].answer, rounds[r].ids)
              /\ \A q \in DOMAIN rounds :
                   q # r => rounds'[q].answer = rounds[q].answer
  <1> DEFINE B == Head(main)
             r == B.round
             R == rounds[r]
             T == [R EXCEPT !.answer = R.got]
  <1>1. main # <<>> /\ B.kind = "notify" /\ Done(<<>>)
    BY DEF Deliver
  <1>2. main \in Seq(Blocks) /\ B \in Blocks /\ BlockOK(rounds, B)
    BY <1>1, HeadOK
  <1>3. r \in DOMAIN rounds /\ R.inside = {} /\ R.answer = NotYet
    BY <1>1, <1>2 DEF BlockOK
  <1>4. rounds \in Seq(Rounds) /\ R \in Rounds /\ RoundOK(R)
    BY <1>3 DEF TypeOK, GatherInv
  <1>5. T \in Rounds /\ rounds' = [rounds EXCEPT ![r] = T]
    BY <1>3, <1>4 DEF Deliver, Rounds
  <1>6. /\ T.ids = R.ids /\ T.open = R.open /\ T.inside = R.inside /\ T.got = R.got
        /\ T.answer = R.got /\ R.got \in Seq(Entries)
    BY <1>4 DEF Rounds
  <1> HIDE DEF T
  <1>7. /\ DOMAIN rounds' = DOMAIN rounds /\ rounds'[r] = T
        /\ \A q \in DOMAIN rounds : q # r => rounds'[q] = rounds[q]
    BY <1>3, <1>4, <1>5, ReplaceRound
  <1>8. \A q \in DOMAIN rounds' : RoundOK(rounds'[q])
    <2>1. RoundOK(T)
      BY <1>3, <1>4, <1>6 DEF RoundOK
    <2> QED
      BY <1>7, <2>1 DEF GatherInv
  <1>9. ASSUME NEW A \in Blocks, BlockOK(rounds, A), ~Clash(A, B)
        PROVE  BlockOK(rounds', A)
    BY <1>1, <1>3, <1>6, <1>7, <1>9 DEF BlockOK, Clash
  <1>10. BlocksOK'
    <2>1. <<>> \in Seq(Blocks) /\ Len(<<>>) <= 1
      OBVIOUS
    <2> QED
      BY <1>1, <1>2, <1>9, <2>1, BlocksAfterDone DEF GatherInv
  <1>11. G!Whole(R.got, R.ids)
    BY <1>3, <1>4 DEF RoundOK, G!Whole
  <1>12. /\ rounds'[r].answer \in Seq(Entries)
         /\ G!Whole(rounds'[r].answer, rounds[r].ids)
         /\ \A q \in DOMAIN rounds : q # r => rounds'[q].answer = rounds[q].answer
    BY <1>6, <1>7, <1>11
  <1> QED
    BY <1>3, <1>6, <1>7, <1>8, <1>10, <1>12 DEF GatherInv

LEMMA GatherNothing ==
  ASSUME TypeOK, GatherInv, TakeNothing \/ CrashOnMissing
  PROVE  GatherInv' /\ rounds' = rounds
  <1>1. CASE TakeNothing
    <2>1. main # <<>> /\ Done(<<>>) /\ rounds' = rounds
      BY <1>1 DEF TakeNothing
    <2>2. main \in Seq(Blocks) /\ <<>> \in Seq(Blocks) /\ Len(<<>>) <= 1
      BY DEF TypeOK
    <2>3. BlocksOK'
      BY <2>1, <2>2, BlocksAfterDone DEF GatherInv
    <2> QED
      BY <2>1, <2>3 DEF GatherInv
  <1>2. CASE CrashOnMissing
    BY <1>2 DEF CrashOnMissing, GatherInv, BlocksOK
  <1> QED
    BY <1>1, <1>2

----------------------------------------------------------------------------
(* Every step of FanOut is a step of Gather, or changes nothing there.     *)

askedBar == [r \in DOMAIN rounds |-> rounds[r].ids]
answerBar == [r \in DOMAIN rounds |-> rounds[r].answer]

LEMMA Stutters ==
  ASSUME DOMAIN rounds' = DOMAIN rounds,
         \A q \in DOMAIN rounds : /\ rounds'[q].ids = rounds[q].ids
                                  /\ rounds'[q].answer = rounds[q].answer
  PROVE  UNCHANGED G!vars
  BY DEF G!vars

LEMMA Asks ==
  ASSUME rounds \in Seq(Rounds), NEW R, rounds' = Append(rounds, R),
         R.ids \in SUBSET Ids, R.answer = NotYet
  PROVE  G!Next
  <1> DEFINE n == Len(rounds)
  <1>1. /\ n \in Nat /\ DOMAIN rounds = 1 .. n /\ DOMAIN rounds' = 1 .. n + 1
        /\ rounds'[n + 1] = R
        /\ \A q \in DOMAIN rounds : rounds'[q] = rounds[q]
    OBVIOUS
  <1>2. [r \in DOMAIN rounds' |-> rounds'[r].ids] = Append(askedBar, R.ids)
    BY <1>1 DEF askedBar
  <1>3. [r \in DOMAIN rounds' |-> rounds'[r].answer] = Append(answerBar, NotYet)
    BY <1>1 DEF answerBar
  <1>4. G!Ask(R.ids)
    BY <1>2, <1>3 DEF G!Ask, askedBar, answerBar
  <1> QED
    BY <1>4 DEF G!Next

LEMMA Answers ==
  ASSUME DOMAIN rounds' = DOMAIN rounds,
         \A q \in DOMAIN rounds : rounds'[q].ids = rounds[q].ids,
         \A q \in DOMAIN rounds' : rounds'[q].answer \in Seq(Entries) \cup {NotYet},
         NEW r \in DOMAIN rounds,
         rounds[r].answer = NotYet,
         rounds'[r].answer \in Seq(Entries),
         G!Whole(rounds'[r].answer, rounds[r].ids),
         \A q \in DOMAIN rounds : q # r => rounds'[q].answer = rounds[q].answer
  PROVE  G!Next
  <1>1. rounds'[r].answer # NotYet
    BY NotYetAssumption
  <1>2. G!Entries = Entries
    BY DEF G!Entries, Entries
  <1>3. [q \in DOMAIN rounds' |-> rounds'[q].answer]
          \in [DOMAIN answerBar -> Seq(G!Entries) \cup {NotYet}]
    BY <1>2 DEF answerBar
  <1>4. [q \in DOMAIN rounds' |-> rounds'[q].ids] = askedBar
    BY DEF askedBar
  <1>5. G!Answer(r)
    BY <1>1, <1>3, <1>4 DEF G!Answer, askedBar, answerBar
  <1> QED
    BY <1>5 DEF G!Next

LEMMA GatherStep ==
  ASSUME LeaveInCallback, TypeOK, TypeOK', GatherInv, [Next]_vars
  PROVE  GatherInv' /\ [G!Next]_G!vars
  <1>1. CASE rounds' = rounds /\ main' = main
    <2>1. UNCHANGED G!vars
      BY <1>1, Stutters
    <2> QED
      BY <1>1, <2>1 DEF GatherInv, BlocksOK
  <1>2. ASSUME NEW k \in Calls, Tell(k)
        PROVE  GatherInv' /\ UNCHANGED G!vars
    <2>1. rounds' = rounds
      BY <1>2 DEF Tell
    <2> QED
      BY <1>2, <2>1, GatherTell, Stutters
  <1>3. CASE AnswerSome
    BY <1>3, GatherAnswer, Stutters DEF AnswerSome
  <1>4. CASE StartRound
    <2>1. GatherInv'
      BY <1>4, GatherStart
    <2>2. PICK R : rounds' = Append(rounds, R) /\ R.ids \in SUBSET Ids /\ R.answer = NotYet
      BY <1>4, GatherStart
    <2>3. G!Next
      BY <2>2, Asks DEF TypeOK
    <2> QED
      BY <2>1, <2>3
  <1>5. CASE TakeEntry
    BY <1>5, GatherTake, Stutters
  <1>6. CASE TakeNothing \/ CrashOnMissing
    BY <1>6, GatherNothing, Stutters
  <1>7. CASE Deliver
    <2>1. \A q \in DOMAIN rounds' : rounds'[q].answer \in Seq(Entries) \cup {NotYet}
      <3>1. \A q \in DOMAIN rounds' : rounds'[q] \in Rounds
        BY DEF TypeOK
      <3> QED
        BY <3>1 DEF Rounds
    <2>2. G!Next
      BY <1>7, <2>1, GatherDeliver, Answers
    <2> QED
      BY <1>7, <2>2, GatherDeliver
  <1>8. CASE Change \/ \E k \in Calls : Call(k)
    BY <1>1, <1>8 DEF Change, Call
  <1>9. CASE UNCHANGED vars
    BY <1>1, <1>9 DEF vars
  <1> QED
    BY <1>2, <1>3, <1>4, <1>5, <1>6, <1>7, <1>8, <1>9 DEF Next, RunBlock

\* Each round of fetchBuckets, fetchAllPostsForUser and fetchUsersData is answered
\* at most once, and then with one entry for each document it was started for.
THEOREM GathersHolds == ASSUME LeaveInCallback PROVE Spec => Gathers
  <1>1. Init => G!Init
    BY DEF Init, G!Init
  <1>2. Spec => []TypeOK
    BY TypeCorrect
  <1>3. TypeOK /\ TypeOK' /\ GatherInv /\ [Next]_vars => GatherInv' /\ [G!Next]_G!vars
    BY LeaveInCallback, GatherStep
  <1> QED
    BY <1>1, <1>2, <1>3, GatherInit, PTL DEF Spec, Gathers, G!Spec
----------------------------------------------------------------------------
(* No group waits for nothing.  This holds of fetchAllPosts as well, whose *)
(* group waits for no document.                                            *)

\* What NoneHangs says of one round.
Waits(r) ==
  /\ \A d \in rounds[r].inside :
       d \in rounds[r].open \cup rounds[r].failed \/ CallbackComing(r, d)
  /\ rounds[r].inside = {} =>
       rounds[r].answer # NotYet \/ \E i \in DOMAIN main : main[i] = Notify(r)

\* The blocks that stay on the queue when the first one has run, and the new one.
LEMMA BlocksStay ==
  ASSUME main \in Seq(Blocks), main # <<>>, NEW bs \in Seq(Blocks), Len(bs) <= 1, Done(bs)
  PROVE  /\ \A i \in DOMAIN main : i # 1 => \E j \in DOMAIN main' : main'[j] = main[i]
         /\ bs # <<>> => \E j \in DOMAIN main' : main'[j] = bs[1]
  <1> DEFINE n == Len(main)
             t == Tail(main)
  <1>1. /\ t \in Seq(Blocks) /\ Len(t) = n - 1 /\ n \in Nat /\ n > 0
        /\ \A i \in 1 .. n - 1 : t[i] = main[i + 1]
    OBVIOUS
  <1>2. main' = t \o bs
    BY DEF Done
  <1> HIDE DEF t
  <1>3. /\ \A i \in 1 .. n - 1 : i \in DOMAIN main' /\ main'[i] = t[i]
        /\ bs # <<>> => n \in DOMAIN main' /\ main'[n] = bs[1]
    BY <1>1, <1>2
  <1>4. ASSUME NEW i \in DOMAIN main, i # 1
        PROVE  \E j \in DOMAIN main' : main'[j] = main[i]
    <2>1. i - 1 \in 1 .. n - 1 /\ i - 1 + 1 = i
      BY <1>4
    <2> QED
      BY <1>1, <1>3, <2>1
  <1> QED
    BY <1>3, <1>4

\* A block that is on the queue before and after a step brings what it brought.
LEMMA KeepsComing ==
  ASSUME fun' = fun, NEW r, NEW d,
         NEW i \in DOMAIN main, NEW j \in DOMAIN main', main'[j] = main[i],
         main[i].kind = "outcome" /\ main[i].round = r /\ main[i].id = d,
         \/ CallsBack(main[i].result)
         \/ (main[i].result = "missing" /\ fun = "fetchBuckets")
  PROVE  CallbackComing(r, d)'
  BY DEF CallbackComing, CallsBack

\* A step that keeps round r and puts blocks behind the others changes nothing.
LEMMA WaitsOn ==
  ASSUME NEW r \in DOMAIN rounds, rounds'[r] = rounds[r], fun' = fun, Waits(r),
         \A i \in DOMAIN main : \E j \in DOMAIN main' : main'[j] = main[i]
  PROVE  Waits(r)'
  <1>1. ASSUME NEW d, CallbackComing(r, d) PROVE CallbackComing(r, d)'
    BY <1>1, KeepsComing DEF CallbackComing
  <1> QED
    BY <1>1 DEF Waits, Notify

LEMMA WaitsEnqueue ==
  ASSUME main \in Seq(Blocks), NEW B \in Blocks, Enqueue(<<B>>)
  PROVE  /\ \A i \in DOMAIN main : \E j \in DOMAIN main' : main'[j] = main[i]
         /\ \E j \in DOMAIN main' : main'[j] = B
  <1>1. /\ \A i \in DOMAIN main : i \in DOMAIN main' /\ main'[i] = main[i]
        /\ Len(main) + 1 \in DOMAIN main' /\ main'[Len(main) + 1] = B
    BY DEF Enqueue
  <1> QED
    BY <1>1

LEMMA HangsAnswer ==
  ASSUME TypeOK, NEW q \in DOMAIN rounds, NEW d \in Ids, Answer(q, d),
         \A r \in DOMAIN rounds : Waits(r)
  PROVE  \A r \in DOMAIN rounds' : Waits(r)'
  <1> DEFINE R == rounds[q]
  <1> PICK result \in {"found", "missing", "error"} :
        /\ Enqueue(<<Outcome(q, d, result)>>)
        /\ rounds' = [rounds EXCEPT
             ![q].open = @ \ {d},
             ![q].failed = IF \/ result = "error"
                              \/ result = "missing" /\ fun = "fetchUsersData"
                             THEN @ \cup {d} ELSE @]
    BY DEF Answer
  <1> DEFINE B == Outcome(q, d, result)
  <1>0. fun' = fun /\ fun \in Listeners \cup {"fetchUsersData"} /\ rounds \in Seq(Rounds)
        /\ R \in Rounds /\ main \in Seq(Blocks) /\ q \in Nat
    BY FunsAssumption DEF Answer, TypeOK
  <1>1. B \in Blocks
    BY <1>0, BlockType
  <1>2. /\ Answered(R, d, result) \in Rounds
        /\ rounds' = [rounds EXCEPT ![q] = Answered(R, d, result)]
    BY <1>0 DEF Rounds, Answered
  <1> DEFINE T == Answered(R, d, result)
  <1>3. /\ T.open = R.open \ {d} /\ T.inside = R.inside /\ T.answer = R.answer
        /\ R.failed \subseteq T.failed
        /\ result = "error" => d \in T.failed
        /\ result = "missing" /\ fun = "fetchUsersData" => d \in T.failed
    BY <1>0 DEF Answered, Rounds
  <1> HIDE DEF T
  <1>4. /\ DOMAIN rounds' = DOMAIN rounds /\ rounds'[q] = T
        /\ \A r \in DOMAIN rounds : r # q => rounds'[r] = rounds[r]
    BY <1>0, <1>2, ReplaceRound DEF T
  <1>5. /\ \A i \in DOMAIN main : \E j \in DOMAIN main' : main'[j] = main[i]
        /\ \E j \in DOMAIN main' : main'[j] = B
    <2> HIDE DEF B
    <2> QED
      BY <1>0, <1>1, WaitsEnqueue DEF B
  <1>6. ASSUME NEW r \in DOMAIN rounds, r # q PROVE Waits(r)'
    BY <1>0, <1>4, <1>5, <1>6, WaitsOn
  <1>7. ASSUME NEW e, CallbackComing(q, e) PROVE CallbackComing(q, e)'
    <2>1. PICK i \in DOMAIN main :
            /\ main[i].kind = "outcome" /\ main[i].round = q /\ main[i].id = e
            /\ \/ CallsBack(main[i].result)
               \/ main[i].result = "missing" /\ fun = "fetchBuckets"
      BY <1>7 DEF CallbackComing
    <2>2. PICK j \in DOMAIN main' : main'[j] = main[i]
      BY <1>5
    <2> QED
      BY <1>0, <2>1, <2>2, KeepsComing
  <1>8. d \in T.failed \/ CallbackComing(q, d)'
    <2>1. B.kind = "outcome" /\ B.round = q /\ B.id = d /\ B.result = result
      BY DEF Outcome
    <2>2. \/ CallsBack(result)
          \/ result = "missing" /\ fun = "fetchBuckets"
          \/ d \in T.failed
      BY <1>0, <1>3 DEF CallsBack, Listeners
    <2> HIDE DEF B
    <2> QED
      BY <1>0, <1>5, <2>1, <2>2 DEF CallbackComing, CallsBack
  <1>9. Waits(q)'
    BY <1>3, <1>4, <1>5, <1>7, <1>8 DEF Waits, Notify
  <1> QED
    BY <1>4, <1>6, <1>9

LEMMA HangsStart ==
  ASSUME TypeOK, StartRound, \A r \in DOMAIN rounds : Waits(r)
  PROVE  \A r \in DOMAIN rounds' : Waits(r)'
  <1> PICK n : n = Len(rounds)
    OBVIOUS
  <1> DEFINE S == Head(main).ids
             R == [ids |-> S, open |-> S, inside |-> WaitsFor(S), failed |-> {},
                   got |-> <<>>, answer |-> NotYet]
             bs == IF WaitsFor(S) = {} THEN <<Notify(n + 1)>> ELSE <<>>
  <1>1. /\ main # <<>> /\ Head(main).kind = "snapshot" /\ Done(bs)
        /\ rounds' = Append(rounds, R) /\ fun' = fun
    BY DEF StartRound
  <1>2. main \in Seq(Blocks) /\ rounds \in Seq(Rounds) /\ n \in Nat
    BY DEF TypeOK
  <1>3. bs \in Seq(Blocks) /\ Len(bs) <= 1
    <2>1. Notify(n + 1) \in Blocks
      BY <1>2, BlockType
    <2> QED
      BY <2>1
  <1>4. R.inside = WaitsFor(S) /\ R.open = S /\ WaitsFor(S) \subseteq S
    BY DEF WaitsFor
  <1>5. R.inside = {} => bs # <<>> /\ bs[1] = Notify(n + 1)
    BY <1>4
  <1> HIDE DEF R, bs
  <1>6. /\ DOMAIN rounds' = DOMAIN rounds \cup {n + 1} /\ rounds'[n + 1] = R
        /\ \A r \in DOMAIN rounds : rounds'[r] = rounds[r]
    BY <1>1, <1>2
  <1>7. /\ \A i \in DOMAIN main : i # 1 => \E j \in DOMAIN main' : main'[j] = main[i]
        /\ bs # <<>> => \E j \in DOMAIN main' : main'[j] = bs[1]
    BY <1>1, <1>2, <1>3, BlocksStay
  <1>8. main[1].kind = "snapshot"
    BY <1>1, <1>2
  <1>9. ASSUME NEW r \in DOMAIN rounds PROVE Waits(r)'
    <2>1. ASSUME NEW d, CallbackComing(r, d) PROVE CallbackComing(r, d)'
      <3>1. PICK i \in DOMAIN main :
              /\ main[i].kind = "outcome" /\ main[i].round = r /\ main[i].id = d
              /\ \/ CallsBack(main[i].result)
                 \/ main[i].result = "missing" /\ fun = "fetchBuckets"
        BY <2>1 DEF CallbackComing
      <3>2. i # 1
        BY <1>8, <3>1
      <3> QED
        BY <1>1, <1>7, <3>1, <3>2, KeepsComing
    <2>2. (\E i \in DOMAIN main : main[i] = Notify(r)) =>
            \E j \in DOMAIN main' : main'[j] = Notify(r)
      <3>1. Notify(r).kind = "notify"
        BY DEF Notify
      <3> QED
        BY <1>7, <1>8, <3>1
    <2>3. Notify(r)' = Notify(r)
      BY DEF Notify
    <2> QED
      BY <1>6, <2>1, <2>2, <2>3 DEF Waits
  <1>10. Waits(n + 1)'
    <2>1. Notify(n + 1)' = Notify(n + 1)
      BY DEF Notify
    <2> QED
      BY <1>4, <1>5, <1>6, <1>7, <2>1 DEF Waits
  <1> QED
    BY <1>6, <1>9, <1>10

LEMMA HangsTake ==
  ASSUME TypeOK, TakeEntry, \A r \in DOMAIN rounds : Waits(r)
  PROVE  \A r \in DOMAIN rounds' : Waits(r)'
  <1> PICK B : B = Head(main)
    OBVIOUS
  <1> DEFINE q == B.round
             R == rounds[q]
             T == Taken(R, B)
             bs == IF R.inside = {B.id} THEN <<Notify(q)>> ELSE <<>>
  <1>1. main # <<>> /\ B.kind = "outcome" /\ Done(bs) /\ fun' = fun
    BY DEF TakeEntry
  <1>2. main \in Seq(Blocks) /\ B \in Blocks /\ B = main[1] /\ rounds \in Seq(Rounds)
    BY <1>1, HeadBlock DEF TypeOK
  <1>3. bs \in Seq(Blocks) /\ Len(bs) <= 1
    <2>1. Notify(q) \in Blocks
      BY <1>1, <1>2, BlockFields, BlockType
    <2> QED
      BY <2>1
  <1>4. /\ \A i \in DOMAIN main : i # 1 => \E j \in DOMAIN main' : main'[j] = main[i]
        /\ bs # <<>> => \E j \in DOMAIN main' : main'[j] = bs[1]
    <2> HIDE DEF bs
    <2> QED
      BY <1>1, <1>2, <1>3, BlocksStay
  <1>5. ASSUME NEW r, NEW d, CallbackComing(r, d), r # q \/ d # B.id
        PROVE  CallbackComing(r, d)'
    <2>1. PICK i \in DOMAIN main :
            /\ main[i].kind = "outcome" /\ main[i].round = r /\ main[i].id = d
            /\ \/ CallsBack(main[i].result)
               \/ main[i].result = "missing" /\ fun = "fetchBuckets"
      BY <1>5 DEF CallbackComing
    <2>2. i # 1
      BY <1>2, <1>5, <2>1
    <2> QED
      BY <1>1, <1>4, <2>1, <2>2, KeepsComing
  <1>6. ASSUME NEW r, \E i \in DOMAIN main : main[i] = Notify(r)
        PROVE  \E j \in DOMAIN main' : main'[j] = Notify(r)
    <2>1. Notify(r).kind = "notify"
      BY DEF Notify
    <2> QED
      BY <1>1, <1>2, <1>4, <1>6, <2>1
  <1>7. ASSUME NEW r \in DOMAIN rounds, rounds'[r] = rounds[r], r # q PROVE Waits(r)'
    <2>1. Notify(r)' = Notify(r)
      BY DEF Notify
    <2> QED
      BY <1>5, <1>6, <1>7, <2>1 DEF Waits
  <1>8. CASE q \notin DOMAIN rounds
    <2>1. rounds' = rounds
      BY <1>2, <1>8 DEF TakeEntry
    <2> QED
      BY <1>7, <1>8, <2>1
  <1>9. CASE q \in DOMAIN rounds
    <2>1. T \in Rounds /\ rounds' = [rounds EXCEPT ![q] = T]
      <3>1. rounds' = [rounds EXCEPT
              ![B.round].got = Append(@, [id |-> B.id, found |-> B.result = "found"]),
              ![B.round].inside = @ \ {B.id}]
        BY DEF TakeEntry
      <3> QED
        BY <1>1, <1>2, <1>9, <3>1, TakeRound
    <2>2. R \in Rounds
      BY <1>2, <1>9
    <2>3. /\ T.open = R.open /\ T.failed = R.failed /\ T.answer = R.answer
          /\ T.inside = R.inside \ {B.id}
      BY <2>2 DEF Taken, Rounds
    <2> HIDE DEF T
    <2>4. /\ DOMAIN rounds' = DOMAIN rounds /\ rounds'[q] = T
          /\ \A r \in DOMAIN rounds : r # q => rounds'[r] = rounds[r]
      BY <1>2, <1>9, <2>1, ReplaceRound
    <2>5. ASSUME T.inside = {}, R.inside # {} PROVE \E j \in DOMAIN main' : main'[j] = Notify(q)
      <3>1. R.inside = {B.id}
        BY <2>3, <2>5
      <3>2. bs # <<>> /\ bs[1] = Notify(q)
        BY <3>1
      <3> HIDE DEF bs
      <3> QED
        BY <1>4, <3>2
    <2>6. Waits(q)'
      <3>2. \A d \in T.inside : d \in T.open \cup T.failed \/ CallbackComing(q, d)'
        BY <1>5, <1>9, <2>3 DEF Waits
      <3>3. T.inside = {} => T.answer # NotYet \/ \E j \in DOMAIN main' : main'[j] = Notify(q)
        BY <1>6, <1>9, <2>3, <2>5 DEF Waits
      <3> QED
        BY <2>4, <3>2, <3>3 DEF Waits, Notify
    <2> QED
      BY <1>7, <2>4, <2>6
  <1> QED
    BY <1>8, <1>9

\* A notification is of a round that is answered by it; an outcome that does not
\* call back brings nothing.
LEMMA HangsRest ==
  ASSUME TypeOK, TakeNothing \/ Deliver, \A r \in DOMAIN rounds : Waits(r)
  PROVE  \A r \in DOMAIN rounds' : Waits(r)'
  <1> PICK B : B = Head(main)
    OBVIOUS
  <1>1. main # <<>> /\ Done(<<>>) /\ fun' = fun
    BY DEF TakeNothing, Deliver
  <1>2. main \in Seq(Blocks) /\ B \in Blocks /\ B = main[1] /\ rounds \in Seq(Rounds)
    BY <1>1, HeadBlock DEF TypeOK
  <1>3. \A i \in DOMAIN main : i # 1 => \E j \in DOMAIN main' : main'[j] = main[i]
    <2>1. <<>> \in Seq(Blocks) /\ Len(<<>>) <= 1
      OBVIOUS
    <2> QED
      BY <1>1, <1>2, <2>1, BlocksStay
  <1>4. \/ B.kind = "notify"
        \/ /\ ~CallsBack(B.result)
           /\ B.result = "missing" => fun # "fetchBuckets"
           /\ B.kind = "outcome"
    BY <1>2 DEF TakeNothing, Deliver
  <1>5. ASSUME NEW r, NEW d, CallbackComing(r, d) PROVE CallbackComing(r, d)'
    <2>1. PICK i \in DOMAIN main :
            /\ main[i].kind = "outcome" /\ main[i].round = r /\ main[i].id = d
            /\ \/ CallsBack(main[i].result)
               \/ main[i].result = "missing" /\ fun = "fetchBuckets"
      BY <1>5 DEF CallbackComing
    <2>2. i # 1
      BY <1>2, <1>4, <2>1
    <2>3. PICK j \in DOMAIN main' : main'[j] = main[i]
      BY <1>3, <2>2
    <2> QED
      BY <1>1, <2>1, <2>3, KeepsComing
  <1>6. ASSUME NEW r, \E i \in DOMAIN main : main[i] = Notify(r), B # Notify(r)
        PROVE  \E j \in DOMAIN main' : main'[j] = Notify(r)
    BY <1>2, <1>3, <1>6
  <1>7. ASSUME NEW r \in DOMAIN rounds, rounds'[r] = rounds[r], B # Notify(r) PROVE Waits(r)'
    <2>1. Notify(r)' = Notify(r)
      BY DEF Notify
    <2> QED
      BY <1>5, <1>6, <1>7, <2>1 DEF Waits
  <1>8. CASE TakeNothing
    <2>1. B.kind = "outcome" /\ rounds' = rounds
      BY <1>2, <1>8 DEF TakeNothing
    <2>2. \A r : B # Notify(r)
      BY <2>1 DEF Notify
    <2> QED
      BY <1>7, <2>1, <2>2
  <1>9. CASE Deliver
    <2> DEFINE q == B.round
               R == rounds[q]
    <2>1. \A r : r # q => B # Notify(r)
      BY DEF Notify
    <2>2. /\ rounds' = [rounds EXCEPT ![q].answer = R.got] /\ DOMAIN rounds' = DOMAIN rounds
          /\ \A r \in DOMAIN rounds : r # q => rounds'[r] = rounds[r]
      BY <1>2, <1>9 DEF Deliver
    <2>3. ASSUME q \in DOMAIN rounds PROVE Waits(q)'
      <3>1. R \in Rounds
        BY <1>2, <2>3
      <3>2. R.got # NotYet
        BY <3>1, NotYetAssumption DEF Rounds
      <3>3. /\ rounds'[q].inside = R.inside /\ rounds'[q].open = R.open
            /\ rounds'[q].failed = R.failed /\ rounds'[q].answer = R.got
        BY <2>2, <2>3, <3>1 DEF Rounds
      <3> QED
        BY <1>5, <2>3, <3>2, <3>3 DEF Waits
    <2> QED
      BY <1>7, <2>1, <2>2, <2>3
  <1> QED
    BY <1>8, <1>9

LEMMA HangsStep == TypeOK /\ NoneHangs /\ [Next]_vars => NoneHangs'
  <1> SUFFICES ASSUME TypeOK, NoneHangs, [Next]_vars PROVE NoneHangs'
    OBVIOUS
  <1>1. CASE crashed' \/ UNCHANGED vars
    <2>1. CASE UNCHANGED vars
      BY <2>1 DEF vars, NoneHangs, CallbackComing, CallsBack, Notify
    <2> QED
      BY <1>1, <2>1 DEF NoneHangs
  <1>2. CASE Next /\ ~crashed'
    <2>1. \A r \in DOMAIN rounds : Waits(r)
      BY <1>2 DEF NoneHangs, Waits, Next
    <2>2. SUFFICES \A r \in DOMAIN rounds' : Waits(r)'
      BY DEF NoneHangs, Waits
    <2>3. CASE Change \/ \E k \in Calls : Call(k)
      <3>1. rounds' = rounds /\ main' = main /\ fun' = fun
        BY <2>3 DEF Change, Call
      <3> QED
        BY <2>1, <3>1, WaitsOn
    <2>4. ASSUME NEW k \in Calls, Tell(k) PROVE \A r \in DOMAIN rounds' : Waits(r)'
      <3>1. rounds' = rounds /\ fun' = fun /\ \E S \in SUBSET Ids : Enqueue(<<Snapshot(S)>>)
        BY <2>4 DEF Tell, TypeOK
      <3>2. main \in Seq(Blocks)
        BY DEF TypeOK
      <3> QED
        BY <2>1, <3>1, <3>2, BlockType, WaitsEnqueue, WaitsOn
    <2>5. CASE AnswerSome
      BY <2>1, <2>5, HangsAnswer DEF AnswerSome
    <2>6. CASE StartRound
      BY <2>1, <2>6, HangsStart
    <2>7. CASE TakeEntry
      BY <2>1, <2>7, HangsTake
    <2>8. CASE TakeNothing \/ Deliver
      BY <2>1, <2>8, HangsRest
    <2>9. CASE CrashOnMissing
      BY <1>2, <2>9 DEF CrashOnMissing
    <2> QED
      BY <1>2, <2>3, <2>4, <2>5, <2>6, <2>7, <2>8, <2>9 DEF Next, RunBlock
  <1> QED
    BY <1>1, <1>2 DEF Next, vars, TypeOK

\* No group of any of the four functions waits for nothing: what it waits for is
\* being fetched, has failed, or is about to call back.
THEOREM NoneHangsHolds == Spec => []NoneHangs
  <1>1. Init => NoneHangs
    BY DEF Init, NoneHangs
  <1> QED
    BY <1>1, HangsStep, TypeCorrect, PTL DEF Spec
============================================================================
