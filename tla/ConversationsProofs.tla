------------------------ MODULE ConversationsProofs ------------------------
(* Proofs about Conversations, for any users, conversations and bounds. *)
EXTENDS Conversations, FiniteSetTheorems, WellFoundedInduction, TLAPS

----------------------------------------------------------------------------
(* The inductive invariant.                                                *)

\* Each conversation that a write of s, of one of ops, names is in base or comes before it
\* in s.
LedBy(ops, s, base) ==
  \A n \in DOMAIN s : s[n].op \in ops =>
    \/ s[n].conv \in base
    \/ \E i \in DOMAIN s : i < n /\ s[i].op = "conv" /\ s[i].conv = s[n].conv

\* Each conversation that s puts into a list comes before that.
Led(s, base) == LedBy({"list"}, s, base)

ConvsOf(s) == {w.conv : w \in {x \in Elements(s) : x.op = "conv"}}

StoredConvs(u) == ConvsOf(queue[u])

\* No list ever gets ahead of its conversation on the way to the server.
ListsLed(u) ==
  /\ lists[u] \subseteq convs
  /\ Led(queue[u], convs)
  /\ Led(worker[u], convs \cup StoredConvs(u))

\* The number and the conversation of a message that has been sent.
Sent(m, c) == m \in DOMAIN sent /\ sent[m] = c

\* What is under way for the message screen in front is of its conversation.
Fits(u, n, c) ==
  /\ n <= screens[u]["talk"]
  /\ n = screens[u]["talk"] => c = opened[u]

TaskSound(u, t) ==
  /\ t.op = "message" => Sent(t.message, t.conv)
  /\ t.op = "read" => Fits(u, t.screen, t.conv)

BlockSound(u, b) ==
  b.kind = "talk" => Fits(u, b.screen, b.conv) /\ \A m \in b.docs : Sent(m, b.conv)

TalkSound(u) ==
  /\ got[u] \subseteq DOMAIN sent
  /\ \A t \in Elements(worker[u]) : TaskSound(u, t)
  /\ \A w \in Elements(queue[u]) : w.op = "message" => Sent(w.message, w.conv)
  /\ \A r \in Elements(readers[u]) : Fits(u, r.screen, r.conv)
  /\ \A b \in Elements(main[u]) : BlockSound(u, b)
  /\ \A m \in shown[u] : Sent(m, opened[u])

NoLists(s) == \A i \in DOMAIN s : s[i].kind # "list"

\* The last block of s that fills the shared array brings docs, to be kept by ids.
LastBrings(s, docs, ids) ==
  \A i \in DOMAIN s :
    (s[i].kind = "list" /\ \A j \in DOMAIN s : j > i => s[j].kind # "list")
      => s[i].docs = docs /\ s[i].ids = ids

\* The array is, or is about to be, what the listener that came last has heard.
NewestTold(u) ==
  LET n == Len(listeners[u])
  IN /\ u \notin Followed => n = 0
     /\ n > 0 =>
          /\ LastBrings(main[u], SeesConvs(u), listeners[u][n].ids)
          /\ NoLists(main[u]) => shared[u] = Ordered(SeesConvs(u) \cap listeners[u][n].ids)

IInv ==
  /\ TypeOK
  /\ posted \subseteq DOMAIN sent
  /\ \A u \in Users : ListsLed(u) /\ TalkSound(u) /\ NewestTold(u)

----------------------------------------------------------------------------
(* Finite sets of numbers, and their order.                                *)

LEMMA LargestExists ==
  ASSUME NEW S \in SUBSET Nat, IsFiniteSet(S), S # {}
  PROVE  \E m \in S : \A x \in S : x <= m
<1>. DEFINE Largest(T) == \E m \in T : \A x \in T : x <= m
            Bad == {T \in FiniteSubsetsOf(Nat) : T # {} /\ ~Largest(T)}
<1>1. SUFFICES ASSUME ~Largest(S)  PROVE FALSE
  OBVIOUS
<1>2. S \in Bad
  BY <1>1 DEF FiniteSubsetsOf
<1>3. PICK T \in Bad : \A U \in Bad : ~(<<U, T>> \in StrictSubsetOrdering(Nat))
  <2>1. Bad \subseteq FiniteSubsetsOf(Nat) /\ Bad # {}
    BY <1>2
  <2>. HIDE DEF Bad
  <2>. QED  BY <2>1, FS_StrictSubsetOrderingWellFounded, WFMin
<1>4. T \in SUBSET Nat /\ IsFiniteSet(T) /\ T # {} /\ ~Largest(T)
  BY <1>3 DEF FiniteSubsetsOf
<1>5. PICK x \in T : TRUE
  BY <1>4
<1>6. T \ {x} \in FiniteSubsetsOf(Nat) /\ T \ {x} # T
  BY <1>4, <1>5, FS_RemoveElement DEF FiniteSubsetsOf
<1>7. Largest(T \ {x}) \/ T \ {x} = {}
  <2>1. <<T \ {x}, T>> \in StrictSubsetOrdering(Nat)
    BY <1>4, <1>6 DEF StrictSubsetOrdering
  <2>. QED  BY <1>3, <1>6, <2>1
<1>8. CASE T \ {x} = {}
  BY <1>4, <1>5, <1>8
<1>9. CASE Largest(T \ {x})
  <2>1. PICK m \in T \ {x} : \A y \in T \ {x} : y <= m
    BY <1>9
  <2>2. m \in Nat /\ x \in Nat /\ m \in T
    BY <1>4, <1>5, <2>1
  <2>3. CASE x <= m
    BY <1>4, <2>1, <2>2, <2>3
  <2>4. CASE m < x
    BY <1>4, <1>5, <2>1, <2>2, <2>4
  <2>. QED  BY <2>2, <2>3, <2>4
<1>. QED  BY <1>7, <1>8, <1>9

Sorted(s) == \A i, j \in DOMAIN s : i < j => s[i] < s[j]

LEMMA OrderExists ==
  ASSUME NEW S \in SUBSET Nat, IsFiniteSet(S)
  PROVE  \E s \in [1 .. Cardinality(S) -> S] : Sorted(s)
<1>. DEFINE Orderly(T) == \E s \in [1 .. Cardinality(T) -> T] : Sorted(s)
            Bad == {T \in FiniteSubsetsOf(Nat) : ~Orderly(T)}
<1>1. SUFFICES ASSUME ~Orderly(S)  PROVE FALSE
  OBVIOUS
<1>2. S \in Bad
  BY <1>1 DEF FiniteSubsetsOf
<1>3. PICK T \in Bad : \A U \in Bad : ~(<<U, T>> \in StrictSubsetOrdering(Nat))
  <2>1. Bad \subseteq FiniteSubsetsOf(Nat) /\ Bad # {}
    BY <1>2
  <2>. HIDE DEF Bad
  <2>. QED  BY <2>1, FS_StrictSubsetOrderingWellFounded, WFMin
<1>4. T \in SUBSET Nat /\ IsFiniteSet(T) /\ ~Orderly(T)
  BY <1>3 DEF FiniteSubsetsOf
<1>5. T # {}
  <2>1. SUFFICES ASSUME T = {}  PROVE Orderly({})
    BY <1>4
  <2>2. Cardinality({}) = 0 /\ <<>> \in [1 .. 0 -> {}] /\ DOMAIN <<>> = {}
    BY FS_EmptySet
  <2>. QED  BY <2>2 DEF Sorted
<1>6. PICK m \in T : \A x \in T : x <= m
  BY <1>4, <1>5, LargestExists
<1>. DEFINE R == T \ {m}
            n == Cardinality(R)
<1>7. /\ R \in FiniteSubsetsOf(Nat) /\ R # T
      /\ n \in Nat /\ Cardinality(T) = n + 1
  <2>1. IsFiniteSet(R) /\ Cardinality(R) = Cardinality(T) - 1
    BY <1>4, <1>6, FS_RemoveElement
  <2>2. Cardinality(R) \in Nat /\ Cardinality(T) \in Nat
    BY <1>4, <2>1, FS_CardinalityType
  <2>. QED  BY <1>4, <1>6, <2>1, <2>2 DEF FiniteSubsetsOf
<1>8. Orderly(R)
  <2>1. <<R, T>> \in StrictSubsetOrdering(Nat)
    BY <1>4, <1>7 DEF StrictSubsetOrdering
  <2>. QED  BY <1>3, <1>7, <2>1
<1>9. PICK s \in [1 .. n -> R] : Sorted(s)
  BY <1>8
<1>. HIDE DEF n
<1>. DEFINE t == [i \in 1 .. n + 1 |-> IF i = n + 1 THEN m ELSE s[i]]
<1>10. t \in [1 .. n + 1 -> T]
  <2>1. \A i \in 1 .. n : s[i] \in T
    BY <1>9
  <2>2. \A i \in 1 .. n + 1 : i = n + 1 \/ i \in 1 .. n
    BY <1>7
  <2>. QED  BY <1>6, <2>1, <2>2
<1>11. Sorted(t)
  <2>. SUFFICES ASSUME NEW i \in 1 .. n + 1, NEW j \in 1 .. n + 1, i < j
                PROVE  t[i] < t[j]
    BY DEF Sorted
  <2>0. i \in 1 .. n
    BY <1>7
  <2>01. t[i] = s[i]
    BY <1>7, <2>0
  <2>02. s[i] \in R
    BY <1>9, <2>0
  <2>1. t[i] = s[i] /\ s[i] \in R /\ s[i] \in Nat /\ m \in Nat
    BY <1>4, <1>6, <2>01, <2>02
  <2>2. CASE j = n + 1
    BY <1>6, <1>7, <2>1, <2>2
  <2>3. CASE j # n + 1
    <3>1. j \in 1 .. n /\ t[j] = s[j]
      BY <1>7, <2>3
    <3>. QED  BY <1>9, <2>0, <2>1, <3>1 DEF Sorted
  <2>. QED  BY <2>2, <2>3
<1>12. Orderly(T)
  <2>. HIDE DEF t
  <2>. QED  BY <1>7, <1>10, <1>11
<1>. QED  BY <1>4, <1>12

LEMMA OrderedType ==
  ASSUME NEW S \in SUBSET Nat, IsFiniteSet(S)
  PROVE  Ordered(S) \in Seq(S)
<1>1. \E s \in [1 .. Cardinality(S) -> S] : \A i, j \in DOMAIN s : i < j => s[i] < s[j]
  BY OrderExists DEF Sorted
<1>2. Ordered(S) \in [1 .. Cardinality(S) -> S]
  BY <1>1 DEF Ordered
<1>3. Cardinality(S) \in Nat
  BY FS_CardinalityType
<1>. QED  BY <1>2, <1>3

\* More arguments than values: two have the same.
LEMMA Pigeons ==
  ASSUME NEW D, IsFiniteSet(D), NEW R, IsFiniteSet(R), Cardinality(R) < Cardinality(D),
         NEW s \in [D -> R]
  PROVE  \E k, l \in D : k # l /\ s[k] = s[l]
BY FS_PigeonHole, Zenon

\* Every number is in the order once.
LEMMA OrderedAll ==
  ASSUME NEW S \in SUBSET Nat, IsFiniteSet(S), NEW x \in S
  PROVE  \E k \in DOMAIN Ordered(S) : Ordered(S)[k] = x
<1>n. PICK n : n = Cardinality(S)
  OBVIOUS
<1>s. PICK s : s = Ordered(S)
  OBVIOUS
<1>1. n \in Nat
  BY <1>n, FS_CardinalityType
<1>2. s \in [1 .. n -> S] /\ Sorted(s)
  BY <1>n, <1>s, OrderExists DEF Ordered, Sorted
<1>3. SUFFICES ASSUME \A k \in 1 .. n : s[k] # x  PROVE FALSE
  BY <1>2, <1>s
<1>4. s \in [1 .. n -> S \ {x}]
  BY <1>2, <1>3
<1>5. IsFiniteSet(S \ {x}) /\ Cardinality(S \ {x}) = n - 1
  BY <1>n, FS_RemoveElement
<1>6. IsFiniteSet(1 .. n) /\ Cardinality(1 .. n) = n
  <2>1. 1 \in Int /\ n \in Int /\ n - 1 + 1 = n
    BY <1>1
  <2>2. Cardinality(1 .. n) = IF 1 > n THEN 0 ELSE n - 1 + 1
    BY <2>1, FS_Interval
  <2>3. IsFiniteSet(1 .. n)
    BY <2>1, FS_Interval
  <2>. QED  BY <1>1, <2>2, <2>3
<1>7. \E i, j \in 1 .. n : i # j /\ s[i] = s[j]
  <2>1. Cardinality(S \ {x}) < Cardinality(1 .. n)
    BY <1>1, <1>5, <1>6
  <2>2. PICK D : D = 1 .. n
    OBVIOUS
  <2>3. PICK R : R = S \ {x}
    OBVIOUS
  <2>4. /\ Cardinality(R) < Cardinality(D) /\ IsFiniteSet(D) /\ IsFiniteSet(R)
        /\ s \in [D -> R]
    BY <1>4, <1>5, <1>6, <2>1, <2>2, <2>3
  <2>5. \E k, l \in D : k # l /\ s[k] = s[l]
    BY ONLY <2>4, Pigeons
  <2>. QED  BY <2>2, <2>5
<1>8. PICK i, j \in 1 .. n : i # j /\ s[i] = s[j]
  BY <1>7
<1>9. i \in Nat /\ j \in Nat /\ s[i] \in S /\ s[j] \in S
  BY <1>1, <1>2
<1>10. s[i] \in Nat /\ i \in DOMAIN s /\ j \in DOMAIN s
  BY <1>2, <1>9
<1>11. ~(s[i] < s[j]) /\ ~(s[j] < s[i])
  BY <1>8, <1>10
<1>12. i < j \/ j < i
  BY <1>8, <1>9
<1>. QED  BY <1>2, <1>10, <1>11, <1>12 DEF Sorted

----------------------------------------------------------------------------
(* Sequences and what is in them.                                          *)

LEMMA CatIndex ==
  ASSUME NEW S, NEW s \in Seq(S), NEW t \in Seq(S)
  PROVE  /\ s \o t \in Seq(S)
         /\ Len(s \o t) = Len(s) + Len(t) /\ Len(s) \in Nat /\ Len(t) \in Nat
         /\ DOMAIN (s \o t) = 1 .. Len(s) + Len(t)
         /\ DOMAIN s = 1 .. Len(s) /\ DOMAIN t = 1 .. Len(t)
         /\ \A i \in 1 .. Len(s) : i \in DOMAIN (s \o t) /\ (s \o t)[i] = s[i]
         /\ \A i \in 1 .. Len(t) :
              Len(s) + i \in DOMAIN (s \o t) /\ (s \o t)[Len(s) + i] = t[i]
         /\ \A i \in DOMAIN (s \o t) :
              i \in DOMAIN s \/ (i > Len(s) /\ i - Len(s) \in DOMAIN t)
<1>1. /\ s \o t \in Seq(S) /\ Len(s \o t) = Len(s) + Len(t)
      /\ DOMAIN (s \o t) = 1 .. Len(s) + Len(t)
      /\ DOMAIN s = 1 .. Len(s) /\ DOMAIN t = 1 .. Len(t)
      /\ Len(s) \in Nat /\ Len(t) \in Nat
  OBVIOUS
<1>2. \A i \in 1 .. Len(s) : i \in DOMAIN (s \o t) /\ (s \o t)[i] = s[i]
  BY <1>1
<1>3. \A i \in 1 .. Len(t) : Len(s) + i \in DOMAIN (s \o t) /\ (s \o t)[Len(s) + i] = t[i]
  BY <1>1
<1>4. \A i \in DOMAIN (s \o t) : i \in DOMAIN s \/ (i > Len(s) /\ i - Len(s) \in DOMAIN t)
  BY <1>1
<1>. QED  BY <1>1, <1>2, <1>3, <1>4

LEMMA CatElements ==
  ASSUME NEW S, NEW s \in Seq(S), NEW t \in Seq(S)
  PROVE  Elements(s \o t) = Elements(s) \cup Elements(t)
<1>1. ASSUME NEW i \in DOMAIN (s \o t)
      PROVE  (s \o t)[i] \in Elements(s) \cup Elements(t)
  <2>1. CASE i \in DOMAIN s
    BY <2>1, CatIndex DEF Elements
  <2>2. CASE i - Len(s) \in DOMAIN t
    <3>1. i = Len(s) + (i - Len(s))
      BY CatIndex
    <3>2. (s \o t)[i] = t[i - Len(s)]
      BY <2>2, <3>1, CatIndex
    <3>. QED  BY <2>2, <3>2 DEF Elements
  <2>. QED  BY <2>1, <2>2, CatIndex
<1>2. Elements(s) \subseteq Elements(s \o t)
  BY CatIndex DEF Elements
<1>3. Elements(t) \subseteq Elements(s \o t)
  <2>1. ASSUME NEW i \in DOMAIN t  PROVE t[i] \in Elements(s \o t)
    <3>1. Len(s) + i \in DOMAIN (s \o t) /\ (s \o t)[Len(s) + i] = t[i]
      BY CatIndex
    <3>. QED  BY <3>1 DEF Elements
  <2>. QED  BY <2>1 DEF Elements
<1>4. Elements(s \o t) \subseteq Elements(s) \cup Elements(t)
  BY <1>1 DEF Elements
<1>. QED  BY <1>2, <1>3, <1>4

LEMMA OneElement ==
  ASSUME NEW S, NEW x \in S
  PROVE  /\ <<x>> \in Seq(S) /\ Len(<<x>>) = 1 /\ DOMAIN <<x>> = {1} /\ <<x>>[1] = x
         /\ Elements(<<x>>) = {x}
<1>1. <<x>> \in Seq(S) /\ Len(<<x>>) = 1 /\ DOMAIN <<x>> = {1} /\ <<x>>[1] = x
  OBVIOUS
<1>. QED  BY <1>1 DEF Elements

LEMMA NoElements ==
  ASSUME NEW S
  PROVE  <<>> \in Seq(S) /\ Elements(<<>>) = {}
  BY DEF Elements

LEMMA TailIndex ==
  ASSUME NEW S, NEW s \in Seq(S), s # <<>>
  PROVE  /\ Tail(s) \in Seq(S) /\ Head(s) \in S /\ Head(s) = s[1] /\ 1 \in DOMAIN s
         /\ Len(s) \in Nat \ {0} /\ DOMAIN s = 1 .. Len(s)
         /\ DOMAIN Tail(s) = 1 .. Len(s) - 1
         /\ \A i \in DOMAIN Tail(s) : i + 1 \in DOMAIN s /\ Tail(s)[i] = s[i + 1]
         /\ \A i \in DOMAIN s :
              i = 1 \/ (i > 1 /\ i - 1 \in DOMAIN Tail(s) /\ s[i] = Tail(s)[i - 1])
<1>1. /\ Tail(s) \in Seq(S) /\ Head(s) \in S /\ Head(s) = s[1] /\ 1 \in DOMAIN s
      /\ Len(s) \in Nat \ {0} /\ DOMAIN s = 1 .. Len(s)
      /\ DOMAIN Tail(s) = 1 .. Len(s) - 1
      /\ \A i \in 1 .. Len(s) - 1 : Tail(s)[i] = s[i + 1]
  OBVIOUS
<1>2. ASSUME NEW i \in 1 .. Len(s), i # 1
      PROVE  i > 1 /\ i - 1 \in 1 .. Len(s) - 1 /\ s[i] = Tail(s)[i - 1]
  <2>1. i > 1 /\ i - 1 \in 1 .. Len(s) - 1 /\ (i - 1) + 1 = i
    BY <1>1, <1>2
  <2>. QED  BY <1>1, <2>1
<1>3. \A i \in 1 .. Len(s) - 1 : i + 1 \in 1 .. Len(s)
  BY <1>1
<1>. QED  BY <1>1, <1>2, <1>3

LEMMA TailElements ==
  ASSUME NEW S, NEW s \in Seq(S), s # <<>>
  PROVE  Elements(s) = {Head(s)} \cup Elements(Tail(s))
<1>1. Elements(s) \subseteq {Head(s)} \cup Elements(Tail(s))
  <2>1. ASSUME NEW i \in DOMAIN s  PROVE s[i] \in {Head(s)} \cup Elements(Tail(s))
    <3>1. Head(s) = s[1]
      BY TailIndex
    <3>2. i = 1 \/ (i - 1 \in DOMAIN Tail(s) /\ s[i] = Tail(s)[i - 1])
      BY TailIndex
    <3>. QED  BY <3>1, <3>2 DEF Elements
  <2>. QED  BY <2>1 DEF Elements
<1>2. {Head(s)} \cup Elements(Tail(s)) \subseteq Elements(s)
  <2>1. Head(s) \in Elements(s)
    BY TailIndex DEF Elements
  <2>2. ASSUME NEW i \in DOMAIN Tail(s)  PROVE Tail(s)[i] \in Elements(s)
    BY TailIndex DEF Elements
  <2>. QED  BY <2>1, <2>2 DEF Elements
<1>. QED  BY <1>1, <1>2

LEMMA SeqFacts ==
  ASSUME NEW S, NEW s \in Seq(S)
  PROVE  Len(s) \in Nat /\ DOMAIN s = 1 .. Len(s) /\ \A i \in DOMAIN s : s[i] \in S
  OBVIOUS

LEMMA ElementType ==
  ASSUME NEW S, NEW s \in Seq(S)
  PROVE  Elements(s) \subseteq S
  BY DEF Elements

\* A function on 1 .. n is a sequence.
LEMMA Stacked ==
  ASSUME NEW n \in Nat, NEW S, NEW s \in [1 .. n -> S]
  PROVE  s \in Seq(S) /\ Len(s) = n /\ DOMAIN s = 1 .. n
  OBVIOUS

LEMMA AppendIsCat ==
  ASSUME NEW S, NEW s \in Seq(S), NEW x \in S
  PROVE  Append(s, x) = s \o <<x>>
  OBVIOUS

----------------------------------------------------------------------------
(* Writes that come after what they rest on.                               *)

LEMMA LedByMore ==
  ASSUME NEW ops, NEW s, NEW A, NEW B, A \subseteq B, LedBy(ops, s, A)
  PROVE  LedBy(ops, s, B)
  BY DEF LedBy

\* What the first write brings is there once it has gone.
LEMMA LedByTail ==
  ASSUME NEW ops, NEW S, NEW s \in Seq(S), s # <<>>, NEW A, NEW B, A \subseteq B, LedBy(ops, s, A),
         Head(s).op = "conv" => Head(s).conv \in B
  PROVE  LedBy(ops, Tail(s), B)
<1>. SUFFICES ASSUME NEW n \in DOMAIN Tail(s), Tail(s)[n].op \in ops,
                     Tail(s)[n].conv \notin B
              PROVE  \E i \in DOMAIN Tail(s) :
                       i < n /\ Tail(s)[i].op = "conv" /\ Tail(s)[i].conv = Tail(s)[n].conv
  BY DEF LedBy
<1>1. n + 1 \in DOMAIN s /\ s[n + 1] = Tail(s)[n] /\ n \in Nat
  BY TailIndex
<1>2. PICK i \in DOMAIN s :
        i < n + 1 /\ s[i].op = "conv" /\ s[i].conv = Tail(s)[n].conv
  BY <1>1 DEF LedBy
<1>3. i # 1
  BY <1>2, TailIndex
<1>4. i \in Nat /\ i - 1 \in DOMAIN Tail(s) /\ s[i] = Tail(s)[i - 1] /\ i - 1 < n
  BY <1>1, <1>2, <1>3, TailIndex
<1>. QED  BY <1>2, <1>4

LEMMA LedByCat ==
  ASSUME NEW ops, NEW S, NEW s \in Seq(S), NEW t \in Seq(S), NEW A,
         LedBy(ops, s, A), LedBy(ops, t, A \cup ConvsOf(s))
  PROVE  LedBy(ops, s \o t, A)
<1>. SUFFICES ASSUME NEW n \in DOMAIN (s \o t), (s \o t)[n].op \in ops,
                     (s \o t)[n].conv \notin A
              PROVE  \E i \in DOMAIN (s \o t) :
                       /\ i < n /\ (s \o t)[i].op = "conv"
                       /\ (s \o t)[i].conv = (s \o t)[n].conv
  BY DEF LedBy
<1>0. n \in Nat /\ Len(s) \in Nat
  BY CatIndex
<1>1. CASE n \in DOMAIN s
  <2>1. (s \o t)[n] = s[n]
    BY <1>1, CatIndex
  <2>2. PICK i \in DOMAIN s : i < n /\ s[i].op = "conv" /\ s[i].conv = s[n].conv
    BY <1>1, <2>1 DEF LedBy
  <2>3. i \in DOMAIN (s \o t) /\ (s \o t)[i] = s[i]
    BY CatIndex
  <2>. QED  BY <2>1, <2>2, <2>3
<1>2. CASE n > Len(s) /\ n - Len(s) \in DOMAIN t
  <2>. DEFINE k == n - Len(s)
  <2>1. k \in DOMAIN t /\ n = Len(s) + k /\ k \in Nat
    BY <1>0, <1>2
  <2>2. (s \o t)[n] = t[k]
    BY <2>1, CatIndex
  <2>3. CASE t[k].conv \in ConvsOf(s)
    <3>1. PICK i \in DOMAIN s : s[i].op = "conv" /\ s[i].conv = t[k].conv
      BY <2>3 DEF Elements, ConvsOf
    <3>2. i \in DOMAIN (s \o t) /\ (s \o t)[i] = s[i] /\ i < n
      BY <1>2, CatIndex
    <3>. QED  BY <2>2, <3>1, <3>2
  <2>4. CASE t[k].conv \notin ConvsOf(s)
    <3>. HIDE DEF k
    <3>1. PICK i \in DOMAIN t : i < k /\ t[i].op = "conv" /\ t[i].conv = t[k].conv
      BY <2>1, <2>2, <2>4 DEF LedBy
    <3>2. /\ Len(s) + i \in DOMAIN (s \o t) /\ (s \o t)[Len(s) + i] = t[i]
          /\ Len(s) + i < n
      BY <2>1, <3>1, CatIndex
    <3>. QED  BY <2>2, <3>1, <3>2
  <2>. QED  BY <2>3, <2>4
<1>. QED  BY <1>1, <1>2, CatIndex

LEMMA LedMore ==
  ASSUME NEW s, NEW A, NEW B, A \subseteq B, Led(s, A)
  PROVE  Led(s, B)
  BY LedByMore DEF Led

LEMMA LedTail ==
  ASSUME NEW S, NEW s \in Seq(S), s # <<>>, NEW A, NEW B, A \subseteq B, Led(s, A),
         Head(s).op = "conv" => Head(s).conv \in B
  PROVE  Led(Tail(s), B)
  BY LedByTail DEF Led

LEMMA LedCat ==
  ASSUME NEW S, NEW s \in Seq(S), NEW t \in Seq(S), NEW A,
         Led(s, A), Led(t, A \cup ConvsOf(s))
  PROVE  Led(s \o t, A)
  BY LedByCat DEF Led

LEMMA LedOne ==
  ASSUME NEW S, NEW x \in S, NEW A, x.op = "list" => x.conv \in A
  PROVE  Led(<<x>>, A)
  BY OneElement DEF Led, LedBy

\* Tasks that put nothing into a list.
LEMMA LedNone ==
  ASSUME NEW s, NEW A, \A n \in DOMAIN s : s[n].op # "list"
  PROVE  Led(s, A)
  BY DEF Led, LedBy

----------------------------------------------------------------------------
(* The last block that fills the shared array.                             *)

LEMMA CatNoLists ==
  ASSUME NEW S, NEW s \in Seq(S), NEW t \in Seq(S), NoLists(t)
  PROVE  /\ NoLists(s \o t) <=> NoLists(s)
         /\ \A docs, ids : LastBrings(s, docs, ids) => LastBrings(s \o t, docs, ids)
<1>1. ASSUME NEW i \in DOMAIN (s \o t), (s \o t)[i].kind = "list"
      PROVE  i \in DOMAIN s /\ (s \o t)[i] = s[i]
  <2>1. CASE i \in DOMAIN s
    BY <2>1, CatIndex
  <2>2. CASE i > Len(s) /\ i - Len(s) \in DOMAIN t
    <3>1. i = Len(s) + (i - Len(s))
      BY CatIndex
    <3>2. (s \o t)[i] = t[i - Len(s)]
      BY <2>2, <3>1, CatIndex
    <3>. QED  BY <1>1, <2>2, <3>2 DEF NoLists
  <2>. QED  BY <2>1, <2>2, CatIndex
<1>2. \A i \in DOMAIN s : i \in DOMAIN (s \o t) /\ (s \o t)[i] = s[i]
  BY CatIndex
<1>3. NoLists(s \o t) <=> NoLists(s)
  BY <1>1, <1>2 DEF NoLists
<1>4. ASSUME NEW docs, NEW ids, LastBrings(s, docs, ids)
      PROVE  LastBrings(s \o t, docs, ids)
  <2>. SUFFICES ASSUME NEW i \in DOMAIN (s \o t), (s \o t)[i].kind = "list",
                       \A j \in DOMAIN (s \o t) : j > i => (s \o t)[j].kind # "list"
                PROVE  (s \o t)[i].docs = docs /\ (s \o t)[i].ids = ids
    BY DEF LastBrings
  <2>1. i \in DOMAIN s /\ (s \o t)[i] = s[i]
    BY <1>1
  <2>2. \A j \in DOMAIN s : j > i => s[j].kind # "list"
    BY <1>2
  <2>. QED  BY <1>4, <2>1, <2>2 DEF LastBrings
<1>. QED  BY <1>3, <1>4

\* Blocks of which the last one fills the array decide what it comes to hold.
LEMMA CatLists ==
  ASSUME NEW S, NEW s \in Seq(S), NEW t \in Seq(S), t # <<>>,
         NEW docs, NEW ids, t[Len(t)].kind = "list", t[Len(t)].docs = docs,
         t[Len(t)].ids = ids
  PROVE  ~NoLists(s \o t) /\ LastBrings(s \o t, docs, ids)
<1>. DEFINE n == Len(s) + Len(t)
<1>1. /\ Len(t) \in DOMAIN t /\ Len(s) \in Nat /\ Len(t) \in Nat
      /\ n \in DOMAIN (s \o t) /\ (s \o t)[n] = t[Len(t)]
      /\ DOMAIN (s \o t) = 1 .. n
  <2>1. Len(t) \in Nat \ {0}
    OBVIOUS
  <2>2. Len(t) \in 1 .. Len(t)
    BY <2>1
  <2>. QED  BY <2>1, <2>2, CatIndex
<1>. HIDE DEF n
<1>2. ~NoLists(s \o t)
  BY <1>1 DEF NoLists
<1>3. ASSUME NEW i \in DOMAIN (s \o t),
             \A j \in DOMAIN (s \o t) : j > i => (s \o t)[j].kind # "list"
      PROVE  i = n
  <2>1. n \in Nat
    BY <1>1 DEF n
  <2>. QED  BY <1>1, <1>3, <2>1
<1>4. LastBrings(s \o t, docs, ids)
  BY <1>1, <1>3 DEF LastBrings
<1>. QED  BY <1>2, <1>4

LEMMA TailLists ==
  ASSUME NEW S, NEW s \in Seq(S), s # <<>>
  PROVE  /\ NoLists(s) <=> (Head(s).kind # "list" /\ NoLists(Tail(s)))
         /\ \A docs, ids : LastBrings(s, docs, ids) =>
              /\ LastBrings(Tail(s), docs, ids)
              /\ (Head(s).kind = "list" /\ NoLists(Tail(s))) =>
                   Head(s).docs = docs /\ Head(s).ids = ids
<1>1. /\ Head(s) = s[1] /\ 1 \in DOMAIN s /\ DOMAIN s \subseteq Nat
      /\ \A i \in DOMAIN Tail(s) : i \in Nat /\ i + 1 \in DOMAIN s /\ Tail(s)[i] = s[i + 1]
      /\ \A i \in DOMAIN s :
           i = 1 \/ (i > 1 /\ i - 1 \in DOMAIN Tail(s) /\ s[i] = Tail(s)[i - 1])
  BY TailIndex
<1>2. NoLists(s) <=> (Head(s).kind # "list" /\ NoLists(Tail(s)))
  BY <1>1 DEF NoLists
<1>3. ASSUME NEW docs, NEW ids, LastBrings(s, docs, ids)
      PROVE  LastBrings(Tail(s), docs, ids)
  <2>. SUFFICES ASSUME NEW i \in DOMAIN Tail(s), Tail(s)[i].kind = "list",
                       \A j \in DOMAIN Tail(s) : j > i => Tail(s)[j].kind # "list"
                PROVE  Tail(s)[i].docs = docs /\ Tail(s)[i].ids = ids
    BY DEF LastBrings
  <2>1. i \in Nat /\ i + 1 \in DOMAIN s /\ Tail(s)[i] = s[i + 1]
    BY <1>1
  <2>2. ASSUME NEW j \in DOMAIN s, j > i + 1
        PROVE  s[j].kind # "list"
    <3>1. j \in Nat /\ j - 1 \in DOMAIN Tail(s) /\ s[j] = Tail(s)[j - 1]
      BY <1>1, <2>1, <2>2
    <3>2. j - 1 > i
      BY <2>1, <2>2, <3>1
    <3>. QED  BY <3>1, <3>2
  <2>. QED  BY <1>3, <2>1, <2>2 DEF LastBrings
<1>4. ASSUME NEW docs, NEW ids, LastBrings(s, docs, ids),
             Head(s).kind = "list", NoLists(Tail(s))
      PROVE  Head(s).docs = docs /\ Head(s).ids = ids
  <2>1. \A j \in DOMAIN s : j > 1 => s[j].kind # "list"
    BY <1>1, <1>4 DEF NoLists
  <2>. QED  BY <1>1, <1>4, <2>1 DEF LastBrings
<1>. QED  BY <1>2, <1>3, <1>4

----------------------------------------------------------------------------
(* What IInv says of one user, and what keeps it.                          *)

Numbers == [Kinds -> Nat]

LEMMA Typed ==
  ASSUME TypeOK, NEW u \in Users
  PROVE  /\ lists[u] \subseteq Ids /\ heard[u] \subseteq Ids /\ known[u] \subseteq Ids
         /\ got[u] \subseteq Nat
         /\ worker[u] \in Seq(Tasks) /\ queue[u] \in Seq(WriteTasks)
         /\ sent \in Seq(Ids)
         /\ main[u] \in Seq(Blocks) /\ fetches[u] \in Seq(Nat)
         /\ listeners[u] \in Seq([ids : SUBSET Ids, screen : Nat])
         /\ readers[u] \in Seq([conv : Ids, screen : Nat])
         /\ shared[u] \in Seq(Ids) /\ table[u] \in Seq(Ids)
         /\ shown[u] \subseteq Nat
         /\ screens[u] \in Numbers
         /\ screens[u]["talk"] \in Nat /\ screens[u]["list"] \in Nat
         /\ opened[u] \in Ids \cup {None}
<1>1. screens[u] \in Numbers
  BY DEF TypeOK, Numbers
<1>2. screens[u]["talk"] \in Nat /\ screens[u]["list"] \in Nat
  BY <1>1 DEF Numbers, Kinds
<1>. QED  BY <1>1, <1>2 DEF TypeOK

LEMMA TaskTyped ==
  ASSUME NEW t \in Tasks
  PROVE  /\ t.op = "listen" => t.ids \subseteq Ids /\ t.screen \in Nat
         /\ t.op = "read" => t.conv \in Ids /\ t.screen \in Nat
         /\ t.op \notin {"listen", "read"} => t \in WriteTasks
  BY DEF Tasks, WriteTasks

LEMMA WriteTyped ==
  ASSUME NEW w \in WriteTasks
  PROVE  /\ w \in Tasks
         /\ w.op \in {"conv", "member", "list", "message"} /\ w.conv \in Ids
         /\ w.op # "conv" => w.user \in Users
         /\ w.message \in Nat
         /\ IsWrite(w)
  BY DEF WriteTasks, Tasks, IsWrite

LEMMA BlockTyped ==
  ASSUME NEW b \in Blocks
  PROVE  /\ b.screen \in Nat /\ b.ids \subseteq Ids
         /\ b.kind \in {"user", "list", "reload", "talk"}
         /\ b.kind # "talk" => b.docs \subseteq Ids
         /\ b.kind = "talk" => b.conv \in Ids /\ b.docs \subseteq Nat
  BY DEF Blocks

LEMMA BlockType ==
  ASSUME NEW n \in Nat
  PROVE  /\ \A ids \in SUBSET Ids, docs \in SUBSET Ids :
              \A kind \in {"user", "list", "reload"} :
                Block(kind, ids, docs, None, n) \in Blocks
         /\ \A docs \in SUBSET Nat, c \in Ids : Block("talk", {}, docs, c, n) \in Blocks
  BY DEF Block, Blocks

LEMMA OrderedIds ==
  ASSUME NEW S \in SUBSET Ids
  PROVE  Ordered(S) \in Seq(Ids)
<1>1. S \in SUBSET Nat /\ IsFiniteSet(S)
  BY IdsAssumption, FS_Subset
<1>2. Ordered(S) \in Seq(S)
  BY <1>1, OrderedType
<1>. QED  BY <1>2

LEMMA StoredType ==
  ASSUME TypeOK, NEW u \in Users
  PROVE  /\ \A op : Stored(u, op) \subseteq WriteTasks
         /\ StoredConvs(u) \subseteq Ids /\ SeesConvs(u) \subseteq Ids
         /\ SeesList(u) \subseteq Ids
         /\ \A c : SeesMessages(u, c) \subseteq Nat
         /\ SeesConvs(u) = known[u] \cup StoredConvs(u)
<1>1. Elements(queue[u]) \subseteq WriteTasks
  BY Typed, ElementType
<1>2. \A op : Stored(u, op) \subseteq WriteTasks
  BY <1>1 DEF Stored
<1>. QED  BY <1>2, Typed, WriteTyped DEF StoredConvs, ConvsOf, Stored, SeesConvs, SeesList, SeesMessages

\* Nothing that concerns u alone has changed.
Own(u) ==
  <<got[u], worker[u], queue[u], readers[u], main[u], shown[u], opened[u], screens[u],
    listeners[u], known[u], shared[u]>>

SentGrows == \A m, c : Sent(m, c) => Sent(m, c)'

LEMMA ListsKept ==
  ASSUME IInv, NEW u \in Users, worker'[u] = worker[u], queue'[u] = queue[u],
         convs \subseteq convs', lists'[u] \subseteq convs'
  PROVE  ListsLed(u)'
<1>1. /\ Led(queue[u], convs) /\ Led(worker[u], convs \cup StoredConvs(u))
      /\ StoredConvs(u)' = StoredConvs(u)
  BY DEF IInv, ListsLed, StoredConvs
<1>2. Led(queue[u], convs') /\ Led(worker[u], convs' \cup StoredConvs(u))
  BY <1>1, LedMore
<1>. QED  BY <1>1, <1>2 DEF ListsLed, Led, LedBy

LEMMA TalkKept ==
  ASSUME IInv, NEW u \in Users, SentGrows,
         \A n \in Nat : \A c : Fits(u, n, c) => Fits(u, n, c)',
         got'[u] \subseteq DOMAIN sent',
         \A t \in Elements(worker'[u]) : t \in Elements(worker[u]) \/ TaskSound(u, t)',
         \A w \in Elements(queue'[u]) :
           \/ w \in Elements(queue[u]) \cup Elements(worker[u])
           \/ w.op = "message" => Sent(w.message, w.conv)',
         \A r \in Elements(readers'[u]) :
           r \in Elements(readers[u]) \/ Fits(u, r.screen, r.conv)',
         \A b \in Elements(main'[u]) : b \in Elements(main[u]) \/ BlockSound(u, b)',
         \A m \in shown'[u] : Sent(m, opened[u])'
  PROVE  TalkSound(u)'
<1>0. /\ Elements(worker[u]) \subseteq Tasks
      /\ Elements(readers[u]) \subseteq [conv : Ids, screen : Nat]
      /\ Elements(main[u]) \subseteq Blocks
      /\ TalkSound(u)
  BY Typed, ElementType DEF IInv
<1>1. ASSUME NEW t \in Elements(worker'[u])  PROVE TaskSound(u, t)'
  <2>1. CASE t \in Elements(worker[u])
    <3>1. t \in Tasks /\ TaskSound(u, t)
      BY <1>0, <2>1 DEF TalkSound
    <3>2. t.op = "message" => Sent(t.message, t.conv)'
      BY <3>1 DEF TaskSound, SentGrows
    <3>3. t.op = "read" => Fits(u, t.screen, t.conv)'
      BY <3>1, TaskTyped DEF TaskSound
    <3>. QED  BY <3>2, <3>3 DEF TaskSound
  <2>. QED  BY <2>1
<1>2. ASSUME NEW w \in Elements(queue'[u]), w.op = "message"
      PROVE  Sent(w.message, w.conv)'
  BY <1>0, <1>2 DEF TalkSound, TaskSound, SentGrows
<1>3. ASSUME NEW r \in Elements(readers'[u])  PROVE Fits(u, r.screen, r.conv)'
  BY <1>0 DEF TalkSound
<1>4. ASSUME NEW b \in Elements(main'[u])  PROVE BlockSound(u, b)'
  <2>1. CASE b \in Elements(main[u])
    <3>1. b.screen \in Nat /\ BlockSound(u, b)
      BY <1>0, <2>1, BlockTyped DEF TalkSound
    <3>. QED  BY <3>1 DEF BlockSound, SentGrows
  <2>. QED  BY <2>1
<1>. QED  BY <1>1, <1>2, <1>3, <1>4 DEF TalkSound

LEMMA NewestKept ==
  ASSUME IInv, NEW u \in Users, listeners'[u] = listeners[u], main'[u] = main[u],
         shared'[u] = shared[u], SeesConvs(u)' = SeesConvs(u)
  PROVE  NewestTold(u)'
<1>1. NewestTold(u)
  BY DEF IInv
<1>. QED  BY <1>1 DEF NewestTold, NoLists, LastBrings

\* Nothing is kept of another user that a step of u disturbs.
LEMMA OthersKept ==
  ASSUME IInv, NEW v \in Users, Own(v)' = Own(v), SentGrows, convs \subseteq convs',
         lists'[v] \subseteq convs'
  PROVE  ListsLed(v)' /\ TalkSound(v)' /\ NewestTold(v)'
<1>1. /\ got'[v] = got[v] /\ worker'[v] = worker[v] /\ queue'[v] = queue[v]
      /\ readers'[v] = readers[v] /\ main'[v] = main[v] /\ shown'[v] = shown[v]
      /\ opened'[v] = opened[v] /\ screens'[v] = screens[v]
      /\ listeners'[v] = listeners[v] /\ known'[v] = known[v] /\ shared'[v] = shared[v]
  BY DEF Own
<1>2. \A n \in Nat : \A c : Fits(v, n, c) => Fits(v, n, c)'
  BY <1>1 DEF Fits
<1>3. DOMAIN sent \subseteq DOMAIN sent'
  <2>1. \A m \in DOMAIN sent : Sent(m, sent[m])'
    BY DEF Sent, SentGrows
  <2>. QED  BY <2>1 DEF Sent
<1>4. got'[v] \subseteq DOMAIN sent' /\ \A m \in shown'[v] : Sent(m, opened[v])'
  BY <1>1, <1>3 DEF IInv, TalkSound, Sent, SentGrows
<1>5. TalkSound(v)'
  BY <1>1, <1>2, <1>4, TalkKept
<1>6. SeesConvs(v)' = SeesConvs(v)
  BY <1>1 DEF SeesConvs, Stored
<1>. QED  BY <1>1, <1>5, <1>6, ListsKept, NewestKept

LEMMA StepOf ==
  ASSUME IInv, NEW u \in Users, TypeOK', posted' \subseteq DOMAIN sent', SentGrows,
         convs \subseteq convs', \A v \in Users : lists'[v] \subseteq convs',
         \A v \in Users \ {u} : Own(v)' = Own(v),
         ListsLed(u)', TalkSound(u)', NewestTold(u)'
  PROVE  IInv'
<1>1. \A v \in Users : ListsLed(v)' /\ TalkSound(v)' /\ NewestTold(v)'
  <2>1. TAKE v \in Users
  <2>2. CASE v = u
    BY <2>2
  <2>3. CASE v # u
    BY <2>3, OthersKept
  <2>. QED  BY <2>2, <2>3
<1>. QED  BY <1>1 DEF IInv

\* When the server has taken nothing and nothing has been sent.
LEMMA QuietStep ==
  ASSUME IInv, UNCHANGED <<convs, lists, posted, sent>>
  PROVE  /\ posted' \subseteq DOMAIN sent' /\ SentGrows /\ convs \subseteq convs'
         /\ \A v \in Users : lists'[v] \subseteq convs'
         /\ \A v \in Users : got[v] \subseteq DOMAIN sent'
  BY DEF IInv, SentGrows, Sent, ListsLed, TalkSound

\* Blocks that leave the array alone are put behind the others.
LEMMA NewestMore ==
  ASSUME IInv, NEW u \in Users, listeners'[u] = listeners[u], shared'[u] = shared[u],
         SeesConvs(u)' = SeesConvs(u), NEW t \in Seq(Blocks), NoLists(t),
         main'[u] = main[u] \o t
  PROVE  NewestTold(u)'
<1>1. NewestTold(u) /\ main[u] \in Seq(Blocks)
  BY Typed DEF IInv
<1>2. /\ NoLists(main'[u]) <=> NoLists(main[u])
      /\ \A docs, ids : LastBrings(main[u], docs, ids) => LastBrings(main'[u], docs, ids)
  BY <1>1, CatNoLists
<1>. QED  BY <1>1, <1>2 DEF NewestTold

\* A block that leaves the array alone has run.
LEMMA NewestTail ==
  ASSUME IInv, NEW u \in Users, listeners'[u] = listeners[u], shared'[u] = shared[u],
         SeesConvs(u)' = SeesConvs(u), main[u] # <<>>, Head(main[u]).kind # "list",
         main'[u] = Tail(main[u])
  PROVE  NewestTold(u)'
<1>1. NewestTold(u) /\ main[u] \in Seq(Blocks)
  BY Typed DEF IInv
<1>2. /\ NoLists(main'[u]) <=> NoLists(main[u])
      /\ \A docs, ids : LastBrings(main[u], docs, ids) => LastBrings(main'[u], docs, ids)
  BY <1>1, TailLists
<1>. QED  BY <1>1, <1>2 DEF NewestTold

LEMMA ToldFacts ==
  ASSUME TypeOK, NEW u \in Users, NEW docs \in SUBSET Ids
  PROVE  /\ ToldLists(u, docs) \in Seq(Blocks)
         /\ Len(ToldLists(u, docs)) = Len(listeners[u]) /\ Len(listeners[u]) \in Nat
         /\ \A b \in Elements(ToldLists(u, docs)) : b.kind = "list"
         /\ Len(listeners[u]) > 0 =>
              LET b == ToldLists(u, docs)[Len(listeners[u])]
              IN b.kind = "list" /\ b.docs = docs /\ b.ids = listeners[u][Len(listeners[u])].ids
<1>1. listeners[u] \in Seq([ids : SUBSET Ids, screen : Nat])
  BY Typed
<1>. DEFINE n == Len(listeners[u])
<1>2. /\ n \in Nat /\ DOMAIN listeners[u] = 1 .. n
      /\ \A i \in 1 .. n : listeners[u][i] \in [ids : SUBSET Ids, screen : Nat]
  BY <1>1, SeqFacts
<1>3. \A i \in 1 .. n : listeners[u][i].ids \in SUBSET Ids /\ listeners[u][i].screen \in Nat
  BY <1>2
<1>4. \A i \in 1 .. n :
        /\ ToldLists(u, docs)[i] \in Blocks
        /\ ToldLists(u, docs)[i].kind = "list"
        /\ ToldLists(u, docs)[i].docs = docs
        /\ ToldLists(u, docs)[i].ids = listeners[u][i].ids
  BY <1>2, <1>3, BlockType DEF ToldLists, Block
<1>5. ToldLists(u, docs) \in [1 .. n -> Blocks]
  BY <1>2, <1>4 DEF ToldLists
<1>6. /\ ToldLists(u, docs) \in Seq(Blocks) /\ Len(ToldLists(u, docs)) = n
      /\ DOMAIN ToldLists(u, docs) = 1 .. n
  BY <1>2, <1>5, Stacked
<1>7. n > 0 => n \in 1 .. n
  BY <1>2
<1>. QED  BY <1>2, <1>4, <1>6, <1>7 DEF Elements

\* All listeners have been told what the device sees now.
LEMMA NewestNow ==
  ASSUME IInv, NEW u \in Followed, listeners'[u] = listeners[u],
         NEW docs \in SUBSET Ids, SeesConvs(u)' = docs,
         main'[u] = main[u] \o ToldLists(u, docs)
  PROVE  NewestTold(u)'
<1>. DEFINE n == Len(listeners[u])
            t == ToldLists(u, docs)
<1>1. /\ u \in Users /\ main[u] \in Seq(Blocks) /\ t \in Seq(Blocks) /\ Len(t) = n
      /\ n > 0 => t[n].kind = "list" /\ t[n].docs = docs /\ t[n].ids = listeners[u][n].ids
  BY UsersAssumption, Typed, ToldFacts DEF IInv
<1>2. CASE n > 0
  <2>1. t # <<>>
    BY <1>1, <1>2
  <2>2. ~NoLists(main'[u]) /\ LastBrings(main'[u], docs, listeners[u][n].ids)
    <3>. HIDE DEF n, t
    <3>1. main'[u] = main[u] \o t
      BY DEF t
    <3>. QED  BY <1>1, <1>2, <2>1, <3>1, CatLists
  <2>. QED  BY <2>2 DEF NewestTold
<1>3. CASE ~(n > 0)
  BY <1>3 DEF NewestTold
<1>. QED  BY <1>2, <1>3

\* The readers of a conversation are readers of it.
LEMMA DueFacts ==
  ASSUME TypeOK, NEW u \in Users, NEW c
  PROVE  /\ ReadersOf(u, c) \in Seq([conv : Ids, screen : Nat])
         /\ \A r \in Elements(ReadersOf(u, c)) : r \in Elements(readers[u]) /\ r.conv = c
         /\ \A r \in Elements(readers[u]) : r.conv = c => r \in Elements(ReadersOf(u, c))
<1>. DEFINE D == {i \in DOMAIN readers[u] : readers[u][i].conv = c}
            order == Ordered(D)
            R == [conv : Ids, screen : Nat]
<1>1. /\ readers[u] \in Seq(R) /\ Len(readers[u]) \in Nat /\ DOMAIN readers[u] = 1 .. Len(readers[u])
      /\ \A i \in DOMAIN readers[u] : readers[u][i] \in R
  <2>1. readers[u] \in Seq(R)
    BY Typed
  <2>. HIDE DEF R
  <2>. QED  BY <2>1, SeqFacts
<1>2. D \in SUBSET Nat /\ IsFiniteSet(D)
  <2>1. IsFiniteSet(1 .. Len(readers[u]))
    BY <1>1, FS_Interval
  <2>. QED  BY <1>1, <2>1, FS_Subset
<1>3. order \in Seq(D) /\ Len(order) \in Nat /\ DOMAIN order = 1 .. Len(order)
  BY <1>2, OrderedType
<1>4. \A k \in DOMAIN order : order[k] \in D
  <2>. HIDE DEF D
  <2>. QED  BY <1>3, SeqFacts
<1>5. ReadersOf(u, c) = [k \in DOMAIN order |-> readers[u][order[k]]]
  BY DEF ReadersOf
<1>. HIDE DEF order
<1>6. \A k \in DOMAIN order :
        /\ readers[u][order[k]] \in R /\ readers[u][order[k]].conv = c
        /\ readers[u][order[k]] \in Elements(readers[u])
  BY <1>1, <1>4 DEF Elements
<1>7. ReadersOf(u, c) \in [1 .. Len(order) -> R]
  BY <1>3, <1>5, <1>6
<1>8. ReadersOf(u, c) \in Seq(R) /\ DOMAIN ReadersOf(u, c) = DOMAIN order
  BY <1>3, <1>7, Stacked
<1>9. ASSUME NEW r \in Elements(readers[u]), r.conv = c
      PROVE  r \in Elements(ReadersOf(u, c))
  <2>1. PICK i \in DOMAIN readers[u] : r = readers[u][i]
    BY DEF Elements
  <2>2. PICK k \in DOMAIN order : order[k] = i
    <3>1. i \in D
      BY <1>9, <2>1
    <3>. QED  BY <1>2, <3>1, OrderedAll DEF order
  <2>3. ReadersOf(u, c)[k] = r
    BY <1>5, <2>1, <2>2
  <2>. QED  BY <1>8, <2>3 DEF Elements
<1>. QED  BY <1>5, <1>6, <1>8, <1>9 DEF Elements

\* What they are told is of the conversation and of the screen each was added by.
\* What the readers of c are told.
Tells(u, c, docs, t) ==
  /\ main'[u] = main[u] \o t
  /\ \A b \in Elements(t) :
       b.kind = "talk" /\ b.docs = docs /\ b.conv = c /\ Fits(u, b.screen, c)
  /\ \A r \in Elements(readers[u]) :
       r.conv = c => \E b \in Elements(t) : b.screen = r.screen

LEMMA TellReadersFacts ==
  ASSUME IInv, NEW u \in Users, NEW c \in Ids, NEW docs \in SUBSET Nat,
         TellReaders(u, c, docs)
  PROVE  /\ \A v \in Users \ {u} : main'[v] = main[v]
         /\ main' \in [Users -> Seq(Blocks)]
         /\ \E t \in Seq(Blocks) : Tells(u, c, docs, t)
<1>. DEFINE due == ReadersOf(u, c)
            t == [i \in DOMAIN due |-> Block("talk", {}, docs, c, due[i].screen)]
<1>1. /\ due \in Seq([conv : Ids, screen : Nat])
      /\ \A r \in Elements(due) : r \in Elements(readers[u]) /\ r.conv = c
      /\ \A r \in Elements(readers[u]) : r.conv = c => r \in Elements(due)
  BY DueFacts DEF IInv
<1>2. main' = [main EXCEPT ![u] = @ \o t] /\ main \in [Users -> Seq(Blocks)]
  BY DEF TellReaders, IInv, TypeOK
<1>. HIDE DEF due
<1>3. Len(due) \in Nat /\ DOMAIN due = 1 .. Len(due)
  BY <1>1
<1>4. \A i \in DOMAIN due :
        /\ t[i] \in Blocks /\ t[i].kind = "talk" /\ t[i].docs = docs /\ t[i].conv = c
        /\ t[i].screen = due[i].screen /\ due[i] \in Elements(due)
  <2>0. \A i \in DOMAIN due :
          due[i] \in [conv : Ids, screen : Nat] /\ due[i] \in Elements(due)
    BY <1>1, SeqFacts DEF Elements
  <2>1. \A i \in DOMAIN due : due[i].screen \in Nat /\ due[i] \in Elements(due)
    BY <2>0
  <2>. QED  BY <2>1, BlockType DEF Block
<1>5. t \in Seq(Blocks) /\ DOMAIN t = DOMAIN due
  <2>1. t \in [1 .. Len(due) -> Blocks]
    BY <1>3, <1>4
  <2>. HIDE DEF t
  <2>. QED  BY <1>3, <2>1, Stacked
<1>6. \A i \in DOMAIN due : Fits(u, t[i].screen, c)
  BY <1>1, <1>4 DEF IInv, TalkSound
<1>. HIDE DEF t
<1>7. main'[u] = main[u] \o t /\ main[u] \o t \in Seq(Blocks)
  BY <1>2, <1>5, CatIndex
<1>8. \A b \in Elements(t) :
        b.kind = "talk" /\ b.docs = docs /\ b.conv = c /\ Fits(u, b.screen, c)
  BY <1>4, <1>5, <1>6 DEF Elements
<1>9. main' \in [Users -> Seq(Blocks)] /\ \A v \in Users \ {u} : main'[v] = main[v]
  BY <1>2, <1>7
<1>10. \A r \in Elements(due) : \E b \in Elements(t) : b.screen = r.screen
  BY <1>4, <1>5 DEF Elements
<1>11. Tells(u, c, docs, t)
  BY <1>1, <1>7, <1>8, <1>10 DEF Tells
<1>. QED  BY <1>5, <1>9, <1>11

LEMMA TellsExist ==
  ASSUME IInv, NEW u \in Users, NEW c \in Ids, NEW docs \in SUBSET Nat,
         TellReaders(u, c, docs)
  PROVE  \E t \in Seq(Blocks) : Tells(u, c, docs, t)
BY TellReadersFacts

----------------------------------------------------------------------------
(* The thread of Firestore, and the server.                                *)

LEMMA TakesFacts ==
  ASSUME IInv, NEW u \in Users, NEW op, Takes(u, op)
  PROVE  /\ worker' \in [Users -> Seq(Tasks)]
         /\ \A v \in Users \ {u} : worker'[v] = worker[v]
         /\ worker[u] # <<>> /\ worker[u] \in Seq(Tasks)
         /\ worker'[u] = Tail(worker[u])
         /\ Task(u) = Head(worker[u]) /\ Task(u).op = op
         /\ Task(u) \in Tasks /\ Task(u) \in Elements(worker[u]) /\ TaskSound(u, Task(u))
         /\ Elements(worker'[u]) \subseteq Elements(worker[u])
<1>1. worker \in [Users -> Seq(Tasks)] /\ worker[u] \in Seq(Tasks)
  BY Typed DEF IInv, TypeOK
<1>2. worker[u] # <<>> /\ worker' = [worker EXCEPT ![u] = Tail(worker[u])] /\ Task(u).op = op
  BY DEF Takes
<1>3. Tail(worker[u]) \in Seq(Tasks) /\ Head(worker[u]) \in Tasks
  BY <1>1, <1>2, TailIndex
<1>4. Elements(worker[u]) = {Head(worker[u])} \cup Elements(Tail(worker[u]))
  BY <1>1, <1>2, TailElements
<1>5. worker'[u] = Tail(worker[u])
  BY <1>1, <1>2
<1>. QED  BY <1>1, <1>2, <1>3, <1>4, <1>5 DEF Task, IInv, TalkSound

\* Storing a write changes what a device sees by what the write brings.
LEMMA StoresFacts ==
  ASSUME TypeOK, NEW u \in Users, NEW t \in Seq(WriteTasks), queue'[u] = queue[u] \o t
  PROVE  /\ queue'[u] \in Seq(WriteTasks)
         /\ Elements(queue'[u]) = Elements(queue[u]) \cup Elements(t)
         /\ StoredConvs(u)' = StoredConvs(u) \cup ConvsOf(t)
         /\ SeesConvs(u)' = known'[u] \cup StoredConvs(u) \cup ConvsOf(t)
<1>1. queue[u] \in Seq(WriteTasks)
  BY Typed
<1>2. queue'[u] \in Seq(WriteTasks) /\ Elements(queue'[u]) = Elements(queue[u]) \cup Elements(t)
  BY <1>1, CatIndex, CatElements
<1>3. StoredConvs(u)' = StoredConvs(u) \cup ConvsOf(t)
  BY <1>2 DEF StoredConvs, ConvsOf
<1>4. SeesConvs(u)' = known'[u] \cup StoredConvs(u)'
  BY DEF SeesConvs, StoredConvs, ConvsOf, Stored
<1>. QED  BY <1>2, <1>3, <1>4

\* What a device sees of a conversation has been sent in it.
LEMMA SeenSent ==
  ASSUME IInv, NEW u \in Users, NEW c
  PROVE  \A m \in SeesMessages(u, c) : Sent(m, c)
<1>1. TAKE m \in SeesMessages(u, c)
<1>2. sent[m] = c /\ m \in got[u] \cup {x.message : x \in Stored(u, "message")}
  BY DEF SeesMessages
<1>3. m \in DOMAIN sent
  BY <1>2 DEF IInv, TalkSound, Stored, Sent
<1>. QED  BY <1>2, <1>3 DEF Sent

LEMMA StoreWriteInv ==
  ASSUME IInv, NEW u \in Followed, StoreWrite(u)
  PROVE  IInv'
<1>. DEFINE w == Task(u)
<1>0. u \in Users /\ TypeOK
  BY UsersAssumption DEF IInv
<1>1. PICK op \in {"member", "list", "conv", "message"} : Takes(u, op)
  BY DEF StoreWrite
<1>2. /\ worker' \in [Users -> Seq(Tasks)]
      /\ \A v \in Users \ {u} : worker'[v] = worker[v]
      /\ worker[u] # <<>> /\ worker[u] \in Seq(Tasks) /\ worker'[u] = Tail(worker[u])
      /\ w = Head(worker[u]) /\ w.op = op /\ w \in Tasks
      /\ w \in Elements(worker[u]) /\ TaskSound(u, w)
      /\ Elements(worker'[u]) \subseteq Elements(worker[u])
  BY <1>0, <1>1, TakesFacts
<1>3. w \in WriteTasks /\ w.conv \in Ids /\ w.message \in Nat
  BY <1>2, TaskTyped, WriteTyped
<1>4. /\ queue' = [queue EXCEPT ![u] = Append(@, w)]
      /\ UNCHANGED <<server, cache, history, lost, list, talk, place, left>>
  BY DEF StoreWrite
<1>. HIDE DEF w
<1>5. /\ queue[u] \in Seq(WriteTasks) /\ queue'[u] = queue[u] \o <<w>>
      /\ \A v \in Users \ {u} : queue'[v] = queue[v]
      /\ queue' \in [Users -> Seq(WriteTasks)]
  <2>1. queue \in [Users -> Seq(WriteTasks)] /\ queue[u] \in Seq(WriteTasks)
    BY <1>0 DEF TypeOK
  <2>2. Append(queue[u], w) = queue[u] \o <<w>> /\ Append(queue[u], w) \in Seq(WriteTasks)
    BY <1>3, <2>1, AppendIsCat
  <2>. QED  BY <1>0, <1>4, <2>1, <2>2
<1>6. /\ Elements(queue'[u]) = Elements(queue[u]) \cup {w}
      /\ StoredConvs(u)' = StoredConvs(u) \cup (IF op = "conv" THEN {w.conv} ELSE {})
  <2>1. <<w>> \in Seq(WriteTasks) /\ Elements(<<w>>) = {w}
    BY <1>3, OneElement
  <2>2. ConvsOf(<<w>>) = IF op = "conv" THEN {w.conv} ELSE {}
    BY <1>2, <2>1 DEF ConvsOf
  <2>3. /\ Elements(queue'[u]) = Elements(queue[u]) \cup Elements(<<w>>)
        /\ StoredConvs(u)' = StoredConvs(u) \cup ConvsOf(<<w>>)
    BY <1>0, <1>5, <2>1, StoresFacts
  <2>. QED  BY <2>1, <2>2, <2>3
<1>7. /\ convs' = convs /\ lists' = lists /\ posted' = posted /\ sent' = sent
      /\ got' = got /\ known' = known /\ readers' = readers /\ listeners' = listeners
      /\ shared' = shared /\ shown' = shown /\ opened' = opened /\ screens' = screens
  BY <1>4 DEF server, history, cache, list, talk, place
<1>8. /\ posted' \subseteq DOMAIN sent' /\ SentGrows /\ convs \subseteq convs'
      /\ \A v \in Users : lists'[v] \subseteq convs'
      /\ got'[u] \subseteq DOMAIN sent'
  BY <1>0, <1>7, QuietStep
<1>9. /\ ListsLed(u) /\ TalkSound(u)
      /\ SeesConvs(u)' = SeesConvs(u) \cup (IF op = "conv" THEN {w.conv} ELSE {})
      /\ SeesConvs(u) \subseteq Ids
  BY <1>0, <1>6, <1>7, StoredType DEF IInv, SeesConvs, StoredConvs, ConvsOf, Stored
<1>10. ListsLed(u)'
  <2>1. Led(<<w>>, convs \cup ConvsOf(queue[u]))
    <3>1. w.op = "list" => w.conv \in convs \cup StoredConvs(u)
      <4>1. 1 \in DOMAIN worker[u] /\ worker[u][1] = w /\ \A i \in DOMAIN worker[u] : ~(i < 1)
        BY <1>2, TailIndex
      <4>. QED  BY <1>9, <4>1 DEF ListsLed, Led, LedBy
    <3>. QED  BY <1>2, <3>1, LedOne DEF StoredConvs
  <2>2. Led(queue'[u], convs)
    <3>1. Led(queue[u], convs) /\ <<w>> \in Seq(WriteTasks)
      BY <1>3, <1>9, OneElement DEF ListsLed
    <3>2. Led(queue[u] \o <<w>>, convs)
      <4>. HIDE DEF WriteTasks
      <4>1. queue[u] \in Seq(WriteTasks)
        BY <1>5
      <4>. QED  BY <2>1, <3>1, <4>1, LedCat
    <3>. QED  BY <1>5, <3>2
  <2>3. Led(worker'[u], convs \cup StoredConvs(u)')
    <3>1. Led(worker[u], convs \cup StoredConvs(u))
      BY <1>9 DEF ListsLed
    <3>2. convs \cup StoredConvs(u) \subseteq convs \cup StoredConvs(u)'
      BY <1>6
    <3>3. w.op = "conv" => w.conv \in convs \cup StoredConvs(u)'
      BY <1>2, <1>6
    <3>. QED  BY <1>2, <3>1, <3>2, <3>3, LedTail
  <2>. QED  BY <1>0, <1>7, <1>8, <2>2, <2>3 DEF ListsLed, Led, LedBy
<1>11. /\ \A v \in Users \ {u} : main'[v] = main[v]
       /\ main' \in [Users -> Seq(Blocks)]
       /\ \A b \in Elements(main'[u]) : b \in Elements(main[u]) \/ BlockSound(u, b)'
       /\ NewestTold(u)'
  <2>0. main \in [Users -> Seq(Blocks)] /\ main[u] \in Seq(Blocks)
    BY <1>0 DEF TypeOK
  <2>1. CASE op \in {"member", "list"}
    <3>1. main' = main
      BY <1>1, <1>2, <2>1 DEF StoreWrite, Takes
    <3>2. SeesConvs(u)' = SeesConvs(u)
      BY <1>9, <2>1
    <3>. QED  BY <1>0, <1>7, <2>0, <3>1, <3>2, NewestKept
  <2>2. CASE op = "conv"
    <3>. DEFINE docs == SeesConvs(u) \cup {w.conv}
    <3>1. TellLists(u, docs) /\ docs \in SUBSET Ids
      BY <1>1, <1>2, <1>3, <1>9, <2>2 DEF StoreWrite, Takes, w
    <3>2. SeesConvs(u)' = docs
      BY <1>9, <2>2
    <3>. HIDE DEF docs
    <3>3. ToldLists(u, docs) \in Seq(Blocks) /\ \A b \in Elements(ToldLists(u, docs)) : b.kind = "list"
      BY <1>0, <3>1, ToldFacts
    <3>4. /\ main'[u] = main[u] \o ToldLists(u, docs) /\ main'[u] \in Seq(Blocks)
          /\ \A v \in Users \ {u} : main'[v] = main[v]
          /\ main' \in [Users -> Seq(Blocks)]
      <4>1. main[u] \o ToldLists(u, docs) \in Seq(Blocks)
        BY <2>0, <3>3, CatIndex
      <4>. QED  BY <1>0, <2>0, <3>1, <4>1 DEF TellLists
    <3>5. Elements(main'[u]) = Elements(main[u]) \cup Elements(ToldLists(u, docs))
      BY <2>0, <3>3, <3>4, CatElements
    <3>6. NewestTold(u)'
      BY <1>7, <3>1, <3>2, <3>4, NewestNow
    <3>. QED  BY <3>3, <3>4, <3>5, <3>6 DEF BlockSound
  <2>3. CASE op = "message"
    <3>. DEFINE docs == SeesMessages(u, w.conv) \cup {w.message}
    <3>1. TellReaders(u, w.conv, docs) /\ docs \in SUBSET Nat
      BY <1>0, <1>1, <1>2, <1>3, <2>3, StoredType DEF StoreWrite, Takes, w
    <3>2. \A m \in docs : Sent(m, w.conv)
      <4>1. Sent(w.message, w.conv)
        BY <1>2, <2>3 DEF TaskSound
      <4>2. \A m \in SeesMessages(u, w.conv) : Sent(m, w.conv)
        BY <1>0, SeenSent
      <4>. QED  BY <4>1, <4>2
    <3>. HIDE DEF docs
    <3>3. /\ \A v \in Users \ {u} : main'[v] = main[v]
          /\ main' \in [Users -> Seq(Blocks)]
      BY <1>0, <1>3, <3>1, TellReadersFacts
    <3>a. w.conv \in Ids
      BY <1>3
    <3>b. PICK t \in Seq(Blocks) : Tells(u, w.conv, docs, t)
      BY <1>0, <3>1, <3>a, TellsExist
    <3>4. /\ main'[u] = main[u] \o t
          /\ \A b \in Elements(t) :
               b.kind = "talk" /\ b.docs = docs /\ b.conv = w.conv /\ Fits(u, b.screen, w.conv)
      BY <3>b DEF Tells
    <3>5. Elements(main'[u]) = Elements(main[u]) \cup Elements(t)
      BY <2>0, <3>4, CatElements
    <3>6. \A b \in Elements(t) : BlockSound(u, b)'
      BY <1>7, <3>2, <3>4 DEF BlockSound, Fits, Sent
    <3>7. NoLists(t)
      BY <3>4 DEF NoLists, Elements
    <3>8. SeesConvs(u)' = SeesConvs(u)
      BY <1>9, <2>3
    <3>9. NewestTold(u)'
      BY <1>0, <1>7, <3>4, <3>7, <3>8, NewestMore
    <3>. QED  BY <3>3, <3>5, <3>6, <3>9
  <2>. QED  BY <2>1, <2>2, <2>3
<1>12. TypeOK'
  BY <1>0, <1>2, <1>4, <1>5, <1>11
    DEF TypeOK, server, cache, history, list, talk, place
<1>13. TalkSound(u)'
  <2>1. \A n \in Nat : \A c : Fits(u, n, c) => Fits(u, n, c)'
    BY <1>7 DEF Fits
  <2>2. \A m \in shown'[u] : Sent(m, opened[u])'
    BY <1>7, <1>9 DEF TalkSound, Sent
  <2>. QED  BY <1>0, <1>2, <1>6, <1>7, <1>8, <1>11, <2>1, <2>2, TalkKept
<1>14. \A v \in Users \ {u} : Own(v)' = Own(v)
  BY <1>2, <1>5, <1>7, <1>11 DEF Own
<1>. QED  BY <1>0, <1>8, <1>10, <1>11, <1>12, <1>13, <1>14, StepOf

\* Blocks put behind the others of one device.
LEMMA MainMore ==
  ASSUME TypeOK, NEW u \in Users, NEW t \in Seq(Blocks),
         main' = [main EXCEPT ![u] = main[u] \o t]
  PROVE  /\ main' \in [Users -> Seq(Blocks)]
         /\ \A v \in Users \ {u} : main'[v] = main[v]
         /\ main'[u] = main[u] \o t
         /\ Elements(main'[u]) = Elements(main[u]) \cup Elements(t)
<1>1. main \in [Users -> Seq(Blocks)] /\ main[u] \in Seq(Blocks)
  BY DEF TypeOK
<1>2. /\ main[u] \o t \in Seq(Blocks)
      /\ Elements(main[u] \o t) = Elements(main[u]) \cup Elements(t)
  BY <1>1, CatIndex, CatElements
<1>. QED  BY <1>1, <1>2

LEMMA MainOne ==
  ASSUME TypeOK, NEW u \in Users, NEW b \in Blocks,
         main' = [main EXCEPT ![u] = Append(@, b)]
  PROVE  /\ main' \in [Users -> Seq(Blocks)]
         /\ \A v \in Users \ {u} : main'[v] = main[v]
         /\ main'[u] = main[u] \o <<b>>
         /\ Elements(main'[u]) = Elements(main[u]) \cup {b}
<1>1. <<b>> \in Seq(Blocks) /\ Elements(<<b>>) = {b}
  BY OneElement
<1>2. main[u] \in Seq(Blocks)
  BY DEF TypeOK
<1>3. Append(main[u], b) = main[u] \o <<b>>
  BY <1>2, AppendIsCat
<1>4. main' = [main EXCEPT ![u] = main[u] \o <<b>>]
  BY <1>3
<1>. QED  BY <1>1, <1>4, MainMore

LEMMA AddListenerInv ==
  ASSUME IInv, NEW u \in Followed, AddListener(u)
  PROVE  IInv'
<1>. DEFINE L == [ids : SUBSET Ids, screen : Nat]
<1>0. u \in Users /\ TypeOK
  BY UsersAssumption DEF IInv
<1>t. PICK t : t = Task(u)
  OBVIOUS
<1>l. PICK l : l = [ids |-> t.ids, screen |-> t.screen]
  OBVIOUS
<1>b. PICK b : b = Block("list", t.ids, SeesConvs(u), None, t.screen)
  OBVIOUS
<1>1. /\ worker' \in [Users -> Seq(Tasks)]
      /\ \A v \in Users \ {u} : worker'[v] = worker[v]
      /\ worker[u] # <<>> /\ worker[u] \in Seq(Tasks) /\ worker'[u] = Tail(worker[u])
      /\ t = Head(worker[u]) /\ t.op = "listen" /\ t \in Tasks
      /\ Elements(worker'[u]) \subseteq Elements(worker[u])
  BY <1>0, <1>t, TakesFacts DEF AddListener
<1>2. t.ids \subseteq Ids /\ t.screen \in Nat /\ SeesConvs(u) \subseteq Ids
  BY <1>0, <1>1, TaskTyped, StoredType
<1>3. /\ b \in Blocks /\ b.kind = "list" /\ b.docs = SeesConvs(u) /\ b.ids = t.ids
      /\ l \in L /\ l.ids = t.ids
  BY <1>2, <1>l, <1>b, BlockType DEF Block
<1>4. /\ listeners' = [listeners EXCEPT ![u] = Append(@, l)]
      /\ main' = [main EXCEPT ![u] = Append(@, b)]
      /\ UNCHANGED <<server, cache, queue, history, lost, signed, shared, table, fetches,
                     talk, place, left>>
  BY <1>t, <1>l, <1>b DEF AddListener
<1>5. /\ convs' = convs /\ lists' = lists /\ posted' = posted /\ sent' = sent
      /\ got' = got /\ known' = known /\ readers' = readers /\ queue' = queue
      /\ shared' = shared /\ shown' = shown /\ opened' = opened /\ screens' = screens
  BY <1>4 DEF server, history, cache, talk, place
<1>. HIDE DEF L
<1>6. /\ main' \in [Users -> Seq(Blocks)]
      /\ \A v \in Users \ {u} : main'[v] = main[v]
      /\ main'[u] = main[u] \o <<b>>
      /\ Elements(main'[u]) = Elements(main[u]) \cup {b}
  BY <1>0, <1>3, <1>4, MainOne
<1>7. /\ listeners' \in [Users -> Seq(L)]
      /\ \A v \in Users \ {u} : listeners'[v] = listeners[v]
      /\ listeners'[u] = Append(listeners[u], l) /\ listeners[u] \in Seq(L)
  <2>1. listeners \in [Users -> Seq(L)] /\ listeners[u] \in Seq(L)
    BY <1>0 DEF TypeOK, L
  <2>. QED  BY <1>0, <1>3, <1>4, <2>1
<1>8. /\ posted' \subseteq DOMAIN sent' /\ SentGrows /\ convs \subseteq convs'
      /\ \A v \in Users : lists'[v] \subseteq convs'
      /\ got'[u] \subseteq DOMAIN sent'
  BY <1>0, <1>5, QuietStep
<1>9. ListsLed(u) /\ TalkSound(u)
  BY <1>0 DEF IInv
<1>10. ListsLed(u)'
  <2>1. Led(queue[u], convs) /\ Led(worker[u], convs \cup StoredConvs(u))
    BY <1>9 DEF ListsLed
  <2>2. Led(worker'[u], convs \cup StoredConvs(u))
    BY <1>1, <2>1, LedTail
  <2>3. StoredConvs(u)' = StoredConvs(u)
    BY <1>5 DEF StoredConvs
  <2>. QED  BY <1>0, <1>5, <1>8, <2>1, <2>2, <2>3 DEF ListsLed, Led, LedBy
<1>11. TalkSound(u)'
  <2>1. \A n \in Nat : \A c : Fits(u, n, c) => Fits(u, n, c)'
    BY <1>5 DEF Fits
  <2>2. \A m \in shown'[u] : Sent(m, opened[u])'
    BY <1>5, <1>9 DEF TalkSound, Sent
  <2>3. BlockSound(u, b)'
    BY <1>3 DEF BlockSound
  <2>. QED  BY <1>0, <1>1, <1>5, <1>6, <1>8, <2>1, <2>2, <2>3, TalkKept
<1>12. NewestTold(u)'
  <2>1. SeesConvs(u)' = SeesConvs(u)
    BY <1>5 DEF SeesConvs, Stored
  <2>2. /\ Len(listeners'[u]) \in Nat /\ Len(listeners'[u]) > 0
        /\ listeners'[u][Len(listeners'[u])] = l
    BY <1>3, <1>7
  <2>3. PICK one : one = <<b>>
    OBVIOUS
  <2>4. main[u] \in Seq(Blocks) /\ main'[u] = main[u] \o one
    BY <1>0, <1>6, <2>3, Typed
  <2>5. ~NoLists(main'[u]) /\ LastBrings(main'[u], SeesConvs(u), t.ids)
    <3>1. one \in Seq(Blocks) /\ one # <<>> /\ one[Len(one)] = b
      BY <1>3, <2>3
    <3>2. /\ one[Len(one)].kind = "list" /\ one[Len(one)].docs = SeesConvs(u)
          /\ one[Len(one)].ids = t.ids
      BY <1>3, <3>1
    <3>. QED  BY <2>4, <3>1, <3>2, CatLists
  <2>. QED  BY <1>0, <1>3, <2>1, <2>2, <2>5 DEF NewestTold
<1>13. TypeOK'
  BY <1>0, <1>1, <1>4, <1>6, <1>7
    DEF TypeOK, server, cache, history, talk, place, L
<1>14. \A v \in Users \ {u} : Own(v)' = Own(v)
  BY <1>1, <1>5, <1>6, <1>7 DEF Own
<1>. QED  BY <1>0, <1>8, <1>10, <1>11, <1>12, <1>13, <1>14, StepOf

LEMMA AddReaderInv ==
  ASSUME IInv, NEW u \in Followed, AddReader(u)
  PROVE  IInv'
<1>. DEFINE R == [conv : Ids, screen : Nat]
<1>0. u \in Users /\ TypeOK
  BY UsersAssumption DEF IInv
<1>t. PICK t : t = Task(u)
  OBVIOUS
<1>r. PICK r : r = [conv |-> t.conv, screen |-> t.screen]
  OBVIOUS
<1>b. PICK b : b = Block("talk", {}, SeesMessages(u, t.conv), t.conv, t.screen)
  OBVIOUS
<1>1. /\ worker' \in [Users -> Seq(Tasks)]
      /\ \A v \in Users \ {u} : worker'[v] = worker[v]
      /\ worker[u] # <<>> /\ worker[u] \in Seq(Tasks) /\ worker'[u] = Tail(worker[u])
      /\ t = Head(worker[u]) /\ t.op = "read" /\ t \in Tasks /\ TaskSound(u, t)
      /\ Elements(worker'[u]) \subseteq Elements(worker[u])
  BY <1>0, <1>t, TakesFacts DEF AddReader
<1>2. /\ t.conv \in Ids /\ t.screen \in Nat /\ SeesMessages(u, t.conv) \subseteq Nat
      /\ Fits(u, t.screen, t.conv)
  BY <1>0, <1>1, TaskTyped, StoredType DEF TaskSound
<1>3. /\ b \in Blocks /\ b.kind = "talk" /\ b.docs = SeesMessages(u, t.conv)
      /\ b.conv = t.conv /\ b.screen = t.screen
      /\ r \in R /\ r.conv = t.conv /\ r.screen = t.screen
  BY <1>2, <1>r, <1>b, BlockType DEF Block
<1>4. /\ readers' = [readers EXCEPT ![u] = Append(@, r)]
      /\ main' = [main EXCEPT ![u] = Append(@, b)]
      /\ UNCHANGED <<server, cache, queue, history, lost, list, messages, opened, shown,
                     place, left>>
  BY <1>t, <1>r, <1>b DEF AddReader
<1>5. /\ convs' = convs /\ lists' = lists /\ posted' = posted /\ sent' = sent
      /\ got' = got /\ known' = known /\ listeners' = listeners /\ queue' = queue
      /\ shared' = shared /\ shown' = shown /\ opened' = opened /\ screens' = screens
  BY <1>4 DEF server, history, cache, list, place
<1>. HIDE DEF R
<1>6. /\ main' \in [Users -> Seq(Blocks)]
      /\ \A v \in Users \ {u} : main'[v] = main[v]
      /\ main'[u] = main[u] \o <<b>>
      /\ Elements(main'[u]) = Elements(main[u]) \cup {b}
  BY <1>0, <1>3, <1>4, MainOne
<1>7. /\ readers' \in [Users -> Seq(R)]
      /\ \A v \in Users \ {u} : readers'[v] = readers[v]
      /\ Elements(readers'[u]) = Elements(readers[u]) \cup {r}
  <2>1. readers \in [Users -> Seq(R)] /\ readers[u] \in Seq(R)
    BY <1>0 DEF TypeOK, R
  <2>2. /\ <<r>> \in Seq(R) /\ Elements(<<r>>) = {r}
        /\ Append(readers[u], r) = readers[u] \o <<r>>
    BY <1>3, <2>1, OneElement, AppendIsCat
  <2>3. Elements(readers[u] \o <<r>>) = Elements(readers[u]) \cup Elements(<<r>>)
    BY <2>1, <2>2, CatElements
  <2>. QED  BY <1>0, <1>3, <1>4, <2>1, <2>2, <2>3
<1>8. /\ posted' \subseteq DOMAIN sent' /\ SentGrows /\ convs \subseteq convs'
      /\ \A v \in Users : lists'[v] \subseteq convs'
      /\ got'[u] \subseteq DOMAIN sent'
  BY <1>0, <1>5, QuietStep
<1>9. ListsLed(u) /\ TalkSound(u)
  BY <1>0 DEF IInv
<1>10. ListsLed(u)'
  <2>1. Led(queue[u], convs) /\ Led(worker[u], convs \cup StoredConvs(u))
    BY <1>9 DEF ListsLed
  <2>2. Led(worker'[u], convs \cup StoredConvs(u))
    BY <1>1, <2>1, LedTail
  <2>3. StoredConvs(u)' = StoredConvs(u)
    BY <1>5 DEF StoredConvs
  <2>. QED  BY <1>0, <1>5, <1>8, <2>1, <2>2, <2>3 DEF ListsLed, Led, LedBy
<1>11. TalkSound(u)'
  <2>1. \A n \in Nat : \A c : Fits(u, n, c) => Fits(u, n, c)'
    BY <1>5 DEF Fits
  <2>2. \A m \in shown'[u] : Sent(m, opened[u])'
    BY <1>5, <1>9 DEF TalkSound, Sent
  <2>3. BlockSound(u, b)'
    <3>1. \A m \in b.docs : Sent(m, b.conv)
      BY <1>0, <1>3, SeenSent
    <3>. QED  BY <1>2, <1>3, <1>5, <3>1 DEF BlockSound, Fits, Sent
  <2>4. Fits(u, r.screen, r.conv)'
    BY <1>2, <1>3, <1>5 DEF Fits
  <2>. QED  BY <1>0, <1>1, <1>5, <1>6, <1>7, <1>8, <2>1, <2>2, <2>3, <2>4, TalkKept
<1>12. NewestTold(u)'
  <2>1. SeesConvs(u)' = SeesConvs(u)
    BY <1>5 DEF SeesConvs, Stored
  <2>2. <<b>> \in Seq(Blocks) /\ NoLists(<<b>>)
    BY <1>3, OneElement DEF NoLists
  <2>. QED  BY <1>0, <1>5, <1>6, <2>1, <2>2, NewestMore
<1>13. TypeOK'
  BY <1>0, <1>1, <1>4, <1>6, <1>7
    DEF TypeOK, server, cache, history, list, place, R
<1>14. \A v \in Users \ {u} : Own(v)' = Own(v)
  BY <1>1, <1>5, <1>6, <1>7 DEF Own
<1>. QED  BY <1>0, <1>8, <1>10, <1>11, <1>12, <1>13, <1>14, StepOf

LEMMA ServeInv ==
  ASSUME IInv, NEW u \in Users, Serve(u)
  PROVE  IInv'
<1>0. TypeOK /\ ListsLed(u) /\ TalkSound(u)
  BY DEF IInv
<1>1. PICK w : w = Head(queue[u])
  OBVIOUS
<1>2. /\ queue[u] # <<>> /\ queue[u] \in Seq(WriteTasks)
      /\ w \in WriteTasks /\ w \in Elements(queue[u])
      /\ Elements(queue[u]) = {w} \cup Elements(Tail(queue[u]))
      /\ Tail(queue[u]) \in Seq(WriteTasks)
      /\ \A op : Taken(u, op) = IF w.op = op THEN {w} ELSE {}
  <2>1. queue[u] # <<>> /\ queue[u] \in Seq(WriteTasks)
    BY <1>0, Typed DEF Serve
  <2>2. Elements(queue[u]) = {w} \cup Elements(Tail(queue[u]))
    BY <1>1, <2>1, TailElements
  <2>. QED  BY <1>1, <2>1, <2>2, TailIndex DEF Taken
<1>3. w.conv \in Ids /\ w.message \in Nat /\ (w.op # "conv" => w.user \in Users)
  BY <1>2, WriteTyped
<1>4. /\ queue' = [queue EXCEPT ![u] = Tail(queue[u])]
      /\ convs' = convs \cup (IF w.op = "conv" THEN {w.conv} ELSE {})
      /\ members' = [c \in Ids |-> members[c] \cup
                       {x.user : x \in {y \in Taken(u, "member") : y.conv = c}}]
      /\ lists' = [v \in Users |-> lists[v] \cup
                     {x.conv : x \in {y \in Taken(u, "list") : y.user = v}}]
      /\ posted' = posted \cup (IF w.op = "message" THEN {w.message} ELSE {})
      /\ known' = [known EXCEPT ![u] = known[u] \cup (IF w.op = "conv" THEN {w.conv} ELSE {})]
      /\ heard' = [heard EXCEPT ![u] = @ \cup
                     {x.conv : x \in {y \in Taken(u, "list") : y.user = u}}]
      /\ got' = [got EXCEPT ![u] = got[u] \cup (IF w.op = "message" THEN {w.message} ELSE {})]
      /\ UNCHANGED <<worker, history, lost, main, list, talk, place, left>>
  <2>1. /\ {x.conv : x \in Taken(u, "conv")} = IF w.op = "conv" THEN {w.conv} ELSE {}
        /\ {x.message : x \in Taken(u, "message")} =
             IF w.op = "message" THEN {w.message} ELSE {}
    BY <1>2
  <2>. QED  BY <2>1 DEF Serve
<1>5. /\ worker' = worker /\ sent' = sent /\ main' = main /\ readers' = readers
      /\ listeners' = listeners /\ shared' = shared /\ shown' = shown
      /\ opened' = opened /\ screens' = screens
      /\ queue'[u] = Tail(queue[u]) /\ \A v \in Users \ {u} : queue'[v] = queue[v]
      /\ queue' \in [Users -> Seq(WriteTasks)]
  BY <1>0, <1>2, <1>4 DEF history, list, talk, place, TypeOK
<1>6. /\ known'[u] = known[u] \cup (IF w.op = "conv" THEN {w.conv} ELSE {})
      /\ got'[u] = got[u] \cup (IF w.op = "message" THEN {w.message} ELSE {})
      /\ \A v \in Users \ {u} : known'[v] = known[v] /\ got'[v] = got[v]
      /\ known' \in [Users -> SUBSET Ids] /\ got' \in [Users -> SUBSET Nat]
      /\ heard' \in [Users -> SUBSET Ids]
  <2>1. /\ known \in [Users -> SUBSET Ids] /\ got \in [Users -> SUBSET Nat]
        /\ heard \in [Users -> SUBSET Ids]
    BY <1>0 DEF TypeOK
  <2>2. {x.conv : x \in {y \in Taken(u, "list") : y.user = u}} \subseteq Ids
    BY <1>2, <1>3
  <2>. QED  BY <1>3, <1>4, <2>1, <2>2
<1>7. /\ convs \subseteq convs' /\ (w.op = "conv" => w.conv \in convs')
      /\ ConvsOf(queue[u]) =
           ConvsOf(queue'[u]) \cup (IF w.op = "conv" THEN {w.conv} ELSE {})
  BY <1>2, <1>4, <1>5 DEF ConvsOf
<1>8. \A v \in Users : lists'[v] \subseteq convs'
  <2>1. w.op = "list" => w.conv \in convs
    <3>1. 1 \in DOMAIN queue[u] /\ queue[u][1] = w /\ \A i \in DOMAIN queue[u] : ~(i < 1)
      BY <1>1, <1>2, TailIndex
    <3>. QED  BY <1>0, <3>1 DEF ListsLed, Led, LedBy
  <2>. TAKE v \in Users
  <2>2. lists[v] \subseteq convs /\ lists'[v] =
          lists[v] \cup {x.conv : x \in {y \in Taken(u, "list") : y.user = v}}
    BY <1>4 DEF IInv, ListsLed
  <2>3. {x.conv : x \in {y \in Taken(u, "list") : y.user = v}} \subseteq convs
    BY <1>2, <2>1
  <2>. QED  BY <1>7, <2>2, <2>3
<1>9. w.op = "message" => Sent(w.message, w.conv)
  BY <1>0, <1>2 DEF TalkSound
<1>10. /\ posted' \subseteq DOMAIN sent' /\ SentGrows /\ got'[u] \subseteq DOMAIN sent'
  <2>1. posted \subseteq DOMAIN sent /\ got[u] \subseteq DOMAIN sent
    BY <1>0 DEF IInv, TalkSound
  <2>2. w.op = "message" => w.message \in DOMAIN sent
    BY <1>9 DEF Sent
  <2>3. posted' \subseteq DOMAIN sent' /\ got'[u] \subseteq DOMAIN sent'
    BY <1>4, <1>5, <1>6, <2>1, <2>2
  <2>. QED  BY <1>5, <2>3 DEF SentGrows, Sent
<1>11. ListsLed(u)'
  <2>1. Led(queue[u], convs) /\ Led(worker[u], convs \cup ConvsOf(queue[u]))
    BY <1>0 DEF ListsLed, StoredConvs
  <2>2. Led(queue'[u], convs')
    <3>. HIDE DEF WriteTasks
    <3>. QED  BY <1>1, <1>2, <1>5, <1>7, <2>1, LedTail
  <2>3. Led(worker[u], convs' \cup ConvsOf(queue'[u]))
    <3>1. convs \cup ConvsOf(queue[u]) \subseteq convs' \cup ConvsOf(queue'[u])
      BY <1>7
    <3>. QED  BY <2>1, <3>1, LedMore
  <2>. QED  BY <1>5, <1>8, <2>2, <2>3 DEF ListsLed, Led, LedBy, StoredConvs, ConvsOf
<1>12. TalkSound(u)'
  <2>1. \A n \in Nat : \A c : Fits(u, n, c) => Fits(u, n, c)'
    BY <1>5 DEF Fits
  <2>2. \A m \in shown'[u] : Sent(m, opened[u])'
    BY <1>0, <1>5 DEF TalkSound, Sent
  <2>3. Elements(queue'[u]) \subseteq Elements(queue[u])
    BY <1>2, <1>5
  <2>. QED  BY <1>5, <1>10, <2>1, <2>2, <2>3, TalkKept
<1>13. NewestTold(u)'
  <2>1. SeesConvs(u)' = SeesConvs(u)
    BY <1>6, <1>7 DEF SeesConvs, Stored, ConvsOf
  <2>. QED  BY <1>5, <2>1, NewestKept
<1>14. TypeOK'
  <2>1. members' \in [Ids -> SUBSET Users]
    <3>1. \A c \in Ids :
            {x.user : x \in {y \in Taken(u, "member") : y.conv = c}} \subseteq Users
      BY <1>2, <1>3
    <3>. QED  BY <1>0, <1>4, <3>1 DEF TypeOK
  <2>2. lists' \in [Users -> SUBSET Ids]
    <3>1. \A v \in Users :
            {x.conv : x \in {y \in Taken(u, "list") : y.user = v}} \subseteq Ids
      BY <1>2, <1>3
    <3>. QED  BY <1>0, <1>4, <3>1 DEF TypeOK
  <2>3. convs' \subseteq Ids /\ posted' \subseteq Nat
    BY <1>0, <1>3, <1>4 DEF TypeOK
  <2>. QED  BY <1>0, <1>4, <1>5, <1>6, <2>1, <2>2, <2>3
         DEF TypeOK, history, list, talk, place
<1>15. \A v \in Users \ {u} : Own(v)' = Own(v)
  BY <1>5, <1>6 DEF Own
<1>. QED  BY <1>0, <1>7, <1>8, <1>10, <1>11, <1>12, <1>13, <1>14, <1>15, StepOf

LEMMA HearConvsInv ==
  ASSUME IInv, NEW u \in Followed, HearConvs(u)
  PROVE  IInv'
<1>0. u \in Users /\ TypeOK /\ TalkSound(u)
  BY UsersAssumption DEF IInv
<1>1. PICK docs : docs = SeesConvs(u) \cup convs
  OBVIOUS
<1>2. /\ docs \in SUBSET Ids /\ known[u] \cup convs \in SUBSET Ids
      /\ known' = [known EXCEPT ![u] = known[u] \cup convs]
      /\ main' = [main EXCEPT ![u] = main[u] \o ToldLists(u, docs)]
      /\ UNCHANGED <<server, heard, got, worker, queue, history, lost, list, talk, place,
                     left>>
  BY <1>0, <1>1, Typed, StoredType DEF HearConvs, TellLists, TypeOK
<1>3. /\ convs' = convs /\ lists' = lists /\ posted' = posted /\ sent' = sent
      /\ got' = got /\ worker' = worker /\ readers' = readers /\ listeners' = listeners
      /\ queue' = queue /\ shared' = shared /\ shown' = shown /\ opened' = opened
      /\ screens' = screens
  BY <1>2 DEF server, history, list, talk, place
<1>4. /\ ToldLists(u, docs) \in Seq(Blocks)
      /\ \A b \in Elements(ToldLists(u, docs)) : b.kind = "list"
  BY <1>0, <1>2, ToldFacts
<1>5. /\ main' \in [Users -> Seq(Blocks)]
      /\ \A v \in Users \ {u} : main'[v] = main[v]
      /\ main'[u] = main[u] \o ToldLists(u, docs)
      /\ Elements(main'[u]) = Elements(main[u]) \cup Elements(ToldLists(u, docs))
  BY <1>0, <1>2, <1>4, MainMore
<1>6. /\ posted' \subseteq DOMAIN sent' /\ SentGrows /\ convs \subseteq convs'
      /\ \A v \in Users : lists'[v] \subseteq convs'
      /\ got'[u] \subseteq DOMAIN sent'
  BY <1>0, <1>3, QuietStep
<1>7. known'[u] = known[u] \cup convs /\ \A v \in Users \ {u} : known'[v] = known[v]
  BY <1>0, <1>2 DEF TypeOK
<1>8. TalkSound(u)'
  <2>1. \A n \in Nat : \A c : Fits(u, n, c) => Fits(u, n, c)'
    BY <1>3 DEF Fits
  <2>2. \A m \in shown'[u] : Sent(m, opened[u])'
    BY <1>0, <1>3 DEF TalkSound, Sent
  <2>3. \A b \in Elements(main'[u]) : b \in Elements(main[u]) \/ BlockSound(u, b)'
    BY <1>4, <1>5 DEF BlockSound
  <2>. QED  BY <1>0, <1>3, <1>6, <2>1, <2>2, <2>3, TalkKept
<1>9. NewestTold(u)'
  <2>1. SeesConvs(u)' = docs
    BY <1>1, <1>3, <1>7 DEF SeesConvs, Stored
  <2>. QED  BY <1>2, <1>3, <1>5, <2>1, NewestNow
<1>10. TypeOK'
  BY <1>0, <1>2, <1>5 DEF TypeOK, server, history, list, talk, place
<1>11. \A v \in Users \ {u} : Own(v)' = Own(v)
  BY <1>3, <1>5, <1>7 DEF Own
<1>. QED  BY <1>0, <1>3, <1>6, <1>8, <1>9, <1>10, <1>11, ListsKept, StepOf

\* Steps that leave alone everything but what is of no concern here.
LEMMA AsideInv ==
  ASSUME IInv, TypeOK', NEW u \in Users, UNCHANGED <<convs, lists, posted, sent>>,
         UNCHANGED <<got, queue, worker, readers, known, shown, opened, screens, listeners,
                     shared>>,
         \A v \in Users \ {u} : main'[v] = main[v],
         \A b \in Elements(main'[u]) : b \in Elements(main[u]) \/ BlockSound(u, b)',
         NewestTold(u)'
  PROVE  IInv'
<1>1. /\ posted' \subseteq DOMAIN sent' /\ SentGrows /\ convs \subseteq convs'
      /\ \A v \in Users : lists'[v] \subseteq convs'
      /\ got'[u] \subseteq DOMAIN sent'
  BY QuietStep
<1>2. TalkSound(u)'
  <2>1. \A n \in Nat : \A c : Fits(u, n, c) => Fits(u, n, c)'
    BY DEF Fits
  <2>2. \A m \in shown'[u] : Sent(m, opened[u])'
    BY DEF IInv, TalkSound, Sent
  <2>. QED  BY <1>1, <2>1, <2>2, TalkKept
<1>3. \A v \in Users \ {u} : Own(v)' = Own(v)
  BY DEF Own
<1>. QED  BY <1>1, <1>2, <1>3, ListsKept, StepOf

LEMMA HearListInv ==
  ASSUME IInv, NEW u \in Followed, HearList(u)
  PROVE  IInv'
<1>0. u \in Users /\ TypeOK
  BY UsersAssumption DEF IInv
<1>1. /\ heard' = [heard EXCEPT ![u] = @ \cup lists[u]]
      /\ UNCHANGED <<server, known, got, worker, queue, history, lost, main, list, talk,
                     place, left>>
  BY DEF HearList
<1>2. TypeOK'
  BY <1>0, <1>1 DEF TypeOK, server, history, list, talk, place
<1>3. NewestTold(u)'
  <2>1. SeesConvs(u)' = SeesConvs(u)
    BY <1>1 DEF SeesConvs, Stored
  <2>. QED  BY <1>0, <1>1, <2>1, NewestKept DEF list
<1>. QED  BY <1>0, <1>1, <1>2, <1>3, AsideInv DEF server, history, list, talk, place

LEMMA AnswerInv ==
  ASSUME IInv, NEW u \in Followed, Answer(u)
  PROVE  IInv'
<1>0. u \in Users /\ TypeOK
  BY UsersAssumption DEF IInv
<1>1. PICK b : b = Block("user", SeesList(u), {}, None, Head(fetches[u]))
  OBVIOUS
<1>2. /\ fetches[u] # <<>> /\ fetches[u] \in Seq(Nat)
      /\ fetches' = [fetches EXCEPT ![u] = Tail(@)]
      /\ main' = [main EXCEPT ![u] = Append(@, b)]
      /\ UNCHANGED <<server, cache, worker, queue, history, lost, signed, listeners, shared,
                     table, talk, place, left>>
  BY <1>0, <1>1, Typed DEF Answer
<1>3. Head(fetches[u]) \in Nat /\ Tail(fetches[u]) \in Seq(Nat)
  BY <1>2, TailIndex
<1>4. b \in Blocks /\ b.kind = "user"
  <2>1. SeesList(u) \in SUBSET Ids
    BY <1>0, StoredType
  <2>. QED  BY <1>1, <1>3, <2>1, BlockType DEF Block
<1>5. /\ main' \in [Users -> Seq(Blocks)]
      /\ \A v \in Users \ {u} : main'[v] = main[v]
      /\ main'[u] = main[u] \o <<b>>
      /\ Elements(main'[u]) = Elements(main[u]) \cup {b}
  BY <1>0, <1>2, <1>4, MainOne
<1>6. TypeOK'
  BY <1>0, <1>2, <1>3, <1>5 DEF TypeOK, server, cache, history, talk, place
<1>7. NewestTold(u)'
  <2>1. SeesConvs(u)' = SeesConvs(u)
    BY <1>2 DEF SeesConvs, Stored, cache
  <2>2. <<b>> \in Seq(Blocks) /\ NoLists(<<b>>)
    BY <1>4, OneElement DEF NoLists
  <2>. QED  BY <1>0, <1>2, <1>5, <2>1, <2>2, NewestMore
<1>8. \A x \in Elements(main'[u]) : x \in Elements(main[u]) \/ BlockSound(u, x)'
  BY <1>4, <1>5 DEF BlockSound
<1>. QED  BY <1>0, <1>2, <1>5, <1>6, <1>7, <1>8, AsideInv
       DEF server, cache, history, talk, place

LEMMA HearMessagesInv ==
  ASSUME IInv, NEW u \in Followed, NEW c \in Ids, HearMessages(u, c)
  PROVE  IInv'
<1>0. u \in Users /\ TypeOK /\ TalkSound(u)
  BY UsersAssumption DEF IInv
<1>1. PICK new : new = {m \in posted : sent[m] = c}
  OBVIOUS
<1>2. PICK docs : docs = SeesMessages(u, c) \cup new
  OBVIOUS
<1>3. /\ got' = [got EXCEPT ![u] = got[u] \cup new]
      /\ TellReaders(u, c, docs)
      /\ UNCHANGED <<server, known, heard, worker, queue, history, lost, list, talk, place,
                     left>>
  BY <1>1, <1>2 DEF HearMessages
<1>4. /\ convs' = convs /\ lists' = lists /\ posted' = posted /\ sent' = sent
      /\ known' = known /\ worker' = worker /\ readers' = readers /\ listeners' = listeners
      /\ queue' = queue /\ shared' = shared /\ shown' = shown /\ opened' = opened
      /\ screens' = screens
  BY <1>3 DEF server, history, list, talk, place
<1>5. /\ new \subseteq Nat /\ docs \in SUBSET Nat /\ new \subseteq DOMAIN sent
      /\ \A m \in docs : Sent(m, c)
  <2>1. posted \subseteq Nat /\ posted \subseteq DOMAIN sent
    BY <1>0 DEF TypeOK, IInv
  <2>2. \A m \in new : Sent(m, c)
    BY <1>1, <2>1 DEF Sent
  <2>3. SeesMessages(u, c) \subseteq Nat /\ \A m \in SeesMessages(u, c) : Sent(m, c)
    BY <1>0, StoredType, SeenSent
  <2>. QED  BY <1>1, <1>2, <2>1, <2>2, <2>3
<1>6. /\ main' \in [Users -> Seq(Blocks)] /\ \A v \in Users \ {u} : main'[v] = main[v]
  BY <1>0, <1>3, <1>5, TellReadersFacts
<1>7. PICK t \in Seq(Blocks) :
        /\ main'[u] = main[u] \o t
        /\ \A b \in Elements(t) :
             b.kind = "talk" /\ b.docs = docs /\ b.conv = c /\ Fits(u, b.screen, c)
  <2>1. PICK t \in Seq(Blocks) : Tells(u, c, docs, t)
    BY <1>0, <1>3, <1>5, TellsExist
  <2>. QED  BY <2>1 DEF Tells
<1>8. Elements(main'[u]) = Elements(main[u]) \cup Elements(t)
  BY <1>0, <1>7, Typed, CatElements
<1>9. \A b \in Elements(t) : BlockSound(u, b)'
  BY <1>4, <1>5, <1>7 DEF BlockSound, Fits, Sent
<1>10. /\ got'[u] = got[u] \cup new /\ \A v \in Users \ {u} : got'[v] = got[v]
       /\ got' \in [Users -> SUBSET Nat]
  BY <1>0, <1>3, <1>5 DEF TypeOK
<1>11. /\ posted' \subseteq DOMAIN sent' /\ SentGrows /\ convs \subseteq convs'
       /\ \A v \in Users : lists'[v] \subseteq convs'
       /\ got[u] \subseteq DOMAIN sent'
  BY <1>0, <1>4, QuietStep
<1>12. TalkSound(u)'
  <2>1. \A n \in Nat : \A x : Fits(u, n, x) => Fits(u, n, x)'
    BY <1>4 DEF Fits
  <2>2. \A m \in shown'[u] : Sent(m, opened[u])'
    BY <1>0, <1>4 DEF TalkSound, Sent
  <2>3. got'[u] \subseteq DOMAIN sent'
    BY <1>4, <1>5, <1>10, <1>11
  <2>. QED  BY <1>0, <1>4, <1>8, <1>9, <1>11, <2>1, <2>2, <2>3, TalkKept
<1>13. NewestTold(u)'
  <2>1. SeesConvs(u)' = SeesConvs(u)
    BY <1>4 DEF SeesConvs, Stored
  <2>2. NoLists(t)
    BY <1>7 DEF NoLists, Elements
  <2>. QED  BY <1>0, <1>4, <1>7, <2>1, <2>2, NewestMore
<1>14. TypeOK'
  BY <1>0, <1>3, <1>6, <1>10 DEF TypeOK, server, history, list, talk, place
<1>15. \A v \in Users \ {u} : Own(v)' = Own(v)
  BY <1>4, <1>6, <1>10 DEF Own
<1>. QED  BY <1>0, <1>4, <1>11, <1>12, <1>13, <1>14, <1>15, ListsKept, StepOf

----------------------------------------------------------------------------
(* The main queue.                                                         *)

LEMMA TurnFacts ==
  ASSUME TypeOK, NEW u \in Users, NEW kind, Turn(u, kind)
  PROVE  /\ main[u] # <<>> /\ main[u] \in Seq(Blocks)
         /\ Head(main[u]) \in Blocks /\ Head(main[u]).kind = kind
         /\ Head(main[u]) \in Elements(main[u])
         /\ Tail(main[u]) \in Seq(Blocks)
         /\ Elements(Tail(main[u])) \subseteq Elements(main[u])
<1>1. main[u] # <<>> /\ main[u] \in Seq(Blocks) /\ Head(main[u]).kind = kind
  BY Typed DEF Turn
<1>2. Elements(main[u]) = {Head(main[u])} \cup Elements(Tail(main[u]))
  BY <1>1, TailElements
<1>. QED  BY <1>1, <1>2, TailIndex

LEMMA DoneFacts ==
  ASSUME TypeOK, NEW u \in Users, main[u] # <<>>, NEW t \in Seq(Blocks), Done(u, t)
  PROVE  /\ main' \in [Users -> Seq(Blocks)]
         /\ \A v \in Users \ {u} : main'[v] = main[v]
         /\ main'[u] = Tail(main[u]) \o t
         /\ Elements(main'[u]) = Elements(Tail(main[u])) \cup Elements(t)
<1>1. main \in [Users -> Seq(Blocks)] /\ Tail(main[u]) \in Seq(Blocks)
  BY TailIndex DEF TypeOK
<1>2. PICK s \in Seq(Blocks) : s = Tail(main[u])
  BY <1>1
<1>3. s \o t \in Seq(Blocks) /\ Elements(s \o t) = Elements(s) \cup Elements(t)
  <2>. HIDE DEF Blocks
  <2>. QED  BY CatIndex, CatElements
<1>. QED  BY <1>1, <1>2, <1>3 DEF Done

LEMMA DoneAll ==
  ASSUME TypeOK, NEW u \in Users, main[u] # <<>>, Done(u, <<>>)
  PROVE  /\ main' \in [Users -> Seq(Blocks)]
         /\ \A v \in Users \ {u} : main'[v] = main[v]
         /\ main'[u] = Tail(main[u])
         /\ Elements(main'[u]) = Elements(Tail(main[u]))
<1>1. <<>> \in Seq(Blocks) /\ Elements(<<>>) = {}
  BY NoElements
<1>2. Tail(main[u]) \in Seq(Blocks)
  BY Typed, TailIndex
<1>3. Tail(main[u]) \o <<>> = Tail(main[u])
  BY <1>2
<1>. QED  BY <1>1, <1>3, DoneFacts

\* What the app asks of Firestore, on the device of someone followed.
LEMMA AskFacts ==
  ASSUME TypeOK, NEW u \in Followed, NEW t \in Seq(Tasks), Ask(u, t)
  PROVE  /\ worker' \in [Users -> Seq(Tasks)] /\ queue' = queue
         /\ \A v \in Users \ {u} : worker'[v] = worker[v]
         /\ worker'[u] = worker[u] \o t
         /\ Elements(worker'[u]) = Elements(worker[u]) \cup Elements(t)
<1>1. u \in Users /\ worker \in [Users -> Seq(Tasks)] /\ worker[u] \in Seq(Tasks)
  BY UsersAssumption, Typed DEF TypeOK
<1>2. /\ worker[u] \o t \in Seq(Tasks)
      /\ Elements(worker[u] \o t) = Elements(worker[u]) \cup Elements(t)
  BY <1>1, CatIndex, CatElements
<1>3. worker' = [worker EXCEPT ![u] = worker[u] \o t] /\ queue' = queue
  BY DEF Ask
<1>. QED  BY <1>1, <1>2, <1>3

\* Asking for anything but a list that has no conversation keeps the order.
LEMMA AskLed ==
  ASSUME IInv, NEW u \in Users, NEW t \in Seq(Tasks),
         worker'[u] = worker[u] \o t, queue'[u] = queue[u],
         convs' = convs, lists' = lists, Led(t, {})
  PROVE  ListsLed(u)'
<1>1. /\ Led(worker[u], convs \cup StoredConvs(u)) /\ worker[u] \in Seq(Tasks)
      /\ Led(queue[u], convs) /\ lists[u] \subseteq convs
  BY Typed DEF IInv, ListsLed
<1>2. Led(t, (convs \cup StoredConvs(u)) \cup ConvsOf(worker[u]))
  BY LedMore
<1>3. Led(worker[u] \o t, convs \cup StoredConvs(u))
  <2>. HIDE DEF Tasks
  <2>. QED  BY <1>1, <1>2, LedCat
<1>4. StoredConvs(u)' = StoredConvs(u)
  BY DEF StoredConvs, ConvsOf
<1>. QED  BY <1>1, <1>3, <1>4 DEF ListsLed, Led, LedBy

LEMMA UserFetchedInv ==
  ASSUME IInv, NEW u \in Followed, UserFetched(u)
  PROVE  IInv'
<1>0. u \in Users /\ TypeOK /\ TalkSound(u)
  BY UsersAssumption DEF IInv
<1>1. PICK b : b = Head(main[u])
  OBVIOUS
<1>2. PICK t : t = Listen(b.ids, b.screen)
  OBVIOUS
<1>3. /\ main[u] # <<>> /\ b \in Blocks /\ b.kind = "user"
      /\ Elements(Tail(main[u])) \subseteq Elements(main[u])
  BY <1>0, <1>1, TurnFacts DEF UserFetched
<1>4. /\ Done(u, <<>>) /\ signed' = [signed EXCEPT ![u] = TRUE] /\ Ask(u, <<t>>)
      /\ UNCHANGED <<server, cache, history, lost, listeners, shared, table, fetches,
                     talk, place, left>>
  BY <1>1, <1>2 DEF UserFetched
<1>5. t \in Tasks /\ t.op = "listen"
  BY <1>2, <1>3, BlockTyped DEF Listen, Tasks
<1>6. <<t>> \in Seq(Tasks) /\ Elements(<<t>>) = {t} /\ Led(<<t>>, {})
  BY <1>5, OneElement, LedOne
<1>7. /\ worker' \in [Users -> Seq(Tasks)] /\ queue' = queue
      /\ \A v \in Users \ {u} : worker'[v] = worker[v]
      /\ worker'[u] = worker[u] \o <<t>>
      /\ Elements(worker'[u]) = Elements(worker[u]) \cup Elements(<<t>>)
  BY <1>0, <1>4, <1>6, AskFacts
<1>8. /\ main' \in [Users -> Seq(Blocks)]
      /\ \A v \in Users \ {u} : main'[v] = main[v]
      /\ main'[u] = Tail(main[u])
      /\ Elements(main'[u]) = Elements(Tail(main[u]))
  BY <1>0, <1>3, <1>4, DoneAll
<1>9. /\ convs' = convs /\ lists' = lists /\ posted' = posted /\ sent' = sent
      /\ got' = got /\ known' = known /\ readers' = readers /\ listeners' = listeners
      /\ shared' = shared /\ shown' = shown /\ opened' = opened /\ screens' = screens
  BY <1>4 DEF server, cache, history, talk, place
<1>10. /\ posted' \subseteq DOMAIN sent' /\ SentGrows /\ convs \subseteq convs'
       /\ \A v \in Users : lists'[v] \subseteq convs'
       /\ got'[u] \subseteq DOMAIN sent'
  BY <1>0, <1>9, QuietStep
<1>11. ListsLed(u)'
  BY <1>0, <1>6, <1>7, <1>9, AskLed
<1>12. TalkSound(u)'
  <2>1. \A n \in Nat : \A c : Fits(u, n, c) => Fits(u, n, c)'
    BY <1>9 DEF Fits
  <2>2. \A m \in shown'[u] : Sent(m, opened[u])'
    BY <1>0, <1>9 DEF TalkSound, Sent
  <2>3. TaskSound(u, t)'
    BY <1>5 DEF TaskSound
  <2>. QED  BY <1>0, <1>3, <1>6, <1>7, <1>8, <1>9, <1>10, <2>1, <2>2, <2>3, TalkKept
<1>13. NewestTold(u)'
  <2>1. SeesConvs(u)' = SeesConvs(u)
    BY <1>7, <1>9 DEF SeesConvs, Stored
  <2>2. Head(main[u]).kind # "list"
    BY <1>1, <1>3
  <2>. QED  BY <1>0, <1>3, <1>8, <1>9, <2>1, <2>2, NewestTail
<1>14. TypeOK'
  BY <1>0, <1>4, <1>7, <1>8 DEF TypeOK, server, cache, history, talk, place
<1>15. \A v \in Users \ {u} : Own(v)' = Own(v)
  BY <1>7, <1>8, <1>9 DEF Own
<1>. QED  BY <1>0, <1>10, <1>11, <1>12, <1>13, <1>14, <1>15, StepOf

LEMMA ShowListInv ==
  ASSUME IInv, NEW u \in Followed, ShowList(u)
  PROVE  IInv'
<1>0. u \in Users /\ TypeOK /\ TalkSound(u)
  BY UsersAssumption DEF IInv
<1>1. PICK b : b = Head(main[u])
  OBVIOUS
<1>2. /\ main[u] # <<>> /\ main[u] \in Seq(Blocks) /\ b \in Blocks /\ b.kind = "list"
      /\ Tail(main[u]) \in Seq(Blocks)
      /\ Elements(Tail(main[u])) \subseteq Elements(main[u])
  BY <1>0, <1>1, TurnFacts DEF ShowList, Kept
<1>3. b.screen \in Nat /\ b.docs \cap b.ids \in SUBSET Ids
  BY <1>2, BlockTyped
<1>4. PICK r : r = Reload(b.screen)
  OBVIOUS
<1>5. /\ r \in Blocks /\ r.kind = "reload" /\ <<r>> \in Seq(Blocks) /\ Elements(<<r>>) = {r}
      /\ NoLists(<<r>>)
  <2>1. r \in Blocks /\ r.kind = "reload"
    BY <1>3, <1>4, BlockType DEF Reload, Block
  <2>. QED  BY <2>1, OneElement DEF NoLists
<1>6. /\ shared' = [shared EXCEPT ![u] = Ordered(b.docs \cap b.ids)]
      /\ Done(u, <<r>>)
      /\ UNCHANGED <<server, cache, worker, queue, history, lost, signed, listeners, table,
                     fetches, talk, place, left>>
  BY <1>1, <1>4 DEF ShowList, Kept, Reloads
<1>7. /\ main' \in [Users -> Seq(Blocks)]
      /\ \A v \in Users \ {u} : main'[v] = main[v]
      /\ main'[u] = Tail(main[u]) \o <<r>>
      /\ Elements(main'[u]) = Elements(Tail(main[u])) \cup Elements(<<r>>)
  BY <1>0, <1>2, <1>5, <1>6, DoneFacts
<1>8. /\ shared' \in [Users -> Seq(Ids)]
      /\ \A v \in Users \ {u} : shared'[v] = shared[v]
      /\ shared'[u] = Ordered(b.docs \cap b.ids)
  <2>1. Ordered(b.docs \cap b.ids) \in Seq(Ids)
    BY <1>3, OrderedIds
  <2>. QED  BY <1>0, <1>6, <2>1 DEF TypeOK
<1>9. /\ convs' = convs /\ lists' = lists /\ posted' = posted /\ sent' = sent
      /\ got' = got /\ known' = known /\ readers' = readers /\ listeners' = listeners
      /\ worker' = worker /\ queue' = queue /\ shown' = shown /\ opened' = opened
      /\ screens' = screens
  BY <1>6 DEF server, cache, history, talk, place
<1>10. /\ posted' \subseteq DOMAIN sent' /\ SentGrows /\ convs \subseteq convs'
       /\ \A v \in Users : lists'[v] \subseteq convs'
       /\ got'[u] \subseteq DOMAIN sent'
  BY <1>0, <1>9, QuietStep
<1>11. TalkSound(u)'
  <2>1. \A n \in Nat : \A c : Fits(u, n, c) => Fits(u, n, c)'
    BY <1>9 DEF Fits
  <2>2. \A m \in shown'[u] : Sent(m, opened[u])'
    BY <1>0, <1>9 DEF TalkSound, Sent
  <2>3. BlockSound(u, r)'
    BY <1>5 DEF BlockSound
  <2>. QED  BY <1>0, <1>2, <1>5, <1>7, <1>9, <1>10, <2>1, <2>2, <2>3, TalkKept
<1>12. NewestTold(u)'
  <2>. DEFINE n == Len(listeners[u])
              rest == Tail(main[u])
              ids == listeners[u][n].ids
  <2>1. SeesConvs(u)' = SeesConvs(u) /\ listeners'[u] = listeners[u]
    BY <1>9 DEF SeesConvs, Stored
  <2>2. CASE n > 0
    <3>1. LastBrings(main[u], SeesConvs(u), ids)
      BY <1>0, <2>2 DEF IInv, NewestTold
    <3>2. /\ LastBrings(rest, SeesConvs(u), ids)
          /\ NoLists(rest) => b.docs = SeesConvs(u) /\ b.ids = ids
      BY <1>1, <1>2, <3>1, TailLists
    <3>3. /\ NoLists(main'[u]) <=> NoLists(rest)
          /\ LastBrings(main'[u], SeesConvs(u), ids)
      <4>. HIDE DEF rest, ids, n
      <4>1. rest \in Seq(Blocks) /\ main'[u] = rest \o <<r>>
        BY <1>2, <1>7 DEF rest
      <4>. QED  BY <1>5, <3>2, <4>1, CatNoLists
    <3>4. u \in Followed
      OBVIOUS
    <3>. QED  BY <1>8, <2>1, <3>2, <3>3, <3>4 DEF NewestTold
  <2>3. CASE ~(n > 0)
    BY <2>1, <2>3 DEF NewestTold
  <2>. QED  BY <2>2, <2>3
<1>13. TypeOK'
  BY <1>0, <1>6, <1>7, <1>8 DEF TypeOK, server, cache, history, talk, place
<1>14. \A v \in Users \ {u} : Own(v)' = Own(v)
  BY <1>7, <1>8, <1>9 DEF Own
<1>. QED  BY <1>0, <1>9, <1>10, <1>11, <1>12, <1>13, <1>14, ListsKept, StepOf

LEMMA ReloadTableInv ==
  ASSUME IInv, NEW u \in Followed, ReloadTable(u)
  PROVE  IInv'
<1>0. u \in Users /\ TypeOK
  BY UsersAssumption DEF IInv
<1>1. /\ main[u] # <<>> /\ Head(main[u]).kind = "reload"
      /\ Elements(Tail(main[u])) \subseteq Elements(main[u])
  BY <1>0, TurnFacts DEF ReloadTable
<1>2. /\ main' \in [Users -> Seq(Blocks)]
      /\ \A v \in Users \ {u} : main'[v] = main[v]
      /\ main'[u] = Tail(main[u])
      /\ Elements(main'[u]) = Elements(Tail(main[u]))
  BY <1>0, <1>1, DoneAll DEF ReloadTable
<1>3. UNCHANGED <<server, cache, worker, queue, history, lost, signed, listeners, shared,
                  fetches, talk, place, left>>
  BY DEF ReloadTable
<1>4. table' \in [Users -> Seq(Ids)]
  BY <1>0, Typed DEF ReloadTable, TypeOK
<1>5. TypeOK'
  BY <1>0, <1>2, <1>3, <1>4 DEF TypeOK, server, cache, history, talk, place
<1>6. NewestTold(u)'
  <2>1. SeesConvs(u)' = SeesConvs(u)
    BY <1>3 DEF SeesConvs, Stored, cache
  <2>. QED  BY <1>0, <1>1, <1>2, <1>3, <2>1, NewestTail
<1>. QED  BY <1>0, <1>1, <1>2, <1>3, <1>5, <1>6, AsideInv
       DEF server, cache, history, talk, place

LEMMA ShowMessagesInv ==
  ASSUME IInv, NEW u \in Followed, ShowMessages(u)
  PROVE  IInv'
<1>0. u \in Users /\ TypeOK /\ TalkSound(u)
  BY UsersAssumption DEF IInv
<1>1. PICK b : b = Head(main[u])
  OBVIOUS
<1>2. /\ main[u] # <<>> /\ b \in Blocks /\ b.kind = "talk" /\ b \in Elements(main[u])
      /\ Elements(Tail(main[u])) \subseteq Elements(main[u])
  BY <1>0, <1>1, TurnFacts DEF ShowMessages
<1>3. b.docs \subseteq Nat /\ Fits(u, b.screen, b.conv) /\ \A m \in b.docs : Sent(m, b.conv)
  BY <1>0, <1>2, BlockTyped DEF TalkSound, BlockSound
<1>4. /\ main' \in [Users -> Seq(Blocks)]
      /\ \A v \in Users \ {u} : main'[v] = main[v]
      /\ main'[u] = Tail(main[u])
      /\ Elements(main'[u]) = Elements(Tail(main[u]))
  BY <1>0, <1>2, DoneAll DEF ShowMessages
<1>5. /\ messages' = [messages EXCEPT ![u] = b.docs]
      /\ shown' = IF b.screen = screens[u]["talk"]
                    THEN [shown EXCEPT ![u] = messages'[u]] ELSE shown
      /\ UNCHANGED <<server, cache, worker, queue, history, lost, list, readers, opened,
                     place, left>>
  BY <1>1 DEF ShowMessages, Only
<1>6. messages' \in [Users -> SUBSET Nat] /\ messages'[u] = b.docs
  BY <1>0, <1>3, <1>5 DEF TypeOK
<1>7. /\ shown' \in [Users -> SUBSET Nat]
      /\ \A v \in Users \ {u} : shown'[v] = shown[v]
      /\ shown'[u] = IF b.screen = screens[u]["talk"] THEN b.docs ELSE shown[u]
  <2>1. shown \in [Users -> SUBSET Nat] /\ b.docs \in SUBSET Nat
    BY <1>0, <1>3 DEF TypeOK
  <2>. QED  BY <1>0, <1>5, <1>6, <2>1
<1>8. /\ convs' = convs /\ lists' = lists /\ posted' = posted /\ sent' = sent
      /\ got' = got /\ known' = known /\ readers' = readers /\ listeners' = listeners
      /\ worker' = worker /\ queue' = queue /\ shared' = shared /\ opened' = opened
      /\ screens' = screens
  BY <1>5 DEF server, cache, history, list, place
<1>9. /\ posted' \subseteq DOMAIN sent' /\ SentGrows /\ convs \subseteq convs'
      /\ \A v \in Users : lists'[v] \subseteq convs'
      /\ got'[u] \subseteq DOMAIN sent'
  BY <1>0, <1>8, QuietStep
<1>10. TalkSound(u)'
  <2>1. \A n \in Nat : \A c : Fits(u, n, c) => Fits(u, n, c)'
    BY <1>8 DEF Fits
  <2>2. \A m \in shown'[u] : Sent(m, opened[u])
    BY <1>0, <1>3, <1>7 DEF TalkSound, Fits
  <2>3. \A m \in shown'[u] : Sent(m, opened[u])'
    BY <1>8, <2>2 DEF Sent
  <2>. QED  BY <1>0, <1>2, <1>4, <1>8, <1>9, <2>1, <2>3, TalkKept
<1>11. NewestTold(u)'
  <2>1. SeesConvs(u)' = SeesConvs(u)
    BY <1>8 DEF SeesConvs, Stored
  <2>2. Head(main[u]).kind # "list"
    BY <1>1, <1>2
  <2>. QED  BY <1>0, <1>2, <1>4, <1>8, <2>1, <2>2, NewestTail
<1>12. TypeOK'
  BY <1>0, <1>4, <1>5, <1>6, <1>7 DEF TypeOK, server, cache, history, list, place
<1>13. \A v \in Users \ {u} : Own(v)' = Own(v)
  BY <1>4, <1>7, <1>8 DEF Own
<1>. QED  BY <1>0, <1>8, <1>9, <1>10, <1>11, <1>12, <1>13, ListsKept, StepOf

----------------------------------------------------------------------------
(* The user.                                                               *)

LEMMA FetchFacts ==
  ASSUME TypeOK, NEW u \in Users, NEW n \in Nat, NEW screen \in Nat, Fetch(u, n, screen)
  PROVE  fetches' \in [Users -> Seq(Nat)] /\ left.fetches - n \in Nat
<1>1. fetches \in [Users -> Seq(Nat)] /\ fetches[u] \in Seq(Nat) /\ left.fetches \in Nat
  BY DEF TypeOK
<1>2. [i \in 1 .. n |-> screen] \in Seq(Nat)
  <2>1. [i \in 1 .. n |-> screen] \in [1 .. n -> Nat]
    OBVIOUS
  <2>. QED  BY <2>1, Stacked
<1>3. fetches[u] \o [i \in 1 .. n |-> screen] \in Seq(Nat)
  BY <1>1, <1>2, CatIndex
<1>. QED  BY <1>1, <1>3 DEF Fetch

LEMMA OpenListInv ==
  ASSUME IInv, NEW u \in Followed, OpenList(u)
  PROVE  IInv'
<1>0. u \in Users /\ TypeOK /\ TalkSound(u)
  BY UsersAssumption DEF IInv
<1>1. /\ left' = [left EXCEPT !.fetches = @ - 2]
      /\ Fetch(u, 2, screens[u]["list"] + 1)
      /\ front' = [front EXCEPT ![u] = "list"]
      /\ screens' = [screens EXCEPT ![u]["list"] = @ + 1]
      /\ table' = [table EXCEPT ![u] = shared[u]]
      /\ UNCHANGED <<server, cache, worker, queue, history, lost, main, signed, listeners,
                     shared, talk>>
  BY DEF OpenList
<1>a. screens[u]["list"] + 1 \in Nat
  <2>1. screens[u]["list"] \in Nat
    BY <1>0, Typed
  <2>. QED  BY <2>1
<1>2. /\ screens' \in [Users -> Numbers] /\ screens'[u]["talk"] = screens[u]["talk"]
      /\ \A v \in Users \ {u} : screens'[v] = screens[v]
  <2>0. screens \in [Users -> Numbers]
    BY <1>0 DEF TypeOK, Numbers
  <2>1. screens \in [Users -> Numbers] /\ screens[u]["list"] + 1 \in Nat
    BY <1>a, <2>0
  <2>2. screens' = [screens EXCEPT ![u] = [screens[u] EXCEPT !["list"] = screens[u]["list"] + 1]]
    BY <1>1
  <2>3. /\ [screens[u] EXCEPT !["list"] = screens[u]["list"] + 1] \in Numbers
        /\ [screens[u] EXCEPT !["list"] = screens[u]["list"] + 1]["talk"] = screens[u]["talk"]
    BY <1>0, <2>1 DEF Numbers, Kinds
  <2>. QED  BY <1>0, <2>1, <2>2, <2>3
<1>3. fetches' \in [Users -> Seq(Nat)] /\ left.fetches - 2 \in Nat
  BY <1>0, <1>1, <1>a, FetchFacts
<1>4. TypeOK'
  <2>1. screens' \in [Users -> [Kinds -> Nat]]
    BY <1>2 DEF Numbers
  <2>. QED  BY <1>0, <1>1, <1>3, <2>1, Typed DEF TypeOK, server, cache, history, talk
<1>5. /\ convs' = convs /\ lists' = lists /\ posted' = posted /\ sent' = sent
      /\ got' = got /\ known' = known /\ readers' = readers /\ listeners' = listeners
      /\ worker' = worker /\ queue' = queue /\ main' = main /\ shared' = shared
      /\ opened' = opened /\ shown' = shown
  BY <1>1 DEF server, cache, history, talk
<1>6. /\ posted' \subseteq DOMAIN sent' /\ SentGrows /\ convs \subseteq convs'
      /\ \A v \in Users : lists'[v] \subseteq convs'
      /\ got'[u] \subseteq DOMAIN sent'
  BY <1>0, <1>5, QuietStep
<1>7. TalkSound(u)'
  <2>1. \A n \in Nat : \A c : Fits(u, n, c) => Fits(u, n, c)'
    BY <1>2, <1>5 DEF Fits
  <2>2. \A m \in shown'[u] : Sent(m, opened[u])'
    BY <1>0, <1>5 DEF TalkSound, Sent
  <2>. QED  BY <1>0, <1>5, <1>6, <2>1, <2>2, TalkKept
<1>8. NewestTold(u)'
  <2>1. SeesConvs(u)' = SeesConvs(u)
    BY <1>5 DEF SeesConvs, Stored
  <2>. QED  BY <1>0, <1>5, <2>1, NewestKept
<1>9. \A v \in Users \ {u} : Own(v)' = Own(v)
  BY <1>2, <1>5 DEF Own
<1>. QED  BY <1>0, <1>4, <1>5, <1>6, <1>7, <1>8, <1>9, ListsKept, StepOf

LEMMA LeaveListInv ==
  ASSUME IInv, NEW u \in Followed, LeaveList(u)
  PROVE  IInv'
<1>0. u \in Users /\ TypeOK
  BY UsersAssumption DEF IInv
<1>1. /\ front' = [front EXCEPT ![u] = "other"]
      /\ table' = [table EXCEPT ![u] = <<>>]
      /\ UNCHANGED <<server, cache, worker, queue, history, lost, main, signed, listeners,
                     shared, fetches, talk, screens, left>>
  BY DEF LeaveList
<1>2. TypeOK'
  <2>1. <<>> \in Seq(Ids)
    BY NoElements
  <2>. QED  BY <1>0, <1>1, <2>1 DEF TypeOK, server, cache, history, talk
<1>3. NewestTold(u)'
  <2>1. SeesConvs(u)' = SeesConvs(u)
    BY <1>1 DEF SeesConvs, Stored, cache
  <2>. QED  BY <1>0, <1>1, <2>1, NewestKept
<1>. QED  BY <1>0, <1>1, <1>2, <1>3, AsideInv DEF server, cache, history, talk

\* Nothing that is under way is for the screen that comes in front.
LEMMA NextTalk ==
  ASSUME TypeOK, NEW u \in Users, screens' = [screens EXCEPT ![u]["talk"] = @ + 1]
  PROVE  /\ screens' \in [Users -> Numbers]
         /\ screens'[u]["talk"] = screens[u]["talk"] + 1
         /\ \A v \in Users \ {u} : screens'[v] = screens[v]
         /\ \A n \in Nat : \A c : Fits(u, n, c) => Fits(u, n, c)'
<1>1. screens \in [Users -> Numbers] /\ screens[u]["talk"] \in Nat
  BY Typed DEF TypeOK, Numbers
<1>2. screens' = [screens EXCEPT ![u] = [screens[u] EXCEPT !["talk"] = screens[u]["talk"] + 1]]
  OBVIOUS
<1>3. /\ [screens[u] EXCEPT !["talk"] = screens[u]["talk"] + 1] \in Numbers
      /\ [screens[u] EXCEPT !["talk"] = screens[u]["talk"] + 1]["talk"] = screens[u]["talk"] + 1
  BY <1>1 DEF Numbers, Kinds
<1>4. /\ screens' \in [Users -> Numbers]
      /\ screens'[u]["talk"] = screens[u]["talk"] + 1
      /\ \A v \in Users \ {u} : screens'[v] = screens[v]
  BY <1>1, <1>2, <1>3
<1>. QED  BY <1>1, <1>4 DEF Fits

LEMMA OpenTalkInv ==
  ASSUME IInv, NEW u \in Followed, NEW row, OpenTalk(u, row)
  PROVE  IInv'
<1>0. u \in Users /\ TypeOK /\ TalkSound(u)
  BY UsersAssumption DEF IInv
<1>1. PICK c : c = shared[u][row]
  OBVIOUS
<1>2. PICK t : t = Read(c, screens[u]["talk"] + 1)
  OBVIOUS
<1>3. /\ front' = [front EXCEPT ![u] = "talk"]
      /\ screens' = [screens EXCEPT ![u]["talk"] = @ + 1]
      /\ opened' = [opened EXCEPT ![u] = c]
      /\ shown' = [shown EXCEPT ![u] = {}]
      /\ Ask(u, <<t>>)
      /\ UNCHANGED <<server, cache, history, lost, main, list, readers, messages, left>>
  BY <1>1, <1>2 DEF OpenTalk
<1>4. c \in Ids
  <2>1. shared[u] \in Seq(Ids) /\ row \in DOMAIN shared[u]
    BY <1>0, Typed DEF OpenTalk
  <2>. QED  BY <1>1, <2>1, SeqFacts
<1>5. /\ screens' \in [Users -> Numbers]
      /\ screens'[u]["talk"] = screens[u]["talk"] + 1
      /\ \A v \in Users \ {u} : screens'[v] = screens[v]
      /\ \A n \in Nat : \A x : Fits(u, n, x) => Fits(u, n, x)'
  BY <1>0, <1>3, NextTalk
<1>6. t \in Tasks /\ t.op = "read" /\ t.conv = c /\ t.screen = screens[u]["talk"] + 1
  BY <1>0, <1>2, <1>4, Typed DEF Read, Tasks
<1>7. <<t>> \in Seq(Tasks) /\ Elements(<<t>>) = {t} /\ Led(<<t>>, {})
  BY <1>6, OneElement, LedOne
<1>8. /\ worker' \in [Users -> Seq(Tasks)] /\ queue' = queue
      /\ \A v \in Users \ {u} : worker'[v] = worker[v]
      /\ worker'[u] = worker[u] \o <<t>>
      /\ Elements(worker'[u]) = Elements(worker[u]) \cup Elements(<<t>>)
  BY <1>0, <1>3, <1>7, AskFacts
<1>9. /\ opened' \in [Users -> Ids \cup {None}] /\ opened'[u] = c
      /\ shown' \in [Users -> SUBSET Nat] /\ shown'[u] = {}
      /\ \A v \in Users \ {u} : opened'[v] = opened[v] /\ shown'[v] = shown[v]
  BY <1>0, <1>3, <1>4 DEF TypeOK
<1>10. /\ convs' = convs /\ lists' = lists /\ posted' = posted /\ sent' = sent
       /\ got' = got /\ known' = known /\ readers' = readers /\ listeners' = listeners
       /\ main' = main /\ shared' = shared
  BY <1>3 DEF server, cache, history, list
<1>11. /\ posted' \subseteq DOMAIN sent' /\ SentGrows /\ convs \subseteq convs'
       /\ \A v \in Users : lists'[v] \subseteq convs'
       /\ got'[u] \subseteq DOMAIN sent'
  BY <1>0, <1>10, QuietStep
<1>12. ListsLed(u)'
  BY <1>0, <1>7, <1>8, <1>10, AskLed
<1>13. TalkSound(u)'
  <2>1. TaskSound(u, t)'
    <3>1. Fits(u, t.screen, t.conv)'
      <4>1. screens'[u]["talk"] \in Nat
        BY <1>0, <1>5, Typed
      <4>. QED  BY <1>5, <1>6, <1>9, <4>1 DEF Fits
    <3>. QED  BY <1>6, <3>1 DEF TaskSound
  <2>. QED  BY <1>0, <1>5, <1>7, <1>8, <1>9, <1>10, <1>11, <2>1, TalkKept
<1>14. NewestTold(u)'
  <2>1. SeesConvs(u)' = SeesConvs(u)
    BY <1>8, <1>10 DEF SeesConvs, Stored
  <2>. QED  BY <1>0, <1>10, <2>1, NewestKept
<1>15. TypeOK'
  <2>1. screens' \in [Users -> [Kinds -> Nat]]
    BY <1>5 DEF Numbers
  <2>. QED  BY <1>0, <1>3, <1>8, <1>9, <2>1 DEF TypeOK, server, cache, history, list
<1>16. \A v \in Users \ {u} : Own(v)' = Own(v)
  BY <1>5, <1>8, <1>9, <1>10 DEF Own
<1>. QED  BY <1>0, <1>11, <1>12, <1>13, <1>14, <1>15, <1>16, StepOf

LEMMA LeaveTalkInv ==
  ASSUME IInv, NEW u \in Followed, LeaveTalk(u)
  PROVE  IInv'
<1>0. u \in Users /\ TypeOK /\ TalkSound(u)
  BY UsersAssumption DEF IInv
<1>1. /\ left' = [left EXCEPT !.fetches = @ - 1]
      /\ Fetch(u, 1, screens[u]["list"])
      /\ front' = [front EXCEPT ![u] = "list"]
      /\ screens' = [screens EXCEPT ![u]["talk"] = @ + 1]
      /\ opened' = [opened EXCEPT ![u] = None]
      /\ shown' = [shown EXCEPT ![u] = {}]
      /\ UNCHANGED <<server, cache, worker, queue, history, lost, main, signed, listeners,
                     shared, table, readers, messages>>
  BY DEF LeaveTalk
<1>2. /\ screens' \in [Users -> Numbers]
      /\ screens'[u]["talk"] = screens[u]["talk"] + 1
      /\ \A v \in Users \ {u} : screens'[v] = screens[v]
      /\ \A n \in Nat : \A x : Fits(u, n, x) => Fits(u, n, x)'
  BY <1>0, <1>1, NextTalk
<1>3. fetches' \in [Users -> Seq(Nat)] /\ left.fetches - 1 \in Nat
  BY <1>0, <1>1, Typed, FetchFacts
<1>4. /\ opened' \in [Users -> Ids \cup {None}]
      /\ shown' \in [Users -> SUBSET Nat] /\ shown'[u] = {}
      /\ \A v \in Users \ {u} : opened'[v] = opened[v] /\ shown'[v] = shown[v]
  BY <1>0, <1>1 DEF TypeOK
<1>5. /\ convs' = convs /\ lists' = lists /\ posted' = posted /\ sent' = sent
      /\ got' = got /\ known' = known /\ readers' = readers /\ listeners' = listeners
      /\ worker' = worker /\ queue' = queue /\ main' = main /\ shared' = shared
  BY <1>1 DEF server, cache, history
<1>6. /\ posted' \subseteq DOMAIN sent' /\ SentGrows /\ convs \subseteq convs'
      /\ \A v \in Users : lists'[v] \subseteq convs'
      /\ got'[u] \subseteq DOMAIN sent'
  BY <1>0, <1>5, QuietStep
<1>7. TalkSound(u)'
  BY <1>0, <1>2, <1>4, <1>5, <1>6, TalkKept
<1>8. NewestTold(u)'
  <2>1. SeesConvs(u)' = SeesConvs(u)
    BY <1>5 DEF SeesConvs, Stored
  <2>. QED  BY <1>0, <1>5, <2>1, NewestKept
<1>9. TypeOK'
  <2>1. screens' \in [Users -> [Kinds -> Nat]]
    BY <1>2 DEF Numbers
  <2>. QED  BY <1>0, <1>1, <1>3, <1>4, <2>1 DEF TypeOK, server, cache, history
<1>10. \A v \in Users \ {u} : Own(v)' = Own(v)
  BY <1>2, <1>4, <1>5 DEF Own
<1>. QED  BY <1>0, <1>5, <1>6, <1>7, <1>8, <1>9, <1>10, ListsKept, StepOf

\* What anyone writes goes behind what he has written before.
LEMMA AskWrites ==
  ASSUME IInv, NEW u \in Users, NEW t \in Seq(WriteTasks), Ask(u, t), Led(t, {}),
         convs' = convs, lists' = lists
  PROVE  /\ worker' \in [Users -> Seq(Tasks)] /\ queue' \in [Users -> Seq(WriteTasks)]
         /\ \A v \in Users \ {u} : worker'[v] = worker[v] /\ queue'[v] = queue[v]
         /\ Elements(worker'[u]) \subseteq Elements(worker[u]) \cup Elements(t)
         /\ Elements(queue'[u]) \subseteq Elements(queue[u]) \cup Elements(t)
         /\ u \in Followed => queue' = queue
         /\ ListsLed(u)'
<1>0. /\ TypeOK /\ ListsLed(u)
      /\ worker \in [Users -> Seq(Tasks)] /\ queue \in [Users -> Seq(WriteTasks)]
      /\ worker[u] \in Seq(Tasks) /\ queue[u] \in Seq(WriteTasks)
  BY Typed DEF IInv, TypeOK
<1>1. CASE u \in Followed
  <2>1. t \in Seq(Tasks)
    <3>1. WriteTasks \subseteq Tasks
      BY WriteTyped
    <3>. HIDE DEF WriteTasks, Tasks
    <3>. QED  BY <3>1
  <2>2. /\ worker' \in [Users -> Seq(Tasks)] /\ queue' = queue
        /\ \A v \in Users \ {u} : worker'[v] = worker[v]
        /\ worker'[u] = worker[u] \o t
        /\ Elements(worker'[u]) = Elements(worker[u]) \cup Elements(t)
    BY <1>0, <1>1, <2>1, AskFacts
  <2>3. ListsLed(u)'
    BY <1>0, <2>1, <2>2, AskLed
  <2>. QED  BY <1>0, <2>2, <2>3
<1>2. CASE u \notin Followed
  <2>1. queue' = [queue EXCEPT ![u] = queue[u] \o t] /\ worker' = worker
    BY <1>2 DEF Ask
  <2>2. /\ queue[u] \o t \in Seq(WriteTasks)
        /\ Elements(queue[u] \o t) = Elements(queue[u]) \cup Elements(t)
    BY <1>0, CatIndex, CatElements
  <2>3. /\ queue' \in [Users -> Seq(WriteTasks)] /\ queue'[u] = queue[u] \o t
        /\ \A v \in Users \ {u} : queue'[v] = queue[v]
    BY <1>0, <2>1, <2>2
  <2>4. Led(queue[u] \o t, convs)
    <3>1. Led(queue[u], convs) /\ Led(t, convs \cup ConvsOf(queue[u]))
      BY <1>0, LedMore DEF ListsLed
    <3>. HIDE DEF WriteTasks
    <3>. QED  BY <1>0, <3>1, LedCat
  <2>5. Led(worker[u], convs \cup StoredConvs(u)')
    <3>1. StoredConvs(u) \subseteq StoredConvs(u)'
      BY <2>2, <2>3 DEF StoredConvs, ConvsOf
    <3>2. Led(worker[u], convs \cup StoredConvs(u))
      BY <1>0 DEF ListsLed
    <3>3. convs \cup StoredConvs(u) \subseteq convs \cup StoredConvs(u)'
      BY <3>1
    <3>. QED  BY <3>2, <3>3, LedMore
  <2>6. ListsLed(u)'
    BY <1>0, <2>1, <2>3, <2>4, <2>5 DEF ListsLed, Led, LedBy
  <2>. QED  BY <1>0, <1>2, <2>1, <2>2, <2>3, <2>6
<1>. QED  BY <1>1, <1>2

\* The writes of someone whose screens are not followed tell no listener.
LEMMA NewestWrites ==
  ASSUME IInv, NEW u \in Users, listeners'[u] = listeners[u], main'[u] = main[u],
         shared'[u] = shared[u], known'[u] = known[u], u \in Followed => queue' = queue
  PROVE  NewestTold(u)'
<1>1. CASE u \in Followed
  <2>1. SeesConvs(u)' = SeesConvs(u)
    BY <1>1 DEF SeesConvs, Stored
  <2>. QED  BY <2>1, NewestKept
<1>2. CASE u \notin Followed
  <2>1. Len(listeners[u]) = 0
    BY <1>2 DEF IInv, NewestTold
  <2>2. Len(listeners'[u]) = 0
    BY <2>1
  <2>. QED  BY <2>2 DEF NewestTold
<1>. QED  BY <1>1, <1>2

LEMMA SendInv ==
  ASSUME IInv, NEW u \in Users, NEW c \in Ids, Send(u, c)
  PROVE  IInv'
<1>0. TypeOK /\ TalkSound(u)
  BY DEF IInv
<1>1. PICK w : w = Write("message", c, u, Len(sent) + 1)
  OBVIOUS
<1>2. /\ left.messages > 0 /\ left' = [left EXCEPT !.messages = @ - 1]
      /\ sent' = Append(sent, c)
      /\ Ask(u, <<w>>)
      /\ UNCHANGED <<server, cache, made, picked, lost, main, list, talk, place>>
  BY <1>1 DEF Send
<1>3. /\ sent \in Seq(Ids) /\ sent' \in Seq(Ids) /\ Len(sent) \in Nat
      /\ Len(sent) + 1 \in DOMAIN sent' /\ sent'[Len(sent) + 1] = c
      /\ \A m \in DOMAIN sent : m \in DOMAIN sent' /\ sent'[m] = sent[m]
  <2>1. sent \in Seq(Ids) /\ Len(sent) \in Nat
    BY <1>0 DEF TypeOK
  <2>. QED  BY <1>2, <2>1
<1>4. /\ w \in WriteTasks /\ w.op = "message" /\ w.conv = c /\ w.message = Len(sent) + 1
  BY <1>1, <1>3 DEF Write, WriteTasks
<1>5. <<w>> \in Seq(WriteTasks) /\ Elements(<<w>>) = {w} /\ Led(<<w>>, {})
  BY <1>4, OneElement, LedOne
<1>6. /\ convs' = convs /\ lists' = lists /\ posted' = posted
      /\ got' = got /\ known' = known /\ readers' = readers /\ listeners' = listeners
      /\ main' = main /\ shared' = shared /\ opened' = opened /\ shown' = shown
      /\ screens' = screens
  BY <1>2 DEF server, cache, list, talk, place
<1>7. /\ worker' \in [Users -> Seq(Tasks)] /\ queue' \in [Users -> Seq(WriteTasks)]
      /\ \A v \in Users \ {u} : worker'[v] = worker[v] /\ queue'[v] = queue[v]
      /\ Elements(worker'[u]) \subseteq Elements(worker[u]) \cup Elements(<<w>>)
      /\ Elements(queue'[u]) \subseteq Elements(queue[u]) \cup Elements(<<w>>)
      /\ u \in Followed => queue' = queue
      /\ ListsLed(u)'
  BY <1>2, <1>5, <1>6, AskWrites
<1>8. SentGrows
  BY <1>3 DEF SentGrows, Sent
<1>9. posted' \subseteq DOMAIN sent' /\ got'[u] \subseteq DOMAIN sent'
  BY <1>0, <1>3, <1>6 DEF IInv, TalkSound
<1>10. TalkSound(u)'
  <2>1. \A n \in Nat : \A x : Fits(u, n, x) => Fits(u, n, x)'
    BY <1>6 DEF Fits
  <2>2. \A m \in shown'[u] : Sent(m, opened[u])'
    BY <1>0, <1>6, <1>8 DEF TalkSound, Sent, SentGrows
  <2>3. Sent(w.message, w.conv)'
    BY <1>3, <1>4 DEF Sent
  <2>4. TaskSound(u, w)'
    BY <1>4, <2>3 DEF TaskSound
  <2>. QED  BY <1>5, <1>6, <1>7, <1>8, <1>9, <2>1, <2>2, <2>3, <2>4, TalkKept
<1>11. NewestTold(u)'
  BY <1>6, <1>7, NewestWrites
<1>12. TypeOK'
  <2>1. left' \in [old : SUBSET Ids, makes : Nat, messages : Nat, fetches : Nat, kills : Nat]
    <3>1. /\ left \in [old : SUBSET Ids, makes : Nat, messages : Nat, fetches : Nat,
                      kills : Nat]
          /\ left.messages \in Nat
      BY <1>0 DEF TypeOK
    <3>2. left.messages - 1 \in Nat
      BY <1>2, <3>1
    <3>. QED  BY <1>2, <3>1, <3>2
  <2>. QED  BY <1>0, <1>2, <1>3, <1>7, <2>1 DEF TypeOK, server, cache, list, talk, place
<1>13. \A v \in Users \ {u} : Own(v)' = Own(v)
  BY <1>6, <1>7 DEF Own
<1>14. convs \subseteq convs' /\ \A v \in Users : lists'[v] \subseteq convs'
  BY <1>6 DEF IInv, ListsLed
<1>. QED  BY <1>7, <1>8, <1>9, <1>10, <1>11, <1>12, <1>13, <1>14, StepOf

LEMMA Division ==
  ASSUME NEW n \in Nat, NEW k \in 1 .. n * (n + 1)
  PROVE  /\ (k - 1) \div (n + 1) + 1 \in 1 .. n
         /\ (k - 1) % (n + 1) # 0 => (k - 1) % (n + 1) \in 1 .. n
<1>1. k - 1 \in Nat /\ n + 1 \in Nat \ {0} /\ k - 1 < n * (n + 1)
  OBVIOUS
<1>2. (k - 1) \div (n + 1) \in Nat /\ (k - 1) % (n + 1) \in 0 .. n
  BY <1>1
<1>3. (k - 1) \div (n + 1) < n
  BY <1>1
<1>. QED  BY <1>2, <1>3

\* The writes of one creation are all of the conversation, and it comes first.
LEMMA ConvFirstFacts ==
  ASSUME NEW c \in Ids, NEW s \in Seq(Users)
  PROVE  /\ ConvFirst(c, s) \in Seq(WriteTasks)
         /\ \A w \in Elements(ConvFirst(c, s)) :
              /\ w.op \in {"conv", "member", "list"} /\ w.conv = c
              /\ w.op # "conv" => w.user \in Elements(s)
         /\ \A ops : "conv" \notin ops => LedBy(ops, ConvFirst(c, s), {})
         /\ Led(ConvFirst(c, s), {})
<1>. DEFINE n == Len(s)
            first == Write("conv", c, "none", 0)
            rest == PerMember(c, s)
<1>1. n \in Nat /\ DOMAIN s = 1 .. n /\ \A i \in 1 .. n : s[i] \in Users /\ s[i] \in Elements(s)
  BY SeqFacts DEF Elements
<1>2. first \in WriteTasks /\ first.op = "conv" /\ first.conv = c
  BY DEF Write, WriteTasks
<1>3. n * (n + 1) \in Nat
  BY <1>1
<1>4. \A v \in Users : \A op \in {"member", "list"} :
        Write(op, c, v, 0) \in WriteTasks /\ Write(op, c, v, 0).op = op
        /\ Write(op, c, v, 0).conv = c /\ Write(op, c, v, 0).user = v
  BY DEF Write, WriteTasks
<1>5. \A k \in 1 .. n * (n + 1) :
        /\ rest[k] \in WriteTasks /\ rest[k].op \in {"member", "list"} /\ rest[k].conv = c
        /\ rest[k].user \in Elements(s)
  <2>. TAKE k \in 1 .. n * (n + 1)
  <2>. DEFINE i == (k - 1) \div (n + 1)
              j == (k - 1) % (n + 1)
  <2>1. rest[k] = IF j = 0 THEN Write("member", c, s[i + 1], 0) ELSE Write("list", c, s[j], 0)
    BY DEF PerMember
  <2>2. i + 1 \in 1 .. n /\ (j # 0 => j \in 1 .. n)
    <3>. HIDE DEF n
    <3>. QED  BY <1>1, Division
  <2>. HIDE DEF i, j, rest, n
  <2>3. CASE j = 0
    BY <1>1, <1>4, <2>1, <2>2, <2>3
  <2>4. CASE j # 0
    BY <1>1, <1>4, <2>1, <2>2, <2>4
  <2>. QED  BY <2>3, <2>4
<1>6. rest \in [1 .. n * (n + 1) -> WriteTasks]
  BY <1>5 DEF PerMember
<1>. HIDE DEF n, first, rest
<1>7. rest \in Seq(WriteTasks) /\ DOMAIN rest = 1 .. n * (n + 1)
  BY <1>3, <1>6, Stacked
<1>8. /\ <<first>> \in Seq(WriteTasks) /\ Elements(<<first>>) = {first}
      /\ ConvsOf(<<first>>) = {c}
      /\ \A ops : "conv" \notin ops => LedBy(ops, <<first>>, {})
  <2>1. <<first>> \in Seq(WriteTasks) /\ Elements(<<first>>) = {first}
    BY <1>2, OneElement
  <2>2. \A ops : "conv" \notin ops => LedBy(ops, <<first>>, {})
    BY <1>2, OneElement DEF LedBy
  <2>. QED  BY <1>2, <2>1, <2>2 DEF ConvsOf
<1>9. ConvFirst(c, s) = <<first>> \o rest
  BY DEF ConvFirst, first, rest
<1>10. /\ <<first>> \o rest \in Seq(WriteTasks)
       /\ Elements(<<first>> \o rest) = Elements(<<first>>) \cup Elements(rest)
  <2>1. PICK s1 \in Seq(WriteTasks) : s1 = <<first>>
    BY <1>8
  <2>2. s1 \o rest \in Seq(WriteTasks)
    BY <1>7
  <2>3. Elements(s1 \o rest) = Elements(s1) \cup Elements(rest)
    BY <1>7, CatElements
  <2>. QED  BY <2>1, <2>2, <2>3
<1>11. \A w \in Elements(rest) :
         w.op \in {"member", "list"} /\ w.conv = c /\ w.user \in Elements(s)
  BY <1>5, <1>7 DEF Elements
<1>12. \A ops : LedBy(ops, rest, {} \cup ConvsOf(<<first>>))
  BY <1>5, <1>7, <1>8 DEF LedBy
<1>13. ASSUME NEW ops, "conv" \notin ops  PROVE LedBy(ops, <<first>> \o rest, {})
  <2>. HIDE DEF WriteTasks
  <2>1. LedBy(ops, <<first>>, {})
    BY <1>8, <1>13
  <2>. QED  BY <1>7, <1>8, <1>12, <2>1, LedByCat
<1>14. Led(ConvFirst(c, s), {})
  BY <1>9, <1>13 DEF Led
<1>15. \A w \in Elements(ConvFirst(c, s)) :
         /\ w.op \in {"conv", "member", "list"} /\ w.conv = c
         /\ w.op # "conv" => w.user \in Elements(s)
  BY <1>2, <1>8, <1>9, <1>10, <1>11
<1>. QED  BY <1>9, <1>10, <1>13, <1>14, <1>15

LEMMA CreateInv ==
  ASSUME IInv, NEW u \in Users, NEW c \in Ids, NEW s \in Seq(Users), Create(u, c, s)
  PROVE  IInv'
<1>0. TypeOK /\ TalkSound(u)
  BY DEF IInv
<1>1. PICK t \in Seq(WriteTasks) :
        /\ t = ConvFirst(c, s) /\ Led(t, {})
        /\ \A w \in Elements(t) : w.op \in {"conv", "member", "list"}
  BY ConvFirstFacts
<1>2. /\ left.makes > 0 /\ made' = made \cup {c}
      /\ picked' = [picked EXCEPT ![c] = Elements(s)]
      /\ Ask(u, t)
      /\ UNCHANGED <<server, cache, sent, lost, main, signed, listeners, shared,
                     table, talk, place>>
  BY <1>1 DEF Create
<1>3. /\ convs' = convs /\ lists' = lists /\ posted' = posted /\ sent' = sent
      /\ got' = got /\ known' = known /\ readers' = readers /\ listeners' = listeners
      /\ main' = main /\ shared' = shared /\ opened' = opened /\ shown' = shown
      /\ screens' = screens
  BY <1>2 DEF server, cache, talk, place
<1>4. /\ worker' \in [Users -> Seq(Tasks)] /\ queue' \in [Users -> Seq(WriteTasks)]
      /\ \A v \in Users \ {u} : worker'[v] = worker[v] /\ queue'[v] = queue[v]
      /\ Elements(worker'[u]) \subseteq Elements(worker[u]) \cup Elements(t)
      /\ Elements(queue'[u]) \subseteq Elements(queue[u]) \cup Elements(t)
      /\ u \in Followed => queue' = queue
      /\ ListsLed(u)'
  BY <1>1, <1>2, <1>3, AskWrites
<1>5. /\ posted' \subseteq DOMAIN sent' /\ SentGrows /\ convs \subseteq convs'
      /\ \A v \in Users : lists'[v] \subseteq convs'
      /\ got'[u] \subseteq DOMAIN sent'
  BY <1>0, <1>3, QuietStep
<1>6. TalkSound(u)'
  <2>1. \A n \in Nat : \A x : Fits(u, n, x) => Fits(u, n, x)'
    BY <1>3 DEF Fits
  <2>2. \A m \in shown'[u] : Sent(m, opened[u])'
    BY <1>0, <1>3 DEF TalkSound, Sent
  <2>3. \A w \in Elements(t) : TaskSound(u, w)'
    BY <1>1 DEF TaskSound
  <2>. QED  BY <1>1, <1>3, <1>4, <1>5, <2>1, <2>2, <2>3, TalkKept
<1>7. NewestTold(u)'
  BY <1>3, <1>4, NewestWrites
<1>8. fetches' \in [Users -> Seq(Nat)]
  /\ left' \in [old : SUBSET Ids, makes : Nat, messages : Nat, fetches : Nat, kills : Nat]
  <2>1. /\ left \in [old : SUBSET Ids, makes : Nat, messages : Nat, fetches : Nat, kills : Nat]
        /\ left.makes \in Nat /\ left.fetches \in Nat /\ fetches \in [Users -> Seq(Nat)]
    BY <1>0 DEF TypeOK
  <2>2. left.makes - 1 \in Nat
    BY <1>2, <2>1
  <2>3. CASE u \in Followed
    <3>1. /\ Fetch(u, 1, screens[u]["list"])
          /\ left' = [left EXCEPT !.makes = @ - 1, !.fetches = @ - 1]
      BY <2>3 DEF Create
    <3>2. fetches' \in [Users -> Seq(Nat)] /\ left.fetches - 1 \in Nat
      BY <1>0, <3>1, Typed, FetchFacts
    <3>. QED  BY <2>1, <2>2, <3>1, <3>2
  <2>4. CASE u \notin Followed
    <3>1. left' = [left EXCEPT !.makes = @ - 1] /\ fetches' = fetches
      BY <2>4 DEF Create
    <3>. QED  BY <2>1, <2>2, <3>1
  <2>. QED  BY <2>3, <2>4
<1>9. TypeOK'
  <2>1. Elements(s) \subseteq Users
    BY ElementType
  <2>2. picked' \in [Ids -> SUBSET Users] /\ made' \subseteq Ids
    BY <1>0, <1>2, <2>1 DEF TypeOK
  <2>. QED  BY <1>0, <1>2, <1>4, <1>8, <2>2 DEF TypeOK, server, cache, talk, place
<1>10. \A v \in Users \ {u} : Own(v)' = Own(v)
  BY <1>3, <1>4 DEF Own
<1>. QED  BY <1>4, <1>5, <1>6, <1>7, <1>9, <1>10, StepOf

\* Whoever is selected is one of the users, in any order.
LEMMA SelectedType ==
  ASSUME NEW u \in Users, NEW others \in SUBSET (Users \ {u}),
         NEW s \in IF others = {} THEN {<<>>} ELSE Selected(u, others)
  PROVE  s \in Seq(Users)
<1>1. CASE others = {}
  BY <1>1, NoElements
<1>2. CASE others # {}
  <2>1. IsFiniteSet(others)
    BY UsersAssumption, FS_Subset
  <2>2. Cardinality(others) + 1 \in Nat
    BY <2>1, FS_CardinalityType
  <2>3. s \in [1 .. Cardinality(others) + 1 -> others \cup {u}]
    BY <1>2 DEF Selected
  <2>4. s \in Seq(others \cup {u})
    BY <2>2, <2>3, Stacked
  <2>. QED  BY <2>4
<1>. QED  BY <1>1, <1>2

LEMMA RestartInv ==
  ASSUME IInv, NEW u \in Followed, Restart(u)
  PROVE  IInv'
<1>0. u \in Users /\ TypeOK /\ TalkSound(u) /\ ListsLed(u)
  BY UsersAssumption DEF IInv
<1>1. /\ left.kills > 0 /\ left' = [left EXCEPT !.kills = @ - 1]
      /\ lost' = lost \cup {t \in Elements(worker[u]) : IsWrite(t)}
      /\ worker' = [worker EXCEPT ![u] = <<>>]
      /\ main' = [main EXCEPT ![u] = <<>>]
      /\ fetches' = [fetches EXCEPT ![u] = <<>>]
      /\ signed' = [signed EXCEPT ![u] = FALSE]
      /\ listeners' = [listeners EXCEPT ![u] = <<>>]
      /\ readers' = [readers EXCEPT ![u] = <<>>]
      /\ shared' = [shared EXCEPT ![u] = <<>>]
      /\ messages' = [messages EXCEPT ![u] = {}]
      /\ front' = [front EXCEPT ![u] = "other"]
      /\ screens' = [screens EXCEPT ![u] = [k \in Kinds |-> 0]]
      /\ table' = [table EXCEPT ![u] = <<>>]
      /\ opened' = [opened EXCEPT ![u] = None]
      /\ shown' = [shown EXCEPT ![u] = {}]
      /\ convs' = convs /\ members' = members /\ lists' = lists /\ posted' = posted
      /\ known' = known /\ heard' = heard /\ got' = got /\ queue' = queue
      /\ made' = made /\ picked' = picked /\ sent' = sent
  BY DEF Restart, server, cache, history
<1>2. /\ worker'[u] = <<>> /\ main'[u] = <<>> /\ listeners'[u] = <<>> /\ readers'[u] = <<>>
      /\ shown'[u] = {}
      /\ \A v \in Users \ {u} :
           /\ worker'[v] = worker[v] /\ main'[v] = main[v] /\ listeners'[v] = listeners[v]
           /\ readers'[v] = readers[v] /\ shared'[v] = shared[v] /\ screens'[v] = screens[v]
           /\ opened'[v] = opened[v] /\ shown'[v] = shown[v]
  BY <1>0, <1>1 DEF TypeOK
<1>3. TypeOK'
  <2>1. \A S : <<>> \in Seq(S)
    BY NoElements
  <2>2. [k \in Kinds |-> 0] \in [Kinds -> Nat]
    OBVIOUS
  <2>3. lost' \subseteq WriteTasks
    <3>1. Elements(worker[u]) \subseteq Tasks /\ lost \subseteq WriteTasks
      BY <1>0, Typed, ElementType DEF TypeOK
    <3>2. {t \in Elements(worker[u]) : IsWrite(t)} \subseteq WriteTasks
      BY <3>1, TaskTyped DEF IsWrite
    <3>. QED  BY <1>1, <3>1, <3>2
  <2>4. left' \in [old : SUBSET Ids, makes : Nat, messages : Nat, fetches : Nat, kills : Nat]
    <3>1. /\ left \in [old : SUBSET Ids, makes : Nat, messages : Nat, fetches : Nat,
                       kills : Nat]
          /\ left.kills \in Nat
      BY <1>0 DEF TypeOK
    <3>2. left.kills - 1 \in Nat
      BY <1>1, <3>1
    <3>. QED  BY <1>1, <3>1, <3>2
  <2>. QED  BY <1>0, <1>1, <2>1, <2>2, <2>3, <2>4 DEF TypeOK
<1>4. /\ posted' \subseteq DOMAIN sent' /\ SentGrows /\ convs \subseteq convs'
      /\ \A v \in Users : lists'[v] \subseteq convs'
      /\ got'[u] \subseteq DOMAIN sent'
  BY <1>0, <1>1, QuietStep
<1>5. ListsLed(u)'
  BY <1>0, <1>1, <1>2 DEF ListsLed, Led, LedBy, StoredConvs, ConvsOf
<1>6. TalkSound(u)'
  <2>1. \A w \in Elements(queue'[u]) : w.op = "message" => Sent(w.message, w.conv)'
    BY <1>0, <1>1 DEF TalkSound, Sent
  <2>2. Elements(<<>>) = {}
    BY NoElements
  <2>. QED  BY <1>2, <1>4, <2>1, <2>2 DEF TalkSound
<1>7. NewestTold(u)'
  BY <1>0, <1>2 DEF NewestTold
<1>8. \A v \in Users \ {u} : Own(v)' = Own(v)
  BY <1>1, <1>2 DEF Own
<1>. QED  BY <1>0, <1>3, <1>4, <1>5, <1>6, <1>7, <1>8, StepOf

----------------------------------------------------------------------------
(* Each step keeps the invariant.                                          *)

LEMMA InitInv == Init => IInv
<1>. SUFFICES ASSUME Init  PROVE IInv
  OBVIOUS
<1>1. /\ left \in [old : SUBSET Ids, makes : Nat, messages : Nat, fetches : Nat, kills : Nat]
      /\ left.old \in SUBSET Ids
  BY BudgetsAssumption DEF Init
<1>2. \A S : <<>> \in Seq(S) /\ Elements(<<>>) = {}
  BY NoElements
<1>3. TypeOK
  BY <1>1, <1>2 DEF Init, TypeOK
<1>4. ASSUME NEW u \in Users
      PROVE  ListsLed(u) /\ TalkSound(u) /\ NewestTold(u)
  <2>1. /\ queue[u] = <<>> /\ worker[u] = <<>> /\ listeners[u] = <<>> /\ readers[u] = <<>>
        /\ main[u] = <<>> /\ shown[u] = {} /\ got[u] = {} /\ lists[u] = convs
    BY DEF Init
  <2>2. ListsLed(u)
    BY <2>1 DEF ListsLed, Led, LedBy
  <2>3. TalkSound(u)
    BY <1>2, <2>1 DEF TalkSound
  <2>4. NewestTold(u)
    BY <2>1 DEF NewestTold
  <2>. QED  BY <2>2, <2>3, <2>4
<1>. QED  BY <1>3, <1>4 DEF Init, IInv

LEMMA NextInv ==
  ASSUME IInv, [Next]_vars
  PROVE  IInv'
<1>1. ASSUME NEW u \in Users, Serve(u)  PROVE IInv'
  BY <1>1, ServeInv
<1>2. ASSUME NEW u \in Users, NEW c \in Ids, Send(u, c)  PROVE IInv'
  BY <1>2, SendInv
<1>3. ASSUME NEW u \in Users, NEW c \in Ids, NEW others \in SUBSET (Users \ {u}),
             NEW s \in IF others = {} THEN {<<>>} ELSE Selected(u, others), Create(u, c, s)
      PROVE  IInv'
  BY <1>3, SelectedType, CreateInv
<1>4. ASSUME NEW u \in Followed, Work(u)  PROVE IInv'
  BY <1>4, StoreWriteInv, AddListenerInv, AddReaderInv DEF Work
<1>5. ASSUME NEW u \in Followed, RunBlock(u)  PROVE IInv'
  BY <1>5, UserFetchedInv, ShowListInv, ReloadTableInv, ShowMessagesInv DEF RunBlock
<1>6. ASSUME NEW u \in Followed,
             Answer(u) \/ HearConvs(u) \/ HearList(u) \/ \E c \in Ids : HearMessages(u, c)
      PROVE  IInv'
  BY <1>6, AnswerInv, HearConvsInv, HearListInv, HearMessagesInv
<1>7. ASSUME NEW u \in Followed, Visit(u)  PROVE IInv'
  BY <1>7, OpenListInv, LeaveListInv, OpenTalkInv, LeaveTalkInv DEF Visit
<1>8. ASSUME NEW u \in Followed, Kill(u) \/ CrashOnRow(u)  PROVE IInv'
  BY <1>8, RestartInv DEF Kill, CrashOnRow
<1>9. CASE UNCHANGED vars
  <2>1. TypeOK'
    BY <1>9 DEF IInv, TypeOK, vars, server, cache, history, list, talk, place
  <2>2. SentGrows /\ \A u \in Users : lists'[u] \subseteq convs'
    BY <1>9 DEF vars, server, history, SentGrows, Sent, IInv, ListsLed
  <2>3. \A u \in Users : Own(u)' = Own(u)
    BY <1>9 DEF vars, server, cache, list, talk, place, Own
  <2>4. convs \subseteq convs' /\ posted' \subseteq DOMAIN sent'
    BY <1>9 DEF vars, server, history, IInv
  <2>. QED  BY <2>1, <2>2, <2>3, <2>4, OthersKept DEF IInv
<1>. QED  BY <1>1, <1>2, <1>3, <1>4, <1>5, <1>6, <1>7, <1>8, <1>9 DEF Next

----------------------------------------------------------------------------
(* Theorems.                                                               *)

\* Every variable keeps to its type, the arrays of the screens among them, which are
\* sorted by the query that fills them (createAndSaveConversation, saveMessage and
\* the fetches of ConversationController and MessageController).
THEOREM TypeCorrect == Spec => []TypeOK
<1>1. IInv => TypeOK
  BY DEF IInv
<1>. QED  BY <1>1, InitInv, NextInv, PTL DEF Spec

\* Whatever user lists a conversation, it exists, although the writes of one creation
\* are separate and an app may be ended between any two of them
\* (createAndSaveConversation writes the document first).
THEOREM ConversationFirst == Spec => []ListedExists
<1>1. IInv => ListedExists
  BY DEF IInv, ListsLed, ListedExists
<1>. QED  BY <1>1, InitInv, NextInv, PTL DEF Spec

\* However many listeners of earlier visits are left, the shared array ends up as what
\* the latest of them keeps of what the device sees (fetchConversationsFor).
THEOREM LatestListenerWins == Spec => []NewestWins
<1>1. IInv => NewestWins
  BY DEF IInv, NewestTold, NewestWins, NoLists
<1>. QED  BY <1>1, InitInv, NextInv, PTL DEF Spec

\* A message screen shows messages of its own conversation only, though the listeners
\* of all conversations ever opened fill one array (fetchMessages).
THEOREM OnlyOwnMessages == Spec => []OwnMessages
<1>1. IInv => OwnMessages
  BY DEF IInv, TalkSound, Sent, OwnMessages
<1>. QED  BY <1>1, InitInv, NextInv, PTL DEF Spec

----------------------------------------------------------------------------
(* No write is dropped on its way.                                         *)

OnWay(w) == \E u \in Users : w \in Elements(worker[u]) \cup Elements(queue[u])

\* What the server has taken stays, and so does what was lost.
Grown ==
  /\ convs \subseteq convs' /\ posted \subseteq posted' /\ lost \subseteq lost'
  /\ \A c \in Ids : members[c] \subseteq members'[c]
  /\ \A u \in Users : lists[u] \subseteq lists'[u]

\* What was asked of Firestore still is, whether stored or not.
TasksKept ==
  \A u \in Users : /\ Elements(worker[u]) \subseteq Elements(worker'[u])
                   /\ Elements(queue[u]) \subseteq Elements(queue'[u])

LEMMA AccountedMore ==
  ASSUME NEW w \in WriteTasks, Accounted(w), Grown, OnWay(w) => Accounted(w)'
  PROVE  Accounted(w)'
<1>1. w.conv \in Ids /\ (w.op # "conv" => w.user \in Users)
  BY WriteTyped
<1>. QED  BY <1>1 DEF Accounted, Grown, OnWay

LEMMA AccountedSame ==
  ASSUME NEW w \in WriteTasks, Accounted(w), UNCHANGED <<server, lost>>, TasksKept
  PROVE  Accounted(w)'
<1>1. Grown
  BY DEF Grown, server
<1>2. OnWay(w) => Accounted(w)'
  BY DEF OnWay, TasksKept, Accounted
<1>. QED  BY <1>1, <1>2, AccountedMore

LEMMA QuietTasks ==
  ASSUME UNCHANGED <<worker, queue>>
  PROVE  TasksKept
BY DEF TasksKept

\* What is asked is on its way at once.
LEMMA AskKeeps ==
  ASSUME TypeOK, NEW u \in Users, NEW t,
         t \in Seq(WriteTasks) \/ (u \in Followed /\ t \in Seq(Tasks)), Ask(u, t)
  PROVE  /\ TasksKept
         /\ \A w \in Elements(t) : w \in Elements(worker'[u]) \cup Elements(queue'[u])
<1>1. worker[u] \in Seq(Tasks) /\ queue[u] \in Seq(WriteTasks)
  BY Typed
<1>2. CASE u \in Followed
  <2>1. t \in Seq(Tasks)
    <3>1. WriteTasks \subseteq Tasks
      BY DEF Tasks
    <3>. QED  BY <1>2, <3>1
  <2>2. worker' = [worker EXCEPT ![u] = worker[u] \o t] /\ queue' = queue
    BY <1>2 DEF Ask
  <2>3. worker'[u] = worker[u] \o t /\ \A v \in Users \ {u} : worker'[v] = worker[v]
    BY <2>2 DEF TypeOK
  <2>4. Elements(worker[u] \o t) = Elements(worker[u]) \cup Elements(t)
    BY <1>1, <2>1, CatElements
  <2>. QED  BY <2>2, <2>3, <2>4 DEF TasksKept
<1>3. CASE u \notin Followed
  <2>1. t \in Seq(WriteTasks)
    BY <1>3
  <2>2. queue' = [queue EXCEPT ![u] = queue[u] \o t] /\ worker' = worker
    BY <1>3 DEF Ask
  <2>3. queue'[u] = queue[u] \o t /\ \A v \in Users \ {u} : queue'[v] = queue[v]
    BY <2>2 DEF TypeOK
  <2>4. Elements(queue[u] \o t) = Elements(queue[u]) \cup Elements(t)
    BY <1>1, <2>1, CatElements
  <2>. QED  BY <2>2, <2>3, <2>4 DEF TasksKept
<1>. QED  BY <1>2, <1>3

LEMMA TakesElements ==
  ASSUME IInv, NEW u \in Users, NEW op, Takes(u, op), NEW w, OnWay(w)
  PROVE  \/ w = Task(u) /\ w.op = op
         \/ \E v \in Users : w \in Elements(worker'[v]) \cup Elements(queue[v])
<1>1. PICK v \in Users : w \in Elements(worker[v]) \cup Elements(queue[v])
  BY DEF OnWay
<1>2. /\ \A x \in Users \ {u} : worker'[x] = worker[x]
      /\ worker[u] # <<>> /\ worker[u] \in Seq(Tasks) /\ worker'[u] = Tail(worker[u])
      /\ Task(u) = Head(worker[u]) /\ Task(u).op = op
  BY TakesFacts
<1>3. Elements(worker[u]) = {Head(worker[u])} \cup Elements(Tail(worker[u]))
  BY <1>2, TailElements
<1>4. CASE v = u /\ w \in Elements(worker[u])
  BY <1>2, <1>3, <1>4
<1>5. CASE v # u \/ w \in Elements(queue[v])
  BY <1>1, <1>2, <1>5
<1>. QED  BY <1>1, <1>4, <1>5

\* A write the thread takes up is stored.
LEMMA StoreKeeps ==
  ASSUME IInv, NEW u \in Users, StoreWrite(u), NEW w \in WriteTasks, Accounted(w)
  PROVE  Accounted(w)'
<1>1. PICK op : Takes(u, op)
  BY DEF StoreWrite
<1>2. PICK t : t = Task(u)
  OBVIOUS
<1>3. queue' = [queue EXCEPT ![u] = Append(queue[u], t)] /\ UNCHANGED <<server, lost>>
  BY <1>2 DEF StoreWrite
<1>4. t \in WriteTasks /\ queue[u] \in Seq(WriteTasks) /\ TypeOK
  <2>1. TypeOK /\ t \in Tasks
    BY <1>1, <1>2, TakesFacts DEF IInv
  <2>2. t.op \in {"member", "list", "conv", "message"}
    BY <1>2 DEF StoreWrite, Takes
  <2>. QED  BY <2>1, <2>2, TaskTyped, Typed
<1>5. Elements(Append(queue[u], t)) = Elements(queue[u]) \cup {t}
  <2>1. Append(queue[u], t) = queue[u] \o <<t>>
    BY <1>4, AppendIsCat
  <2>2. <<t>> \in Seq(WriteTasks) /\ Elements(<<t>>) = {t}
    BY <1>4, OneElement
  <2>3. Elements(queue[u] \o <<t>>) = Elements(queue[u]) \cup Elements(<<t>>)
    BY <1>4, <2>2, CatElements
  <2>. QED  BY <2>1, <2>2, <2>3
<1>6. \A v \in Users : IF v = u THEN Elements(queue'[v]) = Elements(queue[v]) \cup {t}
                                ELSE queue'[v] = queue[v]
  BY <1>3, <1>4, <1>5 DEF TypeOK
<1>7. OnWay(w) => Accounted(w)'
  <2>. SUFFICES ASSUME OnWay(w)  PROVE Accounted(w)'
    OBVIOUS
  <2>1. CASE w = t
    BY <1>6, <2>1 DEF Accounted
  <2>2. ASSUME NEW v \in Users, w \in Elements(worker'[v]) \cup Elements(queue[v])
        PROVE  Accounted(w)'
    <3>1. w \in Elements(worker'[v]) \cup Elements(queue'[v])
      BY <1>6, <2>2
    <3>. QED  BY <3>1 DEF Accounted
  <2>. QED  BY <1>1, <1>2, <2>1, <2>2, TakesElements
<1>8. Grown
  BY <1>3 DEF Grown, server
<1>. QED  BY <1>7, <1>8, AccountedMore

\* A listener or a reader is no write.
LEMMA AddKeeps ==
  ASSUME IInv, NEW u \in Users, AddListener(u) \/ AddReader(u),
         NEW w \in WriteTasks, Accounted(w)
  PROVE  Accounted(w)'
<1>1. PICK op \in {"listen", "read"} : Takes(u, op)
  BY DEF AddListener, AddReader
<1>2. queue' = queue /\ UNCHANGED <<server, lost>>
  BY DEF AddListener, AddReader
<1>3. OnWay(w) => Accounted(w)'
  <2>. SUFFICES ASSUME OnWay(w)  PROVE Accounted(w)'
    OBVIOUS
  <2>1. ~(w.op = op)
    BY WriteTyped DEF IsWrite
  <2>2. PICK v \in Users : w \in Elements(worker'[v]) \cup Elements(queue[v])
    BY <1>1, <2>1, TakesElements
  <2>. QED  BY <1>2, <2>2 DEF Accounted
<1>4. Grown
  BY <1>2 DEF Grown, server
<1>. QED  BY <1>3, <1>4, AccountedMore

\* What leaves a queue has taken effect.
LEMMA ServeKeeps ==
  ASSUME IInv, NEW u \in Users, Serve(u), NEW w \in WriteTasks, Accounted(w)
  PROVE  Accounted(w)'
<1>1. TypeOK /\ queue[u] \in Seq(WriteTasks) /\ queue[u] # <<>>
  BY Typed DEF IInv, Serve
<1>2. PICK h : h = Head(queue[u])
  OBVIOUS
<1>3. \A op : Taken(u, op) = IF h.op = op THEN {h} ELSE {}
  BY <1>2 DEF Taken
<1>4. Grown
  <2>1. \A c \in Ids : members[c] \subseteq members'[c]
    BY DEF Serve
  <2>2. \A v \in Users : lists[v] \subseteq lists'[v]
    BY DEF Serve
  <2>. QED  BY <2>1, <2>2 DEF Grown, Serve
<1>5. ASSUME w = h  PROVE Accounted(w)'
  <2>1. w.op \in {"conv", "member", "list", "message"} /\ w.conv \in Ids
        /\ (w.op # "conv" => w.user \in Users)
    BY WriteTyped
  <2>2. CASE w.op = "conv"
    <3>1. Taken(u, "conv") = {w}
      BY <1>3, <1>5, <2>2
    <3>2. w.conv \in convs'
      BY <3>1 DEF Serve
    <3>. QED  BY <2>2, <3>2 DEF Accounted
  <2>3. CASE w.op = "member"
    <3>1. Taken(u, "member") = {w}
      BY <1>3, <1>5, <2>3
    <3>2. members' = [c \in Ids |-> members[c] \cup
                        {v.user : v \in {x \in Taken(u, "member") : x.conv = c}}]
      BY DEF Serve
    <3>3. w.user \in members'[w.conv]
      BY <2>1, <3>1, <3>2
    <3>. QED  BY <2>3, <3>3 DEF Accounted
  <2>4. CASE w.op = "list"
    <3>1. Taken(u, "list") = {w} /\ w.user \in Users
      BY <1>3, <1>5, <2>1, <2>4
    <3>2. lists' = [v \in Users |-> lists[v] \cup
                      {x.conv : x \in {y \in Taken(u, "list") : y.user = v}}]
      BY DEF Serve
    <3>3. w.conv \in lists'[w.user]
      BY <3>1, <3>2
    <3>. QED  BY <2>4, <3>3 DEF Accounted
  <2>5. CASE w.op = "message"
    <3>1. Taken(u, "message") = {w}
      BY <1>3, <1>5, <2>5
    <3>2. w.message \in posted'
      BY <3>1 DEF Serve
    <3>. QED  BY <2>5, <3>2 DEF Accounted
  <2>. QED  BY <2>1, <2>2, <2>3, <2>4, <2>5
<1>6. /\ queue'[u] = Tail(queue[u]) /\ worker' = worker
      /\ \A v \in Users \ {u} : queue'[v] = queue[v]
  BY <1>1 DEF Serve, TypeOK
<1>7. Elements(queue[u]) = {h} \cup Elements(Tail(queue[u]))
  BY <1>1, <1>2, TailElements
<1>8. ASSUME OnWay(w), w # h  PROVE Accounted(w)'
  <2>1. PICK v \in Users : w \in Elements(worker[v]) \cup Elements(queue[v])
    BY <1>8 DEF OnWay
  <2>2. w \in Elements(worker'[v]) \cup Elements(queue'[v])
    BY <1>6, <1>7, <1>8, <2>1
  <2>. QED  BY <2>2 DEF Accounted
<1>. QED  BY <1>4, <1>5, <1>8, AccountedMore

\* An app that is ended takes with it only what it had not stored, and that is known.
LEMMA RestartKeeps ==
  ASSUME IInv, NEW u \in Users, Restart(u), NEW w \in WriteTasks, Accounted(w)
  PROVE  Accounted(w)'
<1>1. /\ worker' = [worker EXCEPT ![u] = <<>>] /\ queue' = queue /\ UNCHANGED server
      /\ lost' = lost \cup {t \in Elements(worker[u]) : IsWrite(t)}
  BY DEF Restart
<1>2. \A v \in Users \ {u} : worker'[v] = worker[v]
  BY <1>1 DEF IInv, TypeOK
<1>3. IsWrite(w)
  BY WriteTyped
<1>4. OnWay(w) => Accounted(w)'
  BY <1>1, <1>2, <1>3 DEF OnWay, Accounted
<1>5. Grown
  BY <1>1 DEF Grown, server
<1>. QED  BY <1>4, <1>5, AccountedMore

LEMMA AllKept ==
  ASSUME IInv, [Next]_vars, NEW w \in WriteTasks, Accounted(w)
  PROVE  Accounted(w)'
<1>0. TypeOK /\ Followed \subseteq Users
  BY UsersAssumption DEF IInv
<1>1. ASSUME UNCHANGED <<server, lost>>, TasksKept  PROVE Accounted(w)'
  BY <1>1, AccountedSame
<1>2. ASSUME NEW u \in Users, NEW c \in Ids, Send(u, c)  PROVE Accounted(w)'
  <2>1. PICK x : x = Write("message", c, u, Len(sent) + 1)
    OBVIOUS
  <2>2. x \in WriteTasks
    <3>1. Len(sent) + 1 \in Nat
      BY <1>0 DEF TypeOK
    <3>. QED  BY <2>1, <3>1 DEF Write, WriteTasks
  <2>3. <<x>> \in Seq(WriteTasks)
    BY <2>2, OneElement
  <2>4. Ask(u, <<x>>) /\ UNCHANGED <<server, lost>>
    BY <1>2, <2>1 DEF Send
  <2>5. TasksKept
    BY <1>0, <2>3, <2>4, AskKeeps
  <2>. QED  BY <1>1, <2>4, <2>5
<1>3. ASSUME NEW u \in Users, NEW c \in Ids, NEW others \in SUBSET (Users \ {u}),
             NEW s \in IF others = {} THEN {<<>>} ELSE Selected(u, others), Create(u, c, s)
      PROVE  Accounted(w)'
  <2>1. ConvFirst(c, s) \in Seq(WriteTasks)
    BY SelectedType, ConvFirstFacts
  <2>2. Ask(u, ConvFirst(c, s)) /\ UNCHANGED <<server, lost>>
    BY <1>3 DEF Create
  <2>3. TasksKept
    BY <1>0, <2>1, <2>2, AskKeeps
  <2>. QED  BY <1>1, <2>2, <2>3
<1>4. ASSUME NEW u \in Followed, UserFetched(u)  PROVE Accounted(w)'
  <2>1. PICK t : t = Listen(Head(main[u]).ids, Head(main[u]).screen)
    OBVIOUS
  <2>2. t \in Tasks
    <3>1. Head(main[u]) \in Blocks
      BY <1>0, <1>4, TurnFacts DEF UserFetched
    <3>. QED  BY <2>1, <3>1, BlockTyped DEF Listen, Tasks
  <2>3. <<t>> \in Seq(Tasks)
    BY <2>2, OneElement
  <2>4. Ask(u, <<t>>) /\ UNCHANGED <<server, lost>>
    BY <1>4, <2>1 DEF UserFetched
  <2>5. TasksKept
    BY <1>0, <2>3, <2>4, AskKeeps
  <2>. QED  BY <1>1, <2>4, <2>5
<1>5. ASSUME NEW u \in Followed, NEW row, OpenTalk(u, row)  PROVE Accounted(w)'
  <2>1. PICK t : t = Read(shared[u][row], screens[u]["talk"] + 1)
    OBVIOUS
  <2>2. t \in Tasks
    <3>1. shared[u][row] \in Ids /\ screens[u]["talk"] + 1 \in Nat
      BY <1>0, <1>5, Typed DEF OpenTalk
    <3>. QED  BY <2>1, <3>1 DEF Read, Tasks
  <2>3. <<t>> \in Seq(Tasks)
    BY <2>2, OneElement
  <2>4. Ask(u, <<t>>) /\ UNCHANGED <<server, lost>>
    BY <1>5, <2>1 DEF OpenTalk
  <2>5. TasksKept
    BY <1>0, <2>3, <2>4, AskKeeps
  <2>. QED  BY <1>1, <2>4, <2>5
<1>6. ASSUME NEW u \in Followed, Work(u)  PROVE Accounted(w)'
  BY <1>0, <1>6, StoreKeeps, AddKeeps DEF Work
<1>7. ASSUME NEW u, \/ ShowList(u) \/ ReloadTable(u) \/ ShowMessages(u)
                    \/ Answer(u) \/ HearConvs(u) \/ HearList(u)
                    \/ (\E c \in Ids : HearMessages(u, c))
                    \/ OpenList(u) \/ LeaveList(u) \/ LeaveTalk(u)
      PROVE  UNCHANGED <<worker, queue, server, lost>>
  BY <1>7 DEF ShowList, Kept, ReloadTable, ShowMessages, Answer, HearConvs, HearList,
              HearMessages, OpenList, LeaveList, LeaveTalk
<1>8. ASSUME UNCHANGED <<worker, queue, server, lost>>  PROVE Accounted(w)'
  BY <1>1, <1>8, QuietTasks
<1>9. UNCHANGED vars => UNCHANGED <<worker, queue, server, lost>>
  BY DEF vars
<1>10. ASSUME NEW u \in Followed, Kill(u) \/ CrashOnRow(u)  PROVE Accounted(w)'
  BY <1>0, <1>10, RestartKeeps DEF Kill, CrashOnRow
<1>. QED  BY <1>0, <1>2, <1>3, <1>4, <1>5, <1>6, <1>7, <1>8, <1>9, <1>10, ServeKeeps
          DEF Next, RunBlock, Visit

\* Division of a multiple.
LEMMA Multiple ==
  ASSUME NEW a \in Nat, NEW b \in Nat \ {0}
  PROVE  (a * b) \div b = a /\ (a * b) % b = 0
<1>1. PICK p \in Nat : p = a * b
  OBVIOUS
<1>2. PICK q \in Int, r \in Int : q = p \div b /\ r = p % b
  OBVIOUS
<1>3. p = b * q + r /\ 0 <= r /\ r < b
  BY <1>1, <1>2
<1>4. b * (a - q) = r
  BY <1>1, <1>3
<1>5. a - q = 0
  <2>1. CASE a - q >= 1
    <3>1. b * (a - q) >= b
      BY <2>1
    <3>. QED  BY <1>3, <1>4, <3>1
  <2>2. CASE a - q <= -1
    <3>1. b * (a - q) <= -b
      BY <2>2
    <3>. QED  BY <1>3, <1>4, <3>1
  <2>. QED  BY <2>1, <2>2
<1>. QED  BY <1>1, <1>2, <1>4, <1>5

\* One creation writes the conversation, each member, and the list of each member.
LEMMA WritesAll ==
  ASSUME NEW c \in Ids, NEW s \in Seq(Users)
  PROVE  /\ Write("conv", c, "none", 0) \in Elements(ConvFirst(c, s))
         /\ \A u \in Elements(s) :
              /\ Write("member", c, u, 0) \in Elements(ConvFirst(c, s))
              /\ Write("list", c, u, 0) \in Elements(ConvFirst(c, s))
<1>n. PICK n : n = Len(s)
  OBVIOUS
<1>1. n \in Nat /\ DOMAIN s = 1 .. n /\ \A i \in 1 .. n : s[i] \in Users
  BY <1>n
<1>. DEFINE first == Write("conv", c, "none", 0)
            rest == PerMember(c, s)
<1>2. first \in WriteTasks
  BY DEF Write, WriteTasks
<1>3. \A v \in Users : /\ Write("member", c, v, 0) \in WriteTasks
                       /\ Write("list", c, v, 0) \in WriteTasks
  BY DEF Write, WriteTasks
<1>4. n * (n + 1) \in Nat
  BY <1>1
<1>5. \A k \in 1 .. n * (n + 1) :
        rest[k] = IF (k - 1) % (n + 1) = 0
                    THEN Write("member", c, s[(k - 1) \div (n + 1) + 1], 0)
                    ELSE Write("list", c, s[(k - 1) % (n + 1)], 0)
  BY <1>n DEF PerMember
<1>6. DOMAIN rest = 1 .. n * (n + 1)
  BY <1>n DEF PerMember
<1>. HIDE DEF rest, first
<1>7. \A k \in 1 .. n * (n + 1) : rest[k] \in WriteTasks
  <2>. TAKE k \in 1 .. n * (n + 1)
  <2>1. /\ (k - 1) \div (n + 1) + 1 \in 1 .. n
        /\ (k - 1) % (n + 1) # 0 => (k - 1) % (n + 1) \in 1 .. n
    BY <1>1, Division
  <2>. QED  BY <1>1, <1>3, <1>5, <2>1
<1>8. rest \in Seq(WriteTasks)
  <2>1. rest \in [1 .. n * (n + 1) -> WriteTasks]
    BY <1>6, <1>7, <1>n DEF rest, PerMember
  <2>. QED  BY <1>4, <2>1, Stacked
<1>9. ASSUME NEW i \in 1 .. n
      PROVE  /\ Write("member", c, s[i], 0) \in Elements(rest)
             /\ Write("list", c, s[i], 0) \in Elements(rest)
  <2>1. PICK a \in Nat : a = i - 1
    OBVIOUS
  <2>2. PICK b \in Nat \ {0} : b = n + 1
    BY <1>1
  <2>3. /\ (a * b) \div b = a /\ (a * b) % b = 0
    BY Multiple
  <2>4. a * b + 1 \in 1 .. n * (n + 1)
    <3>1. a <= n - 1 /\ n >= 1
      BY <1>1, <2>1
    <3>2. a * b <= (n - 1) * b
      BY <1>1, <3>1
    <3>3. (n - 1) * b + 1 <= n * b
      BY <1>1, <2>2, <3>1
    <3>4. a * b \in Nat
      OBVIOUS
    <3>. QED  BY <1>1, <2>2, <3>2, <3>3, <3>4
  <2>5. PICK k \in 1 .. n * (n + 1) : k = a * b + 1
    BY <2>4
  <2>6. k - 1 = a * b /\ a + 1 = i
    BY <2>1, <2>5
  <2>7. rest[k] = Write("member", c, s[i], 0)
    BY <1>5, <2>2, <2>3, <2>6
  <2>8. PICK j \in 1 .. n * (n + 1) : j = i + 1
    <3>1. i + 1 <= n + 1 /\ n >= 1
      BY <1>1
    <3>2. n * (n + 1) >= n + 1
      BY <1>1, <3>1
    <3>. QED  BY <1>1, <3>1, <3>2
  <2>9. (j - 1) % (n + 1) = i
    BY <1>1, <2>8
  <2>10. rest[j] = Write("list", c, s[i], 0)
    BY <1>5, <2>8, <2>9
  <2>. QED  BY <1>6, <2>7, <2>10 DEF Elements
<1>10. Elements(ConvFirst(c, s)) = {first} \cup Elements(rest)
  <2>1. PICK s1 \in Seq(WriteTasks) : s1 = <<first>> /\ Elements(s1) = {first}
    BY <1>2, OneElement
  <2>2. Elements(s1 \o rest) = Elements(s1) \cup Elements(rest)
    BY <1>8, CatElements
  <2>3. ConvFirst(c, s) = <<first>> \o rest
    BY DEF ConvFirst, first, rest
  <2>. QED  BY <2>1, <2>2, <2>3
<1>11. \A u \in Elements(s) : \E i \in 1 .. n : u = s[i]
  BY <1>1 DEF Elements
<1>. QED  BY <1>9, <1>10, <1>11 DEF first

LEMMA WritesOf ==
  ASSUME NEW c \in Ids, NEW u \in Users, NEW m \in Nat
  PROVE  /\ Write("conv", c, "none", 0) \in WriteTasks
         /\ Write("member", c, u, 0) \in WriteTasks /\ Write("list", c, u, 0) \in WriteTasks
         /\ Write("message", c, u, m) \in WriteTasks
BY DEF Write, WriteTasks

\* A conversation that was there, and whom it was made with, are on the way as before.
LEMMA OldConvs ==
  ASSUME IInv, NoneDropped, [Next]_vars, NEW c \in made
  PROVE  /\ Accounted(Write("conv", c, "none", 0))'
         /\ \A u \in picked[c] : /\ Accounted(Write("member", c, u, 0))'
                                 /\ Accounted(Write("list", c, u, 0))'
<1>1. c \in Ids /\ picked[c] \subseteq Users /\ 0 \in Nat
  BY DEF IInv, TypeOK
<1>2. Accounted(Write("conv", c, "none", 0))'
  <2>1. PICK w \in WriteTasks : w = Write("conv", c, "none", 0)
    BY <1>1 DEF Write, WriteTasks
  <2>2. Accounted(w)
    BY <2>1 DEF NoneDropped
  <2>. QED  BY <2>1, <2>2, AllKept
<1>3. ASSUME NEW u \in picked[c]
      PROVE  Accounted(Write("member", c, u, 0))' /\ Accounted(Write("list", c, u, 0))'
  <2>1. PICK w \in WriteTasks : w = Write("member", c, u, 0)
    BY <1>1, WritesOf
  <2>2. PICK x \in WriteTasks : x = Write("list", c, u, 0)
    BY <1>1, WritesOf
  <2>3. Accounted(w) /\ Accounted(x)
    BY <2>1, <2>2 DEF NoneDropped
  <2>4. Accounted(w)' /\ Accounted(x)'
    BY <2>3, AllKept
  <2>. QED  BY <2>1, <2>2, <2>4
<1>. QED  BY <1>2, <1>3

LEMMA OldMessages ==
  ASSUME IInv, NoneDropped, [Next]_vars, NEW m \in DOMAIN sent
  PROVE  \E u \in Users : \E w \in WriteTasks :
           w = Write("message", sent[m], u, m) /\ Accounted(w)'
<1>1. PICK u \in Users : Accounted(Write("message", sent[m], u, m))
  BY DEF NoneDropped
<1>2. sent[m] \in Ids /\ m \in Nat
  BY DEF IInv, TypeOK
<1>3. PICK w \in WriteTasks : w = Write("message", sent[m], u, m)
  BY <1>2, WritesOf
<1>4. Accounted(w)'
  BY <1>1, <1>3, AllKept
<1>. QED  BY <1>3, <1>4

LEMMA DroppedStep ==
  ASSUME IInv, NoneDropped, [Next]_vars
  PROVE  NoneDropped'
<1>0. TypeOK
  BY DEF IInv
<1>1. CASE UNCHANGED history
  <2>1. made' = made /\ picked' = picked /\ sent' = sent
    BY <1>1 DEF history
  <2>. QED  BY <2>1, OldConvs, OldMessages DEF NoneDropped
<1>2. ASSUME NEW u \in Users, NEW c \in Ids, Send(u, c)  PROVE NoneDropped'
  <2>k. PICK k : k = Len(sent) + 1
    OBVIOUS
  <2>1. /\ sent' = Append(sent, c) /\ made' = made /\ picked' = picked
        /\ Ask(u, <<Write("message", c, u, k)>>)
    BY <1>2, <2>k DEF Send
  <2>2. /\ k \in Nat /\ DOMAIN sent' = DOMAIN sent \cup {k} /\ sent'[k] = c
        /\ \A m \in DOMAIN sent : sent'[m] = sent[m]
    <3>1. sent \in Seq(Ids)
      BY <1>0 DEF TypeOK
    <3>. QED  BY <2>1, <2>k, <3>1
  <2>3. PICK x \in WriteTasks : x = Write("message", c, u, k)
    BY <2>2, WritesOf
  <2>4. <<x>> \in Seq(WriteTasks) /\ Elements(<<x>>) = {x}
    BY OneElement
  <2>5. x \in Elements(worker'[u]) \cup Elements(queue'[u])
    BY <1>0, <2>1, <2>3, <2>4, AskKeeps
  <2>6. Accounted(x)'
    BY <2>5 DEF Accounted
  <2>7. ASSUME NEW m \in DOMAIN sent'
        PROVE  \E v \in Users : Accounted(Write("message", sent[m], v, m))'
    <3>1. CASE m = k
      BY <2>2, <2>3, <2>6, <3>1
    <3>2. CASE m \in DOMAIN sent
      <4>1. PICK v \in Users, w \in WriteTasks :
              w = Write("message", sent[m], v, m) /\ Accounted(w)'
        BY <3>2, OldMessages
      <4>2. sent'[m] = sent[m]
        BY <2>2, <3>2
      <4>. QED  BY <4>1, <4>2
    <3>. QED  BY <2>2, <2>7, <3>1, <3>2
  <2>. QED  BY <2>1, <2>7, OldConvs DEF NoneDropped
<1>3. ASSUME NEW u \in Users, NEW c \in Ids, NEW s \in Seq(Users), Create(u, c, s)
      PROVE  NoneDropped'
  <2>1. /\ made' = made \cup {c} /\ c \notin made /\ sent' = sent
        /\ picked' = [picked EXCEPT ![c] = Elements(s)] /\ Ask(u, ConvFirst(c, s))
    BY <1>3 DEF Create
  <2>2. /\ picked'[c] = Elements(s) /\ \A e \in made : picked'[e] = picked[e]
    BY <1>0, <2>1 DEF TypeOK
  <2>3. ConvFirst(c, s) \in Seq(WriteTasks)
    BY ConvFirstFacts
  <2>4. \A w \in Elements(ConvFirst(c, s)) : w \in Elements(worker'[u]) \cup Elements(queue'[u])
    BY <1>0, <2>1, <2>3, AskKeeps
  <2>5. \A w \in Elements(ConvFirst(c, s)) : Accounted(w)'
    BY <2>4 DEF Accounted
  <2>6. /\ Accounted(Write("conv", c, "none", 0))'
        /\ \A v \in Elements(s) : /\ Accounted(Write("member", c, v, 0))'
                                  /\ Accounted(Write("list", c, v, 0))'
    BY <2>5, WritesAll
  <2>7. ASSUME NEW e \in made'
        PROVE  /\ Accounted(Write("conv", e, "none", 0))'
               /\ \A v \in picked'[e] : /\ Accounted(Write("member", e, v, 0))'
                                        /\ Accounted(Write("list", e, v, 0))'
    <3>1. CASE e = c
      BY <2>2, <2>6, <3>1
    <3>2. CASE e \in made
      BY <2>2, <3>2, OldConvs
    <3>. QED  BY <2>1, <2>7, <3>1, <3>2
  <2>8. \A m \in DOMAIN sent' : \E v \in Users : Accounted(Write("message", sent[m], v, m))'
    BY <2>1, OldMessages
  <2>. QED  BY <2>7, <2>8 DEF NoneDropped
<1>4. ASSUME NEW u, Serve(u) \/ Work(u) \/ RunBlock(u) \/ Answer(u) \/ HearConvs(u)
                    \/ HearList(u) \/ (\E c \in Ids : HearMessages(u, c)) \/ Visit(u)
                    \/ Kill(u) \/ CrashOnRow(u)
      PROVE  UNCHANGED history
  BY <1>4 DEF Serve, Work, StoreWrite, AddListener, AddReader, RunBlock, UserFetched,
      ShowList, ReloadTable, ShowMessages, Answer, HearConvs, HearList, HearMessages,
      Visit, OpenList, LeaveList, OpenTalk, LeaveTalk, Kill, CrashOnRow, Restart, history
<1>5. UNCHANGED vars => UNCHANGED history
  BY DEF vars
<1>. QED  BY <1>1, <1>2, <1>3, <1>4, <1>5, SelectedType DEF Next

\* What a conversation needs is never dropped on its way to the server, nor is a message,
\* but with an app that is ended before it has stored them (createAndSaveConversation,
\* updateUsers and saveMessage).
THEOREM DropsNone == Spec => []NoneDropped
<1>1. Init => NoneDropped
  <2>. SUFFICES ASSUME Init  PROVE NoneDropped
    OBVIOUS
  <2>1. /\ convs = left.old /\ made = left.old /\ left.old \subseteq Ids /\ sent = <<>>
        /\ picked = members /\ members = [c \in Ids |-> IF c \in left.old THEN Users ELSE {}]
        /\ lists = [u \in Users |-> left.old]
    BY BudgetsAssumption DEF Init
  <2>2. \A c \in made : c \in convs /\ members[c] = Users /\ picked[c] = Users
    BY <2>1
  <2>3. \A c \in made : \A u \in picked[c] : c \in lists[u]
    BY <2>1, <2>2
  <2>4. \A op, c, u, m : /\ Write(op, c, u, m).op = op /\ Write(op, c, u, m).conv = c
                         /\ Write(op, c, u, m).user = u
    BY DEF Write
  <2>5. DOMAIN sent = {}
    BY <2>1
  <2>. QED  BY <2>2, <2>3, <2>4, <2>5 DEF NoneDropped, Accounted
<1>. QED  BY <1>1, InitInv, NextInv, DroppedStep, PTL DEF Spec
=============================================================================
