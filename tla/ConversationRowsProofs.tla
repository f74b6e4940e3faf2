----------------------- MODULE ConversationRowsProofs -----------------------
(* Proofs about the rows of the list screen of Conversations, about what a  *)
(* message screen shows, and that Conversations implements Directory, on    *)
(* top of the invariant of ConversationsProofs.                             *)
EXTENDS ConversationsProofs

----------------------------------------------------------------------------
(* The inductive invariant.                                                *)

\* A visit becomes a listener in four stages, each a queue: the request for the user,
\* its block on the main queue, the task of Firestore's thread, the listener.  n is the
\* screen of the i-th in stage k, the last stage first.
Visited(u, k, i, n) ==
  \/ k = 1 /\ i \in DOMAIN listeners[u] /\ n = listeners[u][i].screen
  \/ k = 2 /\ i \in DOMAIN worker[u] /\ worker[u][i].op = "listen" /\ n = worker[u][i].screen
  \/ k = 3 /\ i \in DOMAIN main[u] /\ main[u][i].kind = "user" /\ n = main[u][i].screen
  \/ k = 4 /\ i \in DOMAIN fetches[u] /\ n = fetches[u][i]

\* No visit overtakes another one, and none is of a screen still to be opened.
InOrder(u) ==
  /\ \A k, l, i, j, m, n :
       Visited(u, k, i, m) /\ Visited(u, l, j, n) /\ (k < l \/ (k = l /\ i < j)) => m <= n
  /\ \A k, i, n : Visited(u, k, i, n) => n <= screens[u]["list"]

Answered(u) == \E i \in DOMAIN listeners[u] : listeners[u][i].screen = screens[u]["list"]

LastOf(s, n) ==
  \E i \in DOMAIN s :
    s[i].kind = "list" /\ s[i].screen = n /\ \A j \in DOMAIN s : j > i => s[j].kind # "list"

WillReload(s, n) == \E i \in DOMAIN s : s[i].kind = "reload" /\ s[i].screen = n

\* Once the screen has a listener, the last block that sets the array is that listener's,
\* and the reload that it adds is of this screen.
RowsFollow(u) ==
  (front[u] # "other" /\ Answered(u)) =>
    \/ LastOf(main[u], screens[u]["list"])
    \/ /\ NoLists(main[u])
       /\ table[u] = shared[u] \/ WillReload(main[u], screens[u]["list"])

RowInv(u) == InOrder(u) /\ RowsFollow(u)

----------------------------------------------------------------------------
(* Facts on queues.                                                        *)

LEMMA BlocksAdded ==
  ASSUME NEW S, NEW s \in Seq(S), NEW t \in Seq(S), NoLists(t), NEW n
  PROVE  /\ LastOf(s, n) => LastOf(s \o t, n)
         /\ NoLists(s) => NoLists(s \o t)
         /\ WillReload(s, n) => WillReload(s \o t, n)
<1>. DEFINE st == s \o t
<1>1. /\ DOMAIN s = 1 .. Len(s) /\ Len(s) \in Nat /\ DOMAIN t = 1 .. Len(t) /\ Len(t) \in Nat
      /\ \A i \in DOMAIN s : i \in DOMAIN st /\ st[i] = s[i]
      /\ \A i \in DOMAIN t : st[Len(s) + i] = t[i]
      /\ \A i \in DOMAIN st : i \in Int /\ (i \in DOMAIN s \/ (i > Len(s) /\ i - Len(s) \in DOMAIN t))
  BY CatIndex
<1>. HIDE DEF st
<1>2. \A i \in DOMAIN st : i > Len(s) => st[i].kind # "list"
  <2>1. SUFFICES ASSUME NEW i \in DOMAIN st, i > Len(s)  PROVE st[i].kind # "list"
    OBVIOUS
  <2>2. i - Len(s) \in DOMAIN t /\ Len(s) + (i - Len(s)) = i
    BY <1>1, <2>1
  <2>. QED  BY <1>1, <2>2 DEF NoLists
<1>3. ASSUME LastOf(s, n)  PROVE LastOf(st, n)
  <2>1. PICK i \in DOMAIN s : /\ s[i].kind = "list" /\ s[i].screen = n
                              /\ \A j \in DOMAIN s : j > i => s[j].kind # "list"
    BY <1>3 DEF LastOf
  <2>2. \A j \in DOMAIN st : j > i => st[j].kind # "list"
    BY <1>1, <1>2, <2>1
  <2>. QED  BY <1>1, <2>1, <2>2 DEF LastOf
<1>4. NoLists(s) => NoLists(st)
  BY <1>1, <1>2 DEF NoLists
<1>5. WillReload(s, n) => WillReload(st, n)
  BY <1>1 DEF WillReload
<1>. QED  BY <1>3, <1>4, <1>5 DEF st

LEMMA Cases ==
  ASSUME NEW S, NEW s \in Seq(S), NEW t \in Seq(S), NEW i \in DOMAIN (s \o t)
  PROVE  \/ i \in DOMAIN s /\ (s \o t)[i] = s[i]
         \/ i > Len(s) /\ \E j \in DOMAIN t : (s \o t)[i] = t[j] /\ i = Len(s) + j
<1>1. CASE i \in DOMAIN s
  BY <1>1, CatIndex
<1>2. CASE i > Len(s) /\ i - Len(s) \in DOMAIN t
  <2>1. DOMAIN t = 1 .. Len(t) /\ Len(s) \in Nat /\ Len(t) \in Nat
    BY SeqFacts
  <2>2. (s \o t)[Len(s) + (i - Len(s))] = t[i - Len(s)]
    BY <1>2, <2>1, CatIndex
  <2>3. Len(s) + (i - Len(s)) = i
    BY <1>2, <2>1
  <2>. QED  BY <1>2, <2>2, <2>3
<1>. QED  BY <1>1, <1>2, CatIndex

LEMMA ListsAdded ==
  ASSUME NEW S, NEW s \in Seq(S), NEW t \in Seq(S), t # <<>>, NEW n,
         t[Len(t)].kind = "list", t[Len(t)].screen = n
  PROVE  LastOf(s \o t, n)
<1>1. Len(t) \in DOMAIN t /\ Len(t) \in Nat
  OBVIOUS
<1>2. /\ Len(s) + Len(t) \in DOMAIN (s \o t) /\ (s \o t)[Len(s) + Len(t)] = t[Len(t)]
      /\ \A j \in DOMAIN (s \o t) : j \in Int /\ j <= Len(s) + Len(t)
  BY <1>1, CatIndex
<1>. QED  BY <1>2 DEF LastOf

LEMMA ReloadAdded ==
  ASSUME NEW S, NEW s \in Seq(S), NEW t \in Seq(S), t # <<>>, NEW n,
         t[1].kind = "reload", t[1].screen = n
  PROVE  WillReload(s \o t, n)
<1>1. 1 \in 1 .. Len(t)
  OBVIOUS
<1>2. Len(s) + 1 \in DOMAIN (s \o t) /\ (s \o t)[Len(s) + 1] = t[1]
  BY <1>1, CatIndex
<1>. QED  BY <1>2 DEF WillReload

LEMMA BlockRun ==
  ASSUME NEW S, NEW s \in Seq(S), s # <<>>, NEW n
  PROVE  /\ LastOf(s, n) =>
              \/ LastOf(Tail(s), n)
              \/ Head(s).kind = "list" /\ Head(s).screen = n /\ NoLists(Tail(s))
         /\ NoLists(s) => Head(s).kind # "list" /\ NoLists(Tail(s))
         /\ WillReload(s, n) =>
              \/ WillReload(Tail(s), n)
              \/ Head(s).kind = "reload" /\ Head(s).screen = n
<1>. DEFINE t == Tail(s)
<1>1. /\ Head(s) = s[1] /\ 1 \in DOMAIN s
      /\ \A i \in DOMAIN t : i \in Int /\ i >= 1 /\ i + 1 \in DOMAIN s /\ t[i] = s[i + 1]
      /\ \A i \in DOMAIN s : i \in Int /\ (i = 1 \/ (i > 1 /\ i - 1 \in DOMAIN t /\ s[i] = t[i - 1]))
  BY TailIndex
<1>. HIDE DEF t
<1>2. ASSUME LastOf(s, n)
      PROVE  LastOf(t, n) \/ (Head(s).kind = "list" /\ Head(s).screen = n /\ NoLists(t))
  <2>1. PICK i \in DOMAIN s : /\ s[i].kind = "list" /\ s[i].screen = n
                              /\ \A j \in DOMAIN s : j > i => s[j].kind # "list"
    BY <1>2 DEF LastOf
  <2>2. \A j \in DOMAIN t : j + 1 > i => t[j].kind # "list"
    BY <1>1, <2>1
  <2>3. CASE i = 1
    BY <1>1, <2>1, <2>2, <2>3 DEF NoLists
  <2>4. CASE i # 1
    <3>1. i - 1 \in DOMAIN t /\ t[i - 1] = s[i]
      BY <1>1, <2>4
    <3>2. \A j \in DOMAIN t : j > i - 1 => t[j].kind # "list"
      BY <1>1, <2>2
    <3>. QED  BY <2>1, <3>1, <3>2 DEF LastOf
  <2>. QED  BY <2>3, <2>4
<1>3. NoLists(s) => Head(s).kind # "list" /\ NoLists(t)
  BY <1>1 DEF NoLists
<1>4. WillReload(s, n) => WillReload(t, n) \/ (Head(s).kind = "reload" /\ Head(s).screen = n)
  BY <1>1 DEF WillReload
<1>. QED  BY <1>2, <1>3, <1>4 DEF t

----------------------------------------------------------------------------
(* How visits move on.                                                     *)

VisitsTyped ==
  \A u \in Users : \A k, i, n : Visited(u, k, i, n) =>
    k \in 1 .. 4 /\ i \in Nat \ {0} /\ n \in Nat

LEMMA VisitTypes == TypeOK => VisitsTyped
<1>. SUFFICES ASSUME TypeOK, NEW u \in Users, NEW k, NEW i, NEW n, Visited(u, k, i, n)
              PROVE  k \in 1 .. 4 /\ i \in Nat \ {0} /\ n \in Nat
  BY DEF VisitsTyped
<1>1. /\ listeners[u] \in Seq([ids : SUBSET Ids, screen : Nat])
      /\ worker[u] \in Seq(Tasks) /\ main[u] \in Seq(Blocks) /\ fetches[u] \in Seq(Nat)
  BY Typed
<1>2. CASE k = 1 /\ i \in DOMAIN listeners[u] /\ n = listeners[u][i].screen
  <2>1. listeners[u][i] \in [ids : SUBSET Ids, screen : Nat]
    BY <1>1, <1>2, SeqFacts
  <2>2. i \in Nat \ {0}
    BY <1>1, <1>2, SeqFacts
  <2>3. listeners[u][i].screen \in Nat
    BY <2>1
  <2>. QED  BY <1>2, <2>2, <2>3
<1>3. CASE k = 2 /\ i \in DOMAIN worker[u] /\ worker[u][i].op = "listen"
           /\ n = worker[u][i].screen
  <2>1. worker[u][i] \in Tasks /\ i \in Nat \ {0}
    BY <1>1, <1>3
  <2>. QED  BY <1>3, <2>1, TaskTyped
<1>4. CASE k = 3 /\ i \in DOMAIN main[u] /\ main[u][i].kind = "user"
           /\ n = main[u][i].screen
  <2>1. main[u][i] \in Blocks /\ i \in Nat \ {0}
    BY <1>1, <1>4
  <2>. QED  BY <1>4, <2>1, BlockTyped
<1>5. CASE k = 4 /\ i \in DOMAIN fetches[u] /\ n = fetches[u][i]
  BY <1>1, <1>5
<1>. QED  BY <1>2, <1>3, <1>4, <1>5 DEF Visited

LEMMA VisitTypesNext == TypeOK' => VisitsTyped'
<1>1. TypeOK => VisitsTyped
  BY VisitTypes
<1>. QED  BY <1>1, PTL

\* The first of stage k is done with, or moves on to the end of the next one.
LEMMA MovedOn ==
  ASSUME TypeOK, TypeOK', NEW u \in Users, InOrder(u), NEW k \in 2 .. 4,
         screens'[u]["list"] = screens[u]["list"],
         \A l, i, n : Visited(u, l, i, n)' =>
           \/ l # k /\ Visited(u, l, i, n)
           \/ l = k /\ Visited(u, l, i + 1, n)
           \/ /\ l = k - 1 /\ Visited(u, k, 1, n)
              /\ \A j, m : Visited(u, l, j, m)' /\ j # i => Visited(u, l, j, m) /\ j < i
  PROVE  InOrder(u)'
<1>0. \A l, i, n : Visited(u, l, i, n)' => l \in 1 .. 4 /\ i \in Nat \ {0} /\ n \in Nat
  BY VisitTypesNext DEF VisitsTyped
<1>1. \A l, i, n : Visited(u, l, i, n)' => n <= screens'[u]["list"]
  BY DEF InOrder
<1>2. ASSUME NEW l, NEW i, NEW m, NEW q, NEW j, NEW n,
             Visited(u, l, i, m)', Visited(u, q, j, n)', l < q \/ (l = q /\ i < j)
      PROVE  m <= n
  <2>0. l \in 1 .. 4 /\ i \in Nat \ {0} /\ q \in 1 .. 4 /\ j \in Nat \ {0}
    BY <1>0, <1>2
  <2>1. CASE l # k /\ Visited(u, l, i, m)
    BY <1>2, <2>0, <2>1 DEF InOrder
  <2>2. CASE l = k /\ Visited(u, l, i + 1, m)
    BY <1>2, <2>0, <2>2 DEF InOrder
  <2>3. CASE /\ l = k - 1 /\ Visited(u, k, 1, m)
             /\ \A p, r : Visited(u, l, p, r)' /\ p # i => Visited(u, l, p, r) /\ p < i
    BY <1>2, <2>0, <2>3 DEF InOrder
  <2>. QED  BY <1>2, <2>1, <2>2, <2>3
<1>. QED  BY <1>1, <1>2 DEF InOrder

\* New requests are of the screen that was opened last.
LEMMA VisitsAdded ==
  ASSUME TypeOK, TypeOK', NEW u \in Users, InOrder(u),
         screens[u]["list"] <= screens'[u]["list"],
         \A l, i, n : Visited(u, l, i, n)' =>
           \/ Visited(u, l, i, n)
           \/ /\ l = 4 /\ n = screens'[u]["list"]
              /\ \A j, m : Visited(u, 4, j, m) => j < i
  PROVE  InOrder(u)'
<1>0. /\ \A l, i, n : Visited(u, l, i, n)' => l \in 1 .. 4 /\ i \in Nat \ {0} /\ n \in Nat
      /\ screens[u]["list"] \in Nat /\ screens'[u]["list"] \in Nat
  <2>1. screens[u]["list"] \in Nat /\ screens'[u]["list"] \in Nat
    BY DEF TypeOK, Kinds
  <2>. QED  BY <2>1, VisitTypesNext DEF VisitsTyped
<1>1. \A l, i, n : Visited(u, l, i, n)' => n <= screens'[u]["list"]
  BY <1>0 DEF InOrder
<1>2. ASSUME NEW l, NEW i, NEW m, NEW q, NEW j, NEW n,
             Visited(u, l, i, m)', Visited(u, q, j, n)', l < q \/ (l = q /\ i < j)
      PROVE  m <= n
  <2>1. CASE Visited(u, q, j, n)
    BY <1>0, <1>2, <2>1 DEF InOrder
  <2>2. CASE n = screens'[u]["list"]
    BY <1>1, <1>2, <2>2
  <2>. QED  BY <1>2, <2>1, <2>2
<1>. QED  BY <1>1, <1>2 DEF InOrder

NoVisits(t) == \A i \in DOMAIN t : t[i].kind # "user"
NoListens(t) == \A i \in DOMAIN t : t[i].op # "listen"

LEMMA SameStages ==
  ASSUME NEW u
  PROVE  /\ listeners'[u] = listeners[u] =>
              \A i, n : Visited(u, 1, i, n)' => Visited(u, 1, i, n)
         /\ worker'[u] = worker[u] =>
              \A i, n : Visited(u, 2, i, n)' => Visited(u, 2, i, n)
         /\ fetches'[u] = fetches[u] =>
              \A i, n : Visited(u, 4, i, n)' => Visited(u, 4, i, n)
  BY DEF Visited

LEMMA BlocksStage ==
  ASSUME TypeOK, NEW u \in Users, NEW t \in Seq(Blocks), NoVisits(t)
  PROVE  /\ main'[u] = main[u] \o t =>
              \A i, n : Visited(u, 3, i, n)' => Visited(u, 3, i, n)
         /\ main[u] # <<>> /\ main'[u] = Tail(main[u]) \o t =>
              \A i, n : Visited(u, 3, i, n)' => Visited(u, 3, i + 1, n)
<1>0. main[u] \in Seq(Blocks)
  BY Typed
<1>1. ASSUME main'[u] = main[u] \o t, NEW i, NEW n, Visited(u, 3, i, n)'
      PROVE  Visited(u, 3, i, n)
  <2>1. i \in DOMAIN main'[u] /\ main'[u][i].kind = "user" /\ n = main'[u][i].screen
    BY <1>1 DEF Visited
  <2>2. \/ i \in DOMAIN main[u] /\ main'[u][i] = main[u][i]
        \/ \E j \in DOMAIN t : main'[u][i] = t[j]
    BY <1>0, <1>1, <2>1, Cases
  <2>. QED  BY <2>1, <2>2 DEF Visited, NoVisits
<1>2. ASSUME main[u] # <<>>, main'[u] = Tail(main[u]) \o t, NEW i, NEW n,
             Visited(u, 3, i, n)'
      PROVE  Visited(u, 3, i + 1, n)
  <2>1. i \in DOMAIN main'[u] /\ main'[u][i].kind = "user" /\ n = main'[u][i].screen
    BY <1>2 DEF Visited
  <2>2. Tail(main[u]) \in Seq(Blocks)
    BY <1>0, <1>2, TailIndex
  <2>3. \/ i \in DOMAIN Tail(main[u]) /\ main'[u][i] = Tail(main[u])[i]
        \/ \E j \in DOMAIN t : main'[u][i] = t[j]
    BY <1>2, <2>1, <2>2, Cases
  <2>4. CASE i \in DOMAIN Tail(main[u]) /\ main'[u][i] = Tail(main[u])[i]
    <3>1. i + 1 \in DOMAIN main[u] /\ main'[u][i] = main[u][i + 1]
      BY <1>0, <1>2, <2>4, TailIndex
    <3>. QED  BY <2>1, <3>1 DEF Visited
  <2>. QED  BY <2>1, <2>3, <2>4 DEF NoVisits
<1>. QED  BY <1>1, <1>2

LEMMA TasksStage ==
  ASSUME TypeOK, NEW u \in Users, NEW t \in Seq(Tasks), NoListens(t),
         worker'[u] = worker[u] \o t
  PROVE  \A i, n : Visited(u, 2, i, n)' => Visited(u, 2, i, n)
<1>0. worker[u] \in Seq(Tasks)
  BY Typed
<1>. SUFFICES ASSUME NEW i, NEW n, Visited(u, 2, i, n)'  PROVE Visited(u, 2, i, n)
  OBVIOUS
<1>1. i \in DOMAIN worker'[u] /\ worker'[u][i].op = "listen" /\ n = worker'[u][i].screen
  BY DEF Visited
<1>2. \/ i \in DOMAIN worker[u] /\ worker'[u][i] = worker[u][i]
      \/ \E j \in DOMAIN t : worker'[u][i] = t[j]
  BY <1>0, <1>1, Cases
<1>. QED  BY <1>1, <1>2 DEF Visited, NoListens

LEMMA TaskTaken ==
  ASSUME TypeOK, NEW u \in Users, worker[u] # <<>>, worker'[u] = Tail(worker[u])
  PROVE  \A i, n : Visited(u, 2, i, n)' => Visited(u, 2, i + 1, n)
<1>0. worker[u] \in Seq(Tasks)
  BY Typed
<1>. SUFFICES ASSUME NEW i, NEW n, Visited(u, 2, i, n)'  PROVE Visited(u, 2, i + 1, n)
  OBVIOUS
<1>1. i \in DOMAIN worker'[u] /\ worker'[u][i].op = "listen" /\ n = worker'[u][i].screen
  BY DEF Visited
<1>2. i + 1 \in DOMAIN worker[u] /\ worker'[u][i] = worker[u][i + 1]
  BY <1>0, <1>1, TailIndex
<1>. QED  BY <1>1, <1>2 DEF Visited

\* All queues of visits only grow, by nothing but new requests of this screen.
LEMMA QueuesGrow ==
  ASSUME TypeOK, TypeOK', NEW u \in Users, InOrder(u),
         NEW t \in Seq(Blocks), NEW w \in Seq(Tasks), NEW f \in Seq(Nat),
         NoVisits(t), NoListens(w), \A i \in DOMAIN f : f[i] = screens'[u]["list"],
         listeners'[u] = listeners[u], main'[u] = main[u] \o t,
         worker'[u] = worker[u] \o w, fetches'[u] = fetches[u] \o f,
         screens[u]["list"] <= screens'[u]["list"]
  PROVE  InOrder(u)'
<1>1. \A l, i, n : Visited(u, l, i, n)' => l \in 1 .. 4
  BY VisitTypesNext DEF VisitsTyped
<1>2. /\ \A i, n : Visited(u, 1, i, n)' => Visited(u, 1, i, n)
      /\ \A i, n : Visited(u, 2, i, n)' => Visited(u, 2, i, n)
      /\ \A i, n : Visited(u, 3, i, n)' => Visited(u, 3, i, n)
  BY SameStages, TasksStage, BlocksStage
<1>3. ASSUME NEW i, NEW n, Visited(u, 4, i, n)'
      PROVE  \/ Visited(u, 4, i, n)
             \/ n = screens'[u]["list"] /\ \A j, m : Visited(u, 4, j, m) => j < i
  <2>0. fetches[u] \in Seq(Nat) /\ DOMAIN fetches[u] = 1 .. Len(fetches[u])
        /\ Len(fetches[u]) \in Nat
    BY Typed, SeqFacts
  <2>1. i \in DOMAIN fetches'[u] /\ n = fetches'[u][i] /\ i \in Nat
    BY <1>3, VisitTypesNext DEF Visited, VisitsTyped
  <2>2. \/ i \in DOMAIN fetches[u] /\ fetches'[u][i] = fetches[u][i]
        \/ i > Len(fetches[u]) /\ \E j \in DOMAIN f : fetches'[u][i] = f[j]
    BY <2>0, <2>1, Cases
  <2>3. \A j, m : Visited(u, 4, j, m) => j \in 1 .. Len(fetches[u])
    BY <2>0 DEF Visited
  <2>. QED  BY <2>0, <2>1, <2>2, <2>3 DEF Visited
<1>4. \A l, i, n : Visited(u, l, i, n)' =>
        \/ Visited(u, l, i, n)
        \/ /\ l = 4 /\ n = screens'[u]["list"]
           /\ \A j, m : Visited(u, 4, j, m) => j < i
  <2>. SUFFICES ASSUME NEW l, NEW i, NEW n, Visited(u, l, i, n)'
                PROVE  \/ Visited(u, l, i, n)
                       \/ /\ l = 4 /\ n = screens'[u]["list"]
                          /\ \A j, m : Visited(u, 4, j, m) => j < i
    OBVIOUS
  <2>1. l = 1 \/ l = 2 \/ l = 3 \/ l = 4
    BY <1>1
  <2>. QED  BY <1>2, <1>3, <2>1
<1>. QED  BY <1>4, VisitsAdded

----------------------------------------------------------------------------
(* The rows.                                                               *)

LEMMA RowsStay ==
  ASSUME TypeOK, NEW u \in Users, RowsFollow(u), NEW t \in Seq(Blocks), NoLists(t),
         main'[u] = main[u] \o t, listeners'[u] = listeners[u],
         shared'[u] = shared[u], table'[u] = table[u],
         screens'[u]["list"] = screens[u]["list"],
         front[u] # "other" \/ front'[u] = "other"
  PROVE  RowsFollow(u)'
<1>1. SUFFICES ASSUME front'[u] # "other", Answered(u)'
               PROVE  \/ LastOf(main'[u], screens[u]["list"])
                      \/ /\ NoLists(main'[u])
                         /\ \/ table[u] = shared[u]
                            \/ WillReload(main'[u], screens[u]["list"])
  BY DEF RowsFollow
<1>2. Answered(u)
  BY <1>1 DEF Answered
<1>3. main[u] \in Seq(Blocks)
  BY Typed
<1>. QED  BY <1>1, <1>2, <1>3, BlocksAdded DEF RowsFollow

\* The listener of the screen in front is the last one.
LEMMA LastListener ==
  ASSUME TypeOK, NEW u \in Users, InOrder(u), Answered(u)
  PROVE  /\ Len(listeners[u]) > 0 /\ Len(listeners[u]) \in DOMAIN listeners[u]
         /\ listeners[u][Len(listeners[u])].screen = screens[u]["list"]
<1>. DEFINE n == Len(listeners[u])
<1>1. /\ listeners[u] \in Seq([ids : SUBSET Ids, screen : Nat]) /\ n \in Nat
      /\ DOMAIN listeners[u] = 1 .. n /\ screens[u]["list"] \in Nat
  BY Typed, SeqFacts
<1>2. PICK i \in DOMAIN listeners[u] : listeners[u][i].screen = screens[u]["list"]
  BY DEF Answered
<1>3. n \in DOMAIN listeners[u] /\ n > 0 /\ (i = n \/ i < n)
  BY <1>1, <1>2
<1>4. Visited(u, 1, i, screens[u]["list"]) /\ Visited(u, 1, n, listeners[u][n].screen)
  BY <1>2, <1>3 DEF Visited
<1>5. listeners[u][n].screen \in Nat /\ listeners[u][n].screen <= screens[u]["list"]
  BY <1>4, VisitTypes DEF InOrder, VisitsTyped
<1>6. CASE i < n
  <2>1. screens[u]["list"] <= listeners[u][n].screen
    BY <1>4, <1>6 DEF InOrder
  <2>. QED  BY <1>1, <1>3, <1>5, <2>1
<1>. QED  BY <1>2, <1>3, <1>6

LEMMA ToldInv ==
  ASSUME TypeOK, TypeOK', NEW u \in Users, InOrder(u), NEW docs \in SUBSET Ids,
         main'[u] = main[u] \o ToldLists(u, docs), listeners'[u] = listeners[u],
         screens'[u]["list"] = screens[u]["list"]
  PROVE  RowsFollow(u)' /\ NoVisits(ToldLists(u, docs))
<1>. DEFINE t == ToldLists(u, docs)
            n == Len(listeners[u])
<1>1. /\ t \in Seq(Blocks) /\ Len(t) = n /\ n \in Nat
      /\ \A b \in Elements(t) : b.kind = "list"
      /\ n > 0 => t[n].kind = "list"
  BY ToldFacts
<1>2. NoVisits(t)
  BY <1>1 DEF NoVisits, Elements
<1>3. \A i \in DOMAIN listeners[u] : t[i].screen = listeners[u][i].screen
  BY DEF ToldLists, Block
<1>4. ASSUME Answered(u)'  PROVE RowsFollow(u)'
  <2>1. Answered(u)
    BY <1>4 DEF Answered
  <2>2. n > 0 /\ t[n].screen = screens[u]["list"]
    BY <1>3, <2>1, LastListener
  <2>3. t # <<>> /\ main[u] \in Seq(Blocks)
    BY <1>1, <2>2, Typed
  <2>4. t[Len(t)].kind = "list" /\ t[Len(t)].screen = screens[u]["list"]
    BY <1>1, <2>2
  <2>5. LastOf(main'[u], screens[u]["list"])
    <3>. HIDE DEF t
    <3>1. main'[u] = main[u] \o t
      BY DEF t
    <3>. QED  BY <1>1, <2>3, <2>4, <3>1, ListsAdded
  <2>. QED  BY <2>5 DEF RowsFollow
<1>5. ~Answered(u)' => RowsFollow(u)'
  BY DEF RowsFollow
<1>. QED  BY <1>2, <1>4, <1>5

----------------------------------------------------------------------------
(* Each action.                                                            *)

LEMMA NothingAdded ==
  ASSUME TypeOK, NEW u \in Users
  PROVE  /\ <<>> \in Seq(Blocks) /\ <<>> \in Seq(Tasks) /\ <<>> \in Seq(Nat)
         /\ NoVisits(<<>>) /\ NoLists(<<>>) /\ NoListens(<<>>)
         /\ \A n : \A i \in DOMAIN <<>> : <<>>[i] = n
         /\ main[u] \o <<>> = main[u] /\ worker[u] \o <<>> = worker[u]
         /\ fetches[u] \o <<>> = fetches[u]
<1>1. main[u] \in Seq(Blocks) /\ worker[u] \in Seq(Tasks) /\ fetches[u] \in Seq(Nat)
  BY Typed
<1>2. \A S : \A q \in Seq(S) : q \o <<>> = q
  OBVIOUS
<1>. QED  BY <1>1, <1>2 DEF NoVisits, NoLists, NoListens

LEMMA TaskDone ==
  ASSUME TypeOK, TypeOK', NEW u \in Users, InOrder(u), NEW t \in Seq(Blocks), NoVisits(t),
         worker[u] # <<>>, worker'[u] = Tail(worker[u]), main'[u] = main[u] \o t,
         listeners'[u] = listeners[u], fetches'[u] = fetches[u],
         screens'[u]["list"] = screens[u]["list"]
  PROVE  InOrder(u)'
<1>1. \A l, i, n : Visited(u, l, i, n)' => l \in 1 .. 4
  BY VisitTypesNext DEF VisitsTyped
<1>2. /\ \A i, n : Visited(u, 1, i, n)' => Visited(u, 1, i, n)
      /\ \A i, n : Visited(u, 2, i, n)' => Visited(u, 2, i + 1, n)
      /\ \A i, n : Visited(u, 3, i, n)' => Visited(u, 3, i, n)
      /\ \A i, n : Visited(u, 4, i, n)' => Visited(u, 4, i, n)
  BY SameStages, TaskTaken, BlocksStage
<1>3. \A l, i, n : Visited(u, l, i, n)' =>
        (l # 2 /\ Visited(u, l, i, n)) \/ (l = 2 /\ Visited(u, 2, i + 1, n))
  <2>. SUFFICES ASSUME NEW l, NEW i, NEW n, Visited(u, l, i, n)'
                PROVE  (l # 2 /\ Visited(u, l, i, n)) \/ (l = 2 /\ Visited(u, 2, i + 1, n))
    OBVIOUS
  <2>1. l = 1 \/ l = 2 \/ l = 3 \/ l = 4
    BY <1>1
  <2>. QED  BY <1>2, <2>1
<1>. QED  BY <1>3, MovedOn

LEMMA BlockDone ==
  ASSUME TypeOK, TypeOK', NEW u \in Users, InOrder(u), NEW t \in Seq(Blocks), NoVisits(t),
         main[u] # <<>>, main'[u] = Tail(main[u]) \o t, worker'[u] = worker[u],
         listeners'[u] = listeners[u], fetches'[u] = fetches[u],
         screens'[u]["list"] = screens[u]["list"]
  PROVE  InOrder(u)'
<1>1. \A l, i, n : Visited(u, l, i, n)' => l \in 1 .. 4
  BY VisitTypesNext DEF VisitsTyped
<1>2. /\ \A i, n : Visited(u, 1, i, n)' => Visited(u, 1, i, n)
      /\ \A i, n : Visited(u, 2, i, n)' => Visited(u, 2, i, n)
      /\ \A i, n : Visited(u, 3, i, n)' => Visited(u, 3, i + 1, n)
      /\ \A i, n : Visited(u, 4, i, n)' => Visited(u, 4, i, n)
  BY SameStages, BlocksStage
<1>3. \A l, i, n : Visited(u, l, i, n)' =>
        (l # 3 /\ Visited(u, l, i, n)) \/ (l = 3 /\ Visited(u, 3, i + 1, n))
  <2>. SUFFICES ASSUME NEW l, NEW i, NEW n, Visited(u, l, i, n)'
                PROVE  (l # 3 /\ Visited(u, l, i, n)) \/ (l = 3 /\ Visited(u, 3, i + 1, n))
    OBVIOUS
  <2>1. l = 1 \/ l = 2 \/ l = 3 \/ l = 4
    BY <1>1
  <2>. QED  BY <1>2, <2>1
<1>. QED  BY <1>3, MovedOn

\* Blocks for the messages concern no row.
LEMMA TalkBlocks ==
  ASSUME NEW t \in Seq(Blocks), \A b \in Elements(t) : b.kind = "talk"
  PROVE  NoVisits(t) /\ NoLists(t)
  BY DEF NoVisits, NoLists, Elements

LEMMA StoreWriteRows ==
  ASSUME IInv, TypeOK', NEW u \in Users, RowInv(u), StoreWrite(u)
  PROVE  RowInv(u)'
<1>. DEFINE w == Task(u)
<1>0. TypeOK /\ InOrder(u) /\ RowsFollow(u)
  BY DEF IInv, RowInv
<1>1. PICK op \in {"member", "list", "conv", "message"} : Takes(u, op)
  BY DEF StoreWrite
<1>2. /\ worker[u] # <<>> /\ worker'[u] = Tail(worker[u])
      /\ w.op = op /\ w \in Tasks
  BY <1>1, TakesFacts
<1>3. /\ listeners' = listeners /\ fetches' = fetches /\ shared' = shared /\ table' = table
      /\ front' = front /\ screens' = screens
  BY DEF StoreWrite, list, place
<1>4. w \in WriteTasks /\ w.conv \in Ids /\ w.message \in Nat
  BY <1>2, TaskTyped, WriteTyped
<1>5. CASE op \in {"member", "list"}
  <2>1. main'[u] = main[u] \o <<>>
    BY <1>0, <1>1, <1>2, <1>5, NothingAdded DEF StoreWrite, Takes
  <2>2. InOrder(u)'
    BY <1>0, <1>2, <1>3, <2>1, NothingAdded, TaskDone
  <2>3. RowsFollow(u)'
    BY <1>0, <1>3, <2>1, NothingAdded, RowsStay
  <2>. QED  BY <2>2, <2>3 DEF RowInv
<1>6. CASE op = "conv"
  <2>1. PICK docs \in SUBSET Ids : docs = SeesConvs(u) \cup {w.conv}
    BY <1>0, <1>4, StoredType
  <2>2. main' = [main EXCEPT ![u] = main[u] \o ToldLists(u, docs)]
    BY <1>1, <1>2, <1>6, <2>1 DEF StoreWrite, Takes, TellLists
  <2>3. main'[u] = main[u] \o ToldLists(u, docs) /\ ToldLists(u, docs) \in Seq(Blocks)
    BY <1>0, <2>2, MainMore, ToldFacts
  <2>4. RowsFollow(u)' /\ NoVisits(ToldLists(u, docs))
    BY <1>0, <1>3, <2>3, ToldInv
  <2>5. InOrder(u)'
    BY <1>0, <1>2, <1>3, <2>3, <2>4, TaskDone
  <2>. QED  BY <2>4, <2>5 DEF RowInv
<1>7. CASE op = "message"
  <2>1. PICK docs : docs = SeesMessages(u, w.conv) \cup {w.message}
    OBVIOUS
  <2>2. docs \subseteq Nat
    BY <1>0, <1>4, <2>1, StoredType
  <2>3. TellReaders(u, w.conv, docs)
    BY <1>1, <1>2, <1>7, <2>1 DEF StoreWrite, Takes
  <2>4. PICK t \in Seq(Blocks) : /\ main'[u] = main[u] \o t
                                 /\ \A b \in Elements(t) : b.kind = "talk"
    BY <1>4, <2>2, <2>3, TellsExist DEF Tells
  <2>5. InOrder(u)'
    BY <1>0, <1>2, <1>3, <2>4, TalkBlocks, TaskDone
  <2>6. RowsFollow(u)'
    BY <1>0, <1>3, <2>4, TalkBlocks, RowsStay
  <2>. QED  BY <2>5, <2>6 DEF RowInv
<1>. QED  BY <1>5, <1>6, <1>7

LEMMA AddReaderRows ==
  ASSUME IInv, TypeOK', NEW u \in Users, RowInv(u), AddReader(u)
  PROVE  RowInv(u)'
<1>. DEFINE t == Task(u)
            b == Block("talk", {}, SeesMessages(u, t.conv), t.conv, t.screen)
<1>0. TypeOK /\ InOrder(u) /\ RowsFollow(u)
  BY DEF IInv, RowInv
<1>1. /\ worker[u] # <<>> /\ worker'[u] = Tail(worker[u])
      /\ t.op = "read" /\ t \in Tasks
  BY TakesFacts DEF AddReader
<1>2. /\ listeners' = listeners /\ fetches' = fetches /\ shared' = shared /\ table' = table
      /\ front' = front /\ screens' = screens
      /\ main' = [main EXCEPT ![u] = Append(@, b)]
  BY DEF AddReader, list, place
<1>3. b \in Blocks /\ b.kind = "talk"
  BY <1>0, <1>1, TaskTyped, StoredType, BlockType DEF Block
<1>. HIDE DEF t, b
<1>4. main'[u] = main[u] \o <<b>>
  BY <1>0, <1>2, <1>3, MainOne
<1>5. <<b>> \in Seq(Blocks) /\ NoVisits(<<b>>) /\ NoLists(<<b>>)
  BY <1>3 DEF NoVisits, NoLists
<1>6. InOrder(u)'
  BY <1>0, <1>1, <1>2, <1>4, <1>5, TaskDone
<1>7. RowsFollow(u)'
  BY <1>0, <1>2, <1>4, <1>5, RowsStay
<1>. QED  BY <1>6, <1>7 DEF RowInv

LEMMA AppendCases ==
  ASSUME NEW S, NEW s \in Seq(S), NEW x \in S
  PROVE  /\ Append(s, x) = s \o <<x>> /\ <<x>> \in Seq(S)
         /\ \A i \in DOMAIN Append(s, x) :
              \/ i \in DOMAIN s /\ Append(s, x)[i] = s[i]
              \/ i = Len(s) + 1 /\ Append(s, x)[i] = x
         /\ \A i \in DOMAIN s : i < Len(s) + 1
  OBVIOUS

LEMMA AddListenerRows ==
  ASSUME IInv, TypeOK', NEW u \in Users, RowInv(u), AddListener(u)
  PROVE  RowInv(u)'
<1>. DEFINE L == [ids : SUBSET Ids, screen : Nat]
            n == Len(listeners[u])
<1>t. PICK t : t = Task(u)
  OBVIOUS
<1>l. PICK l : l = [ids |-> t.ids, screen |-> t.screen]
  OBVIOUS
<1>b. PICK b : b = Block("list", t.ids, SeesConvs(u), None, t.screen)
  OBVIOUS
<1>0. TypeOK /\ InOrder(u) /\ RowsFollow(u)
  BY DEF IInv, RowInv
<1>1. /\ worker[u] # <<>> /\ worker[u] \in Seq(Tasks) /\ worker'[u] = Tail(worker[u])
      /\ t = Head(worker[u]) /\ t.op = "listen" /\ t \in Tasks
  BY <1>t, TakesFacts DEF AddListener
<1>2. t.ids \subseteq Ids /\ t.screen \in Nat /\ SeesConvs(u) \subseteq Ids
  BY <1>0, <1>1, TaskTyped, StoredType
<1>3. /\ b \in Blocks /\ b.kind = "list" /\ b.screen = t.screen
      /\ l \in L /\ l.screen = t.screen
  BY <1>2, <1>l, <1>b, BlockType DEF Block
<1>4. /\ listeners' = [listeners EXCEPT ![u] = Append(@, l)]
      /\ main' = [main EXCEPT ![u] = Append(@, b)]
      /\ fetches' = fetches /\ screens' = screens
  BY <1>t, <1>l, <1>b DEF AddListener, place
<1>5. /\ listeners'[u] = Append(listeners[u], l) /\ listeners[u] \in Seq(L)
      /\ n \in Nat /\ DOMAIN listeners[u] = 1 .. n
  BY <1>0, <1>4, Typed, SeqFacts DEF TypeOK
<1>. HIDE DEF L
<1>6. main'[u] = main[u] \o <<b>>
  BY <1>0, <1>3, <1>4, MainOne
<1>7. <<b>> \in Seq(Blocks) /\ NoVisits(<<b>>)
  BY <1>3 DEF NoVisits
<1>8. Visited(u, 2, 1, t.screen)
  BY <1>1, TailIndex DEF Visited
<1>9. ASSUME NEW i, NEW m, Visited(u, 1, i, m)'
      PROVE  \/ Visited(u, 1, i, m) /\ i < n + 1
             \/ i = n + 1 /\ m = t.screen
  <2>1. i \in DOMAIN Append(listeners[u], l) /\ m = Append(listeners[u], l)[i].screen
    BY <1>5, <1>9 DEF Visited
  <2>. QED  BY <1>3, <1>5, <2>1, AppendCases DEF Visited
<1>10. InOrder(u)'
  <2>1. \A k, i, m : Visited(u, k, i, m)' => k \in 1 .. 4
    BY VisitTypesNext DEF VisitsTyped
  <2>2. /\ \A i, m : Visited(u, 2, i, m)' => Visited(u, 2, i + 1, m)
        /\ \A i, m : Visited(u, 3, i, m)' => Visited(u, 3, i, m)
        /\ \A i, m : Visited(u, 4, i, m)' => Visited(u, 4, i, m)
    BY <1>0, <1>1, <1>4, <1>6, <1>7, SameStages, TaskTaken, BlocksStage
  <2>3. \A k, i, m : Visited(u, k, i, m)' =>
          \/ k # 2 /\ Visited(u, k, i, m)
          \/ k = 2 /\ Visited(u, k, i + 1, m)
          \/ /\ k = 2 - 1 /\ Visited(u, 2, 1, m)
             /\ \A j, r : Visited(u, k, j, r)' /\ j # i => Visited(u, k, j, r) /\ j < i
    <3>. SUFFICES ASSUME NEW k, NEW i, NEW m, Visited(u, k, i, m)'
                  PROVE  \/ k # 2 /\ Visited(u, k, i, m)
                         \/ k = 2 /\ Visited(u, k, i + 1, m)
                         \/ /\ k = 2 - 1 /\ Visited(u, 2, 1, m)
                            /\ \A j, r : Visited(u, k, j, r)' /\ j # i
                                           => Visited(u, k, j, r) /\ j < i
      OBVIOUS
    <3>1. k = 1 \/ k = 2 \/ k = 3 \/ k = 4
      BY <2>1
    <3>2. CASE k = 1 /\ i = n + 1 /\ m = t.screen
      BY <1>8, <1>9, <3>2
    <3>. QED  BY <1>9, <2>2, <3>1, <3>2
  <2>. QED  BY <1>0, <1>4, <2>3, MovedOn
<1>11. ASSUME Answered(u)'  PROVE t.screen = screens[u]["list"]
  <2>q. PICK q : q = screens[u]["list"]
    OBVIOUS
  <2>0. \E i \in DOMAIN listeners'[u] : listeners'[u][i].screen = screens'[u]["list"]
    BY <1>11 DEF Answered
  <2>1. PICK i \in DOMAIN listeners'[u] : listeners'[u][i].screen = q
    BY <1>4, <2>q, <2>0
  <2>2. Visited(u, 1, i, q)'
    BY <2>1 DEF Visited
  <2>3. t.screen <= q /\ q \in Nat
    BY <1>0, <1>8, <2>q, Typed DEF InOrder
  <2>4. CASE Visited(u, 1, i, q)
    <3>1. q <= t.screen
      BY <1>0, <1>8, <2>4 DEF InOrder
    <3>. QED  BY <1>2, <2>q, <2>3, <3>1
  <2>. QED  BY <1>9, <2>q, <2>2, <2>4
<1>12. RowsFollow(u)'
  <2>1. ASSUME t.screen = screens[u]["list"]  PROVE LastOf(main'[u], screens[u]["list"])
    <3>1. /\ <<b>> # <<>> /\ <<b>>[Len(<<b>>)] = b /\ main[u] \in Seq(Blocks)
      BY <1>0, Typed
    <3>2. /\ <<b>>[Len(<<b>>)].kind = "list"
          /\ <<b>>[Len(<<b>>)].screen = screens[u]["list"]
      BY <1>3, <2>1, <3>1
    <3>. QED  BY <1>6, <1>7, <3>1, <3>2, ListsAdded
  <2>. QED  BY <1>4, <1>11, <2>1 DEF RowsFollow
<1>. QED  BY <1>10, <1>12 DEF RowInv

LEMMA HearRows ==
  ASSUME IInv, TypeOK', NEW u \in Users, RowInv(u),
         HearConvs(u) \/ HearList(u) \/ \E c \in Ids : HearMessages(u, c)
  PROVE  RowInv(u)'
<1>0. TypeOK /\ InOrder(u) /\ RowsFollow(u) /\ screens[u]["list"] \in Nat
  BY Typed DEF IInv, RowInv
<1>1. /\ listeners' = listeners /\ fetches' = fetches /\ shared' = shared /\ table' = table
      /\ front' = front /\ screens' = screens /\ worker' = worker
  BY DEF HearConvs, HearList, HearMessages, list, place
<1>2. /\ worker'[u] = worker[u] \o <<>> /\ fetches'[u] = fetches[u] \o <<>>
      /\ screens[u]["list"] <= screens'[u]["list"]
  BY <1>0, <1>1, NothingAdded
<1>3. ASSUME NEW t \in Seq(Blocks), main'[u] = main[u] \o t, NoVisits(t)
      PROVE  InOrder(u)'
  <2>1. \A i \in DOMAIN <<>> : <<>>[i] = screens'[u]["list"]
    OBVIOUS
  <2>. QED  BY <1>0, <1>1, <1>2, <1>3, <2>1, NothingAdded, QueuesGrow
<1>4. CASE HearConvs(u)
  <2>1. PICK docs \in SUBSET Ids : docs = SeesConvs(u) \cup convs
    BY <1>0, StoredType DEF TypeOK
  <2>2. main' = [main EXCEPT ![u] = main[u] \o ToldLists(u, docs)]
    BY <1>4, <2>1 DEF HearConvs, TellLists
  <2>3. main'[u] = main[u] \o ToldLists(u, docs) /\ ToldLists(u, docs) \in Seq(Blocks)
    BY <1>0, <2>2, MainMore, ToldFacts
  <2>4. RowsFollow(u)' /\ NoVisits(ToldLists(u, docs))
    BY <1>0, <1>1, <2>3, ToldInv
  <2>. QED  BY <1>3, <2>3, <2>4 DEF RowInv
<1>5. CASE HearList(u)
  <2>1. main'[u] = main[u] \o <<>>
    BY <1>0, <1>5, NothingAdded DEF HearList
  <2>2. RowsFollow(u)'
    BY <1>0, <1>1, <2>1, NothingAdded, RowsStay
  <2>. QED  BY <1>0, <1>3, <2>1, <2>2, NothingAdded DEF RowInv
<1>6. ASSUME NEW c \in Ids, HearMessages(u, c)  PROVE RowInv(u)'
  <2>0. TellReaders(u, c, SeesMessages(u, c) \cup {m \in posted : sent[m] = c})
    BY <1>6 DEF HearMessages
  <2>1. PICK docs : docs = SeesMessages(u, c) \cup {m \in posted : sent[m] = c}
    OBVIOUS
  <2>2. docs \in SUBSET Nat
    BY <1>0, <2>1, StoredType DEF TypeOK
  <2>3. TellReaders(u, c, docs)
    BY <2>0, <2>1
  <2>4. PICK t \in Seq(Blocks) : /\ main'[u] = main[u] \o t
                                 /\ \A b \in Elements(t) : b.kind = "talk"
  <3>1. PICK t \in Seq(Blocks) : Tells(u, c, docs, t)
    BY <2>2, <2>3, TellsExist
  <3>. QED  BY <3>1 DEF Tells
  <2>5. NoVisits(t) /\ NoLists(t)
    BY <2>4, TalkBlocks
  <2>6. RowsFollow(u)'
    BY <1>0, <1>1, <2>4, <2>5, RowsStay
  <2>. QED  BY <1>3, <2>4, <2>5, <2>6 DEF RowInv
<1>. QED  BY <1>4, <1>5, <1>6

LEMMA AnswerRows ==
  ASSUME IInv, TypeOK', NEW u \in Users, RowInv(u), Answer(u)
  PROVE  RowInv(u)'
<1>. DEFINE n == Len(main[u])
<1>h. PICK h : h = Head(fetches[u])
  OBVIOUS
<1>b. PICK b : b = Block("user", SeesList(u), {}, None, h)
  OBVIOUS
<1>0. TypeOK /\ InOrder(u) /\ RowsFollow(u)
  BY DEF IInv, RowInv
<1>1. /\ fetches[u] # <<>> /\ fetches' = [fetches EXCEPT ![u] = Tail(@)]
      /\ main' = [main EXCEPT ![u] = Append(@, b)]
      /\ listeners' = listeners /\ shared' = shared /\ table' = table
      /\ front' = front /\ screens' = screens /\ worker' = worker
  BY <1>h, <1>b DEF Answer, place
<1>2. /\ fetches[u] \in Seq(Nat) /\ fetches'[u] = Tail(fetches[u])
      /\ h \in Nat /\ h = fetches[u][1] /\ 1 \in DOMAIN fetches[u]
  <2>1. fetches \in [Users -> Seq(Nat)] /\ fetches[u] \in Seq(Nat)
    BY <1>0 DEF TypeOK
  <2>2. fetches'[u] = Tail(fetches[u])
    BY <1>1, <2>1
  <2>3. Head(fetches[u]) \in Nat /\ Head(fetches[u]) = fetches[u][1] /\ 1 \in DOMAIN fetches[u]
    BY <1>1, <2>1, TailIndex
  <2>. QED  BY <1>h, <2>1, <2>2, <2>3
<1>3. b \in Blocks /\ b.kind = "user" /\ b.screen = h
  BY <1>0, <1>2, <1>b, StoredType, BlockType DEF Block
<1>4. /\ main'[u] = main[u] \o <<b>> /\ main[u] \in Seq(Blocks)
      /\ main'[u] = Append(main[u], b) /\ n \in Nat
  BY <1>0, <1>1, <1>3, MainOne, Typed, AppendIsCat, SeqFacts
<1>5. Visited(u, 4, 1, h)
  BY <1>2 DEF Visited
<1>6. ASSUME NEW i, NEW m, Visited(u, 3, i, m)'
      PROVE  \/ Visited(u, 3, i, m) /\ i < n + 1
             \/ i = n + 1 /\ m = h
  <2>1. /\ i \in DOMAIN Append(main[u], b) /\ Append(main[u], b)[i].kind = "user"
        /\ m = Append(main[u], b)[i].screen
    BY <1>4, <1>6 DEF Visited
  <2>2. \/ i \in DOMAIN main[u] /\ Append(main[u], b)[i] = main[u][i] /\ i < n + 1
        \/ i = n + 1 /\ Append(main[u], b)[i] = b
    BY <1>3, <1>4, <2>1, AppendCases
  <2>. QED  BY <1>3, <2>1, <2>2 DEF Visited
<1>7. \A i, m : Visited(u, 4, i, m)' => Visited(u, 4, i + 1, m)
  <2>. SUFFICES ASSUME NEW i, NEW m, Visited(u, 4, i, m)'  PROVE Visited(u, 4, i + 1, m)
    OBVIOUS
  <2>1. i \in DOMAIN Tail(fetches[u]) /\ m = Tail(fetches[u])[i]
    BY <1>2 DEF Visited
  <2>2. i + 1 \in DOMAIN fetches[u] /\ Tail(fetches[u])[i] = fetches[u][i + 1]
    BY <1>1, <1>2, <2>1, TailIndex
  <2>. QED  BY <2>1, <2>2 DEF Visited
<1>8. InOrder(u)'
  <2>1. \A k, i, m : Visited(u, k, i, m)' => k \in 1 .. 4
    BY VisitTypesNext DEF VisitsTyped
  <2>2. /\ \A i, m : Visited(u, 1, i, m)' => Visited(u, 1, i, m)
        /\ \A i, m : Visited(u, 2, i, m)' => Visited(u, 2, i, m)
    BY <1>1, SameStages
  <2>3. \A k, i, m : Visited(u, k, i, m)' =>
          \/ k # 4 /\ Visited(u, k, i, m)
          \/ k = 4 /\ Visited(u, k, i + 1, m)
          \/ /\ k = 4 - 1 /\ Visited(u, 4, 1, m)
             /\ \A j, r : Visited(u, k, j, r)' /\ j # i => Visited(u, k, j, r) /\ j < i
    <3>. SUFFICES ASSUME NEW k, NEW i, NEW m, Visited(u, k, i, m)'
                  PROVE  \/ k # 4 /\ Visited(u, k, i, m)
                         \/ k = 4 /\ Visited(u, k, i + 1, m)
                         \/ /\ k = 4 - 1 /\ Visited(u, 4, 1, m)
                            /\ \A j, r : Visited(u, k, j, r)' /\ j # i
                                           => Visited(u, k, j, r) /\ j < i
      OBVIOUS
    <3>1. k = 1 \/ k = 2 \/ k = 3 \/ k = 4
      BY <2>1
    <3>2. CASE k = 3 /\ i = n + 1 /\ m = h
      BY <1>5, <1>6, <3>2
    <3>. QED  BY <1>6, <1>7, <2>2, <3>1, <3>2
  <2>. QED  BY <1>0, <1>1, <2>3, MovedOn
<1>9. RowsFollow(u)'
  <2>1. <<b>> \in Seq(Blocks) /\ NoLists(<<b>>)
    BY <1>3 DEF NoLists
  <2>. QED  BY <1>0, <1>1, <1>4, <2>1, RowsStay
<1>. QED  BY <1>8, <1>9 DEF RowInv

LEMMA UserFetchedRows ==
  ASSUME IInv, TypeOK', NEW u \in Followed, RowInv(u), UserFetched(u)
  PROVE  RowInv(u)'
<1>. DEFINE n == Len(worker[u])
<1>b. PICK b : b = Head(main[u])
  OBVIOUS
<1>t. PICK t : t = Listen(b.ids, b.screen)
  OBVIOUS
<1>0. u \in Users /\ TypeOK /\ InOrder(u) /\ RowsFollow(u)
  BY UsersAssumption DEF IInv, RowInv
<1>1. /\ main[u] # <<>> /\ main[u] \in Seq(Blocks) /\ b \in Blocks /\ b.kind = "user"
  BY <1>0, <1>b, TurnFacts DEF UserFetched
<1>2. /\ Done(u, <<>>) /\ Ask(u, <<t>>)
      /\ listeners' = listeners /\ shared' = shared /\ table' = table
      /\ front' = front /\ screens' = screens /\ fetches' = fetches
  BY <1>b, <1>t DEF UserFetched, place
<1>3. t \in Tasks /\ t.op = "listen" /\ t.screen = b.screen
  BY <1>1, <1>t, BlockTyped DEF Listen, Tasks
<1>4. /\ worker[u] \in Seq(Tasks) /\ worker'[u] = Append(worker[u], t) /\ n \in Nat
  <2>1. <<t>> \in Seq(Tasks) /\ worker[u] \in Seq(Tasks)
    BY <1>0, <1>3, Typed
  <2>2. worker'[u] = worker[u] \o <<t>>
    BY <1>0, <1>2, <2>1, AskFacts
  <2>. QED  BY <1>3, <2>1, <2>2, AppendIsCat, SeqFacts
<1>5. main'[u] = Tail(main[u])
  BY <1>0, <1>1, <1>2, DoneAll
<1>6. Visited(u, 3, 1, t.screen)
  BY <1>1, <1>3, <1>b, TailIndex DEF Visited
<1>7. ASSUME NEW i, NEW m, Visited(u, 2, i, m)'
      PROVE  \/ Visited(u, 2, i, m) /\ i < n + 1
             \/ i = n + 1 /\ m = t.screen
  <2>1. /\ i \in DOMAIN Append(worker[u], t) /\ Append(worker[u], t)[i].op = "listen"
        /\ m = Append(worker[u], t)[i].screen
    BY <1>4, <1>7 DEF Visited
  <2>2. \/ i \in DOMAIN worker[u] /\ Append(worker[u], t)[i] = worker[u][i] /\ i < n + 1
        \/ i = n + 1 /\ Append(worker[u], t)[i] = t
    BY <1>3, <1>4, <2>1, AppendCases
  <2>. QED  BY <2>1, <2>2 DEF Visited
<1>8. main'[u] = Tail(main[u]) \o <<>>
  BY <1>1, <1>5, TailIndex
<1>9. InOrder(u)'
  <2>1. \A k, i, m : Visited(u, k, i, m)' => k \in 1 .. 4
    BY <1>0, VisitTypesNext DEF VisitsTyped
  <2>2. /\ \A i, m : Visited(u, 1, i, m)' => Visited(u, 1, i, m)
        /\ \A i, m : Visited(u, 3, i, m)' => Visited(u, 3, i + 1, m)
        /\ \A i, m : Visited(u, 4, i, m)' => Visited(u, 4, i, m)
    BY <1>0, <1>1, <1>2, <1>8, NothingAdded, SameStages, BlocksStage
  <2>3. \A k, i, m : Visited(u, k, i, m)' =>
          \/ k # 3 /\ Visited(u, k, i, m)
          \/ k = 3 /\ Visited(u, k, i + 1, m)
          \/ /\ k = 3 - 1 /\ Visited(u, 3, 1, m)
             /\ \A j, r : Visited(u, k, j, r)' /\ j # i => Visited(u, k, j, r) /\ j < i
    <3>. SUFFICES ASSUME NEW k, NEW i, NEW m, Visited(u, k, i, m)'
                  PROVE  \/ k # 3 /\ Visited(u, k, i, m)
                         \/ k = 3 /\ Visited(u, k, i + 1, m)
                         \/ /\ k = 3 - 1 /\ Visited(u, 3, 1, m)
                            /\ \A j, r : Visited(u, k, j, r)' /\ j # i
                                           => Visited(u, k, j, r) /\ j < i
      OBVIOUS
    <3>1. k = 1 \/ k = 2 \/ k = 3 \/ k = 4
      BY <2>1
    <3>2. CASE k = 2 /\ i = n + 1 /\ m = t.screen
      BY <1>6, <1>7, <3>2
    <3>. QED  BY <1>7, <2>2, <3>1, <3>2
  <2>. QED  BY <1>0, <1>2, <2>3, MovedOn
<1>10. RowsFollow(u)'
  <2>1. front'[u] # "other" /\ Answered(u)' => front[u] # "other" /\ Answered(u)
    BY <1>2 DEF Answered
  <2>2. Head(main[u]).kind \notin {"list", "reload"}
    BY <1>1, <1>b
  <2>. QED  BY <1>0, <1>1, <1>2, <1>5, <2>1, <2>2, BlockRun DEF RowsFollow
<1>. QED  BY <1>9, <1>10 DEF RowInv

\* The array changes, and the reload that will show it is put on the queue.
LEMMA ShowListRows ==
  ASSUME IInv, TypeOK', NEW u \in Users, RowInv(u), ShowList(u)
  PROVE  RowInv(u)'
<1>b. PICK b : b = Head(main[u])
  OBVIOUS
<1>t. PICK t : t = <<Reload(b.screen)>>
  OBVIOUS
<1>0. TypeOK /\ InOrder(u) /\ RowsFollow(u)
  BY DEF IInv, RowInv
<1>1. /\ main[u] # <<>> /\ main[u] \in Seq(Blocks) /\ b \in Blocks /\ b.kind = "list"
      /\ Tail(main[u]) \in Seq(Blocks)
  BY <1>0, <1>b, TurnFacts DEF ShowList, Kept
<1>2. /\ Done(u, t)
      /\ listeners' = listeners /\ table' = table /\ worker' = worker
      /\ front' = front /\ screens' = screens /\ fetches' = fetches
  BY <1>b, <1>t DEF ShowList, Kept, place, Reloads
<1>3. /\ t \in Seq(Blocks) /\ t # <<>> /\ t[1].kind = "reload" /\ t[1].screen = b.screen
      /\ NoVisits(t) /\ NoLists(t)
  <2>1. Reload(b.screen) \in Blocks
    BY <1>1, BlockTyped, BlockType DEF Reload
  <2>2. Reload(b.screen).kind = "reload" /\ Reload(b.screen).screen = b.screen
    BY DEF Reload, Block
  <2>. QED  BY <1>t, <2>1, <2>2 DEF NoVisits, NoLists
<1>4. main'[u] = Tail(main[u]) \o t
  BY <1>0, <1>1, <1>2, <1>3, DoneFacts
<1>5. InOrder(u)'
  BY <1>0, <1>1, <1>2, <1>3, <1>4, BlockDone
<1>6. ASSUME front'[u] # "other", Answered(u)'  PROVE RowsFollow(u)'
  <2>0. front[u] # "other" /\ Answered(u)
    BY <1>2, <1>6 DEF Answered
  <2>1. LastOf(main[u], screens[u]["list"])
    <3>1. ~NoLists(main[u])
      BY <1>1, <1>b, BlockRun
    <3>. QED  BY <1>0, <2>0, <3>1 DEF RowsFollow
  <2>2. CASE LastOf(Tail(main[u]), screens[u]["list"])
    <3>1. LastOf(main'[u], screens[u]["list"])
      BY <1>1, <1>3, <1>4, <2>2, BlocksAdded
    <3>. QED  BY <1>2, <3>1 DEF RowsFollow
  <2>3. CASE b.screen = screens[u]["list"] /\ NoLists(Tail(main[u]))
    <3>1. NoLists(main'[u])
      BY <1>1, <1>3, <1>4, <2>3, BlocksAdded
    <3>2. WillReload(Tail(main[u]) \o t, b.screen)
      BY <1>1, <1>3, ReloadAdded
    <3>. QED  BY <1>2, <1>4, <2>3, <3>1, <3>2 DEF RowsFollow
  <2>. QED  BY <1>1, <1>b, <2>1, <2>2, <2>3, BlockRun
<1>7. RowsFollow(u)'
  BY <1>6 DEF RowsFollow
<1>. QED  BY <1>5, <1>7 DEF RowInv

LEMMA ReloadTableRows ==
  ASSUME IInv, TypeOK', NEW u \in Users, RowInv(u), ReloadTable(u)
  PROVE  RowInv(u)'
<1>b. PICK b : b = Head(main[u])
  OBVIOUS
<1>0. TypeOK /\ InOrder(u) /\ RowsFollow(u)
  BY DEF IInv, RowInv
<1>1. /\ main[u] # <<>> /\ main[u] \in Seq(Blocks) /\ b \in Blocks /\ b.kind = "reload"
  BY <1>0, <1>b, TurnFacts DEF ReloadTable
<1>2. /\ Done(u, <<>>)
      /\ listeners' = listeners /\ shared' = shared /\ worker' = worker
      /\ front' = front /\ screens' = screens /\ fetches' = fetches
      /\ table' = IF b.screen = screens[u]["list"]
                    THEN [table EXCEPT ![u] = shared[u]] ELSE table
  BY <1>b DEF ReloadTable, place
<1>3. main'[u] = Tail(main[u]) /\ main'[u] = Tail(main[u]) \o <<>>
  BY <1>0, <1>1, <1>2, DoneAll, TailIndex
<1>4. InOrder(u)'
  BY <1>0, <1>1, <1>2, <1>3, NothingAdded, BlockDone
<1>5. table \in [Users -> Seq(Ids)]
  BY <1>0 DEF TypeOK
<1>6. ASSUME front'[u] # "other", Answered(u)'
      PROVE  \/ LastOf(main'[u], screens[u]["list"])
             \/ /\ NoLists(main'[u])
                /\ table'[u] = shared[u] \/ WillReload(main'[u], screens[u]["list"])
  <2>0. front[u] # "other" /\ Answered(u)
    BY <1>2, <1>6 DEF Answered
  <2>1. CASE LastOf(main[u], screens[u]["list"])
    BY <1>1, <1>3, <1>b, <2>1, BlockRun
  <2>2. CASE NoLists(main[u]) /\ b.screen = screens[u]["list"]
    BY <1>1, <1>2, <1>3, <1>5, <2>2, BlockRun
  <2>3. CASE NoLists(main[u]) /\ b.screen # screens[u]["list"]
    <3>1. table'[u] = table[u] /\ NoLists(main'[u])
      BY <1>1, <1>2, <1>3, <2>3, BlockRun
    <3>2. CASE table[u] = shared[u]
      BY <3>1, <3>2
    <3>3. CASE WillReload(main[u], screens[u]["list"])
      BY <1>1, <1>3, <1>b, <2>3, <3>1, <3>3, BlockRun
    <3>4. ~LastOf(main[u], screens[u]["list"])
      BY <2>3 DEF LastOf, NoLists
    <3>. QED  BY <1>0, <2>0, <3>2, <3>3, <3>4 DEF RowsFollow
  <2>. QED  BY <1>0, <2>0, <2>1, <2>2, <2>3 DEF RowsFollow
<1>7. RowsFollow(u)'
  BY <1>2, <1>6 DEF RowsFollow
<1>. QED  BY <1>4, <1>7 DEF RowInv

LEMMA ShowMessagesRows ==
  ASSUME IInv, TypeOK', NEW u \in Users, RowInv(u), ShowMessages(u)
  PROVE  RowInv(u)'
<1>b. PICK b : b = Head(main[u])
  OBVIOUS
<1>0. TypeOK /\ InOrder(u) /\ RowsFollow(u)
  BY DEF IInv, RowInv
<1>1. /\ main[u] # <<>> /\ main[u] \in Seq(Blocks) /\ b \in Blocks /\ b.kind = "talk"
  BY <1>0, <1>b, TurnFacts DEF ShowMessages
<1>2. /\ Done(u, <<>>)
      /\ listeners' = listeners /\ shared' = shared /\ worker' = worker /\ table' = table
      /\ front' = front /\ screens' = screens /\ fetches' = fetches
  BY <1>b DEF ShowMessages, list, place
<1>3. main'[u] = Tail(main[u]) /\ main'[u] = Tail(main[u]) \o <<>>
  BY <1>0, <1>1, <1>2, DoneAll, TailIndex
<1>4. InOrder(u)'
  BY <1>0, <1>1, <1>2, <1>3, NothingAdded, BlockDone
<1>5. front'[u] # "other" /\ Answered(u)' => front[u] # "other" /\ Answered(u)
  BY <1>2 DEF Answered
<1>6. RowsFollow(u)'
  BY <1>0, <1>1, <1>2, <1>3, <1>5, <1>b, BlockRun DEF RowsFollow
<1>. QED  BY <1>4, <1>6 DEF RowInv

LEMMA OpenListRows ==
  ASSUME IInv, TypeOK', NEW u \in Users, RowInv(u), OpenList(u)
  PROVE  RowInv(u)'
<1>s. PICK n : n = screens[u]["list"] + 1
  OBVIOUS
<1>f. PICK f : f = [i \in 1 .. 2 |-> n]
  OBVIOUS
<1>0. /\ TypeOK /\ InOrder(u) /\ screens[u]["list"] \in Nat /\ n \in Nat
      /\ screens[u]["list"] < n
  BY <1>s, Typed DEF IInv, RowInv
<1>1. /\ listeners' = listeners /\ main' = main /\ worker' = worker
      /\ fetches' = [fetches EXCEPT ![u] = @ \o f]
      /\ screens' = [screens EXCEPT ![u]["list"] = @ + 1]
  BY <1>s, <1>f DEF OpenList, Fetch
<1>2. screens'[u]["list"] = n
  BY <1>0, <1>1, <1>s DEF TypeOK, Kinds
<1>3. f \in Seq(Nat) /\ \A i \in DOMAIN f : f[i] = n
  BY <1>0, <1>f, Stacked
<1>4. fetches'[u] = fetches[u] \o f
  BY <1>0, <1>1 DEF TypeOK
<1>5. /\ main'[u] = main[u] \o <<>> /\ worker'[u] = worker[u] \o <<>>
      /\ listeners'[u] = listeners[u]
  BY <1>0, <1>1, NothingAdded
<1>6. InOrder(u)'
  <2>1. /\ listeners'[u] = listeners[u] /\ screens[u]["list"] <= screens'[u]["list"]
        /\ \A i \in DOMAIN f : f[i] = screens'[u]["list"]
    BY <1>0, <1>2, <1>3, <1>5, NothingAdded
  <2>2. <<>> \in Seq(Blocks) /\ NoVisits(<<>>) /\ <<>> \in Seq(Tasks) /\ NoListens(<<>>)
    BY <1>0, NothingAdded
  <2>. QED  BY <1>0, <2>1, <2>2, <1>2, <1>3, <1>4, <1>5, QueuesGrow
<1>7. ~Answered(u)'
  <2>1. SUFFICES ASSUME NEW i \in DOMAIN listeners[u], listeners[u][i].screen = n  PROVE FALSE
    BY <1>1, <1>2 DEF Answered
  <2>2. n <= screens[u]["list"]
    BY <1>0, <2>1 DEF InOrder, Visited
  <2>. QED  BY <1>0, <2>2
<1>. QED  BY <1>6, <1>7 DEF RowInv, RowsFollow

LEMMA LeaveListRows ==
  ASSUME IInv, NEW u \in Users, RowInv(u), LeaveList(u)
  PROVE  RowInv(u)'
<1>1. /\ listeners' = listeners /\ main' = main /\ worker' = worker /\ fetches' = fetches
      /\ screens' = screens /\ front'[u] = "other"
  BY DEF LeaveList, IInv, TypeOK
<1>2. InOrder(u)'
  BY <1>1 DEF RowInv, InOrder, Visited
<1>. QED  BY <1>1, <1>2 DEF RowInv, RowsFollow

\* Whoever writes, or opens a conversation, adds no listen task.
LEMMA Asked ==
  ASSUME TypeOK, NEW u \in Users, NEW t \in Seq(Tasks), NoListens(t), Ask(u, t)
  PROVE  \E w \in Seq(Tasks) : NoListens(w) /\ worker'[u] = worker[u] \o w
<1>1. CASE u \in Followed
  BY <1>1, AskFacts
<1>2. CASE u \notin Followed
  <2>1. worker'[u] = worker[u] \o <<>>
    BY <1>2, NothingAdded DEF Ask
  <2>. QED  BY <2>1, NothingAdded
<1>. QED  BY <1>1, <1>2

LEMMA OpenTalkRows ==
  ASSUME IInv, TypeOK', NEW u \in Users, RowInv(u), NEW row, OpenTalk(u, row)
  PROVE  RowInv(u)'
<1>t. PICK t : t = Read(shared[u][row], screens[u]["talk"] + 1)
  OBVIOUS
<1>0. TypeOK /\ InOrder(u) /\ RowsFollow(u)
  BY DEF IInv, RowInv
<1>1. /\ front[u] = "list" /\ row \in DOMAIN shared[u] /\ Ask(u, <<t>>)
      /\ listeners' = listeners /\ main' = main /\ fetches' = fetches
      /\ shared' = shared /\ table' = table
      /\ screens' = [screens EXCEPT ![u]["talk"] = @ + 1]
  BY <1>t DEF OpenTalk, list
<1>2. /\ screens'[u]["list"] = screens[u]["list"] /\ screens[u]["list"] \in Nat
      /\ screens[u]["talk"] + 1 \in Nat
  BY <1>0, <1>1 DEF TypeOK, Kinds
<1>3. t \in Tasks /\ t.op = "read"
  <2>1. shared[u][row] \in Ids
    BY <1>0, <1>1, Typed, SeqFacts
  <2>. QED  BY <1>2, <1>t, <2>1 DEF Read, Tasks
<1>4. <<t>> \in Seq(Tasks) /\ NoListens(<<t>>)
  BY <1>3 DEF NoListens
<1>5. PICK w \in Seq(Tasks) : NoListens(w) /\ worker'[u] = worker[u] \o w
  BY <1>0, <1>1, <1>4, Asked
<1>6. main'[u] = main[u] \o <<>> /\ fetches'[u] = fetches[u] \o <<>>
  BY <1>0, <1>1, NothingAdded
<1>7. InOrder(u)'
  <2>1. /\ listeners'[u] = listeners[u] /\ screens[u]["list"] <= screens'[u]["list"]
        /\ \A i \in DOMAIN <<>> : <<>>[i] = screens'[u]["list"]
    BY <1>0, <1>1, <1>2, NothingAdded
  <2>2. <<>> \in Seq(Blocks) /\ NoVisits(<<>>) /\ <<>> \in Seq(Nat)
    BY <1>0, NothingAdded
  <2>. QED  BY <1>0, <2>1, <2>2, <1>1, <1>2, <1>5, <1>6, QueuesGrow
<1>8. RowsFollow(u)'
  BY <1>0, <1>1, <1>2, <1>6, NothingAdded, RowsStay
<1>. QED  BY <1>7, <1>8 DEF RowInv

LEMMA LeaveTalkRows ==
  ASSUME IInv, TypeOK', NEW u \in Users, RowInv(u), LeaveTalk(u)
  PROVE  RowInv(u)'
<1>s. PICK n : n = screens[u]["list"]
  OBVIOUS
<1>f. PICK f : f = [i \in 1 .. 1 |-> n]
  OBVIOUS
<1>0. TypeOK /\ InOrder(u) /\ RowsFollow(u)
  BY DEF IInv, RowInv
<1>1. /\ front[u] = "talk" /\ listeners' = listeners /\ main' = main /\ worker' = worker
      /\ fetches' = [fetches EXCEPT ![u] = @ \o f]
      /\ shared' = shared /\ table' = table
      /\ screens' = [screens EXCEPT ![u]["talk"] = @ + 1]
  BY <1>s, <1>f DEF LeaveTalk, Fetch
<1>2. screens'[u]["list"] = n /\ n \in Nat
  BY <1>0, <1>1, <1>s DEF TypeOK, Kinds
<1>3. f \in Seq(Nat) /\ \A i \in DOMAIN f : f[i] = n
  BY <1>2, <1>f, Stacked
<1>4. fetches'[u] = fetches[u] \o f
  BY <1>0, <1>1 DEF TypeOK
<1>5. main'[u] = main[u] \o <<>> /\ worker'[u] = worker[u] \o <<>>
  BY <1>0, <1>1, NothingAdded
<1>6. InOrder(u)'
  <2>1. /\ listeners'[u] = listeners[u] /\ screens[u]["list"] <= screens'[u]["list"]
        /\ \A i \in DOMAIN f : f[i] = screens'[u]["list"]
    BY <1>0, <1>1, <1>2, <1>3, <1>s, NothingAdded
  <2>2. <<>> \in Seq(Blocks) /\ NoVisits(<<>>) /\ <<>> \in Seq(Tasks) /\ NoListens(<<>>)
    BY <1>0, NothingAdded
  <2>. QED  BY <1>0, <2>1, <2>2, <1>1, <1>2, <1>3, <1>4, <1>5, <1>s, QueuesGrow
<1>7. RowsFollow(u)'
  BY <1>0, <1>1, <1>2, <1>5, <1>s, NothingAdded, RowsStay
<1>. QED  BY <1>6, <1>7 DEF RowInv

LEMMA SendRows ==
  ASSUME IInv, TypeOK', NEW u \in Users, RowInv(u), NEW c \in Ids, Send(u, c)
  PROVE  RowInv(u)'
<1>t. PICK t : t = Write("message", c, u, Len(sent) + 1)
  OBVIOUS
<1>0. TypeOK /\ InOrder(u) /\ RowsFollow(u) /\ screens[u]["list"] \in Nat
  BY Typed DEF IInv, RowInv
<1>1. /\ Ask(u, <<t>>) /\ listeners' = listeners /\ main' = main /\ fetches' = fetches
      /\ shared' = shared /\ table' = table /\ screens' = screens /\ front' = front
  BY <1>t DEF Send, list, place
<1>2. t \in Tasks /\ t.op = "message"
  <2>1. Len(sent) + 1 \in Nat
    BY <1>0, Typed
  <2>. QED  BY <1>t, <2>1 DEF Write, Tasks, WriteTasks
<1>3. <<t>> \in Seq(Tasks) /\ NoListens(<<t>>)
  BY <1>2 DEF NoListens
<1>4. PICK w \in Seq(Tasks) : NoListens(w) /\ worker'[u] = worker[u] \o w
  BY <1>0, <1>1, <1>3, Asked
<1>5. main'[u] = main[u] \o <<>> /\ fetches'[u] = fetches[u] \o <<>>
  BY <1>0, <1>1, NothingAdded
<1>6. InOrder(u)'
  <2>1. /\ listeners'[u] = listeners[u] /\ screens[u]["list"] <= screens'[u]["list"]
        /\ \A i \in DOMAIN <<>> : <<>>[i] = screens'[u]["list"]
    BY <1>0, <1>1, NothingAdded
  <2>2. <<>> \in Seq(Blocks) /\ NoVisits(<<>>) /\ <<>> \in Seq(Nat)
    BY <1>0, NothingAdded
  <2>. QED  BY <1>0, <2>1, <2>2, <1>1, <1>4, <1>5, QueuesGrow
<1>7. RowsFollow(u)'
  BY <1>0, <1>1, <1>5, NothingAdded, RowsStay
<1>. QED  BY <1>6, <1>7 DEF RowInv

LEMMA CreateRows ==
  ASSUME IInv, TypeOK', NEW u \in Users, RowInv(u), NEW c \in Ids, NEW s \in Seq(Users),
         Create(u, c, s)
  PROVE  RowInv(u)'
<1>0. TypeOK /\ InOrder(u) /\ RowsFollow(u) /\ screens[u]["list"] \in Nat
  BY Typed DEF IInv, RowInv
<1>1. /\ Ask(u, ConvFirst(c, s)) /\ listeners' = listeners /\ main' = main
      /\ shared' = shared /\ table' = table /\ screens' = screens /\ front' = front
      /\ Fetch(u, 1, screens[u]["list"]) \/ fetches' = fetches
  BY DEF Create, place
<1>2. ConvFirst(c, s) \in Seq(Tasks) /\ NoListens(ConvFirst(c, s))
  <2>1. ConvFirst(c, s) \in Seq(WriteTasks)
    BY ConvFirstFacts
  <2>2. \A S, T : S \subseteq T => Seq(S) \subseteq Seq(T)
    OBVIOUS
  <2>3. WriteTasks \subseteq Tasks
    BY DEF Tasks
  <2>4. \A w \in Elements(ConvFirst(c, s)) : w.op # "listen"
    BY ConvFirstFacts
  <2>. QED  BY <2>1, <2>2, <2>3, <2>4 DEF NoListens, Elements
<1>3. PICK w \in Seq(Tasks) : NoListens(w) /\ worker'[u] = worker[u] \o w
  BY <1>0, <1>1, <1>2, Asked
<1>4. PICK f \in Seq(Nat) : /\ fetches'[u] = fetches[u] \o f
                            /\ \A i \in DOMAIN f : f[i] = screens[u]["list"]
  <2>1. CASE Fetch(u, 1, screens[u]["list"])
    <3>f. PICK f : f = [i \in 1 .. 1 |-> screens[u]["list"]]
      OBVIOUS
    <3>1. f \in Seq(Nat) /\ \A i \in DOMAIN f : f[i] = screens[u]["list"]
      BY <1>0, <3>f, Stacked
    <3>2. fetches'[u] = fetches[u] \o f
      BY <1>0, <2>1, <3>f DEF Fetch, TypeOK
    <3>. QED  BY <3>1, <3>2
  <2>2. CASE fetches' = fetches
    <3>1. fetches'[u] = fetches[u] \o <<>> /\ <<>> \in Seq(Nat)
      BY <1>0, <2>2, NothingAdded
    <3>2. \A i \in DOMAIN <<>> : <<>>[i] = screens[u]["list"]
      BY <1>0, NothingAdded
    <3>. QED  BY <3>1, <3>2
  <2>. QED  BY <1>1, <2>1, <2>2
<1>5. main'[u] = main[u] \o <<>>
  BY <1>0, <1>1, NothingAdded
<1>6. InOrder(u)'
  <2>1. /\ listeners'[u] = listeners[u] /\ screens[u]["list"] <= screens'[u]["list"]
        /\ \A i \in DOMAIN f : f[i] = screens'[u]["list"]
    BY <1>0, <1>1, <1>4, NothingAdded
  <2>2. <<>> \in Seq(Blocks) /\ NoVisits(<<>>)
    BY <1>0, NothingAdded
  <2>. QED  BY <1>0, <2>1, <2>2, <1>1, <1>3, <1>4, <1>5, QueuesGrow
<1>7. RowsFollow(u)'
  BY <1>0, <1>1, <1>5, NothingAdded, RowsStay
<1>. QED  BY <1>6, <1>7 DEF RowInv

\* An app that is started again has neither visits nor rows.
LEMMA RestartRows ==
  ASSUME IInv, NEW u \in Users, Restart(u)
  PROVE  RowInv(u)'
<1>1. /\ listeners'[u] = <<>> /\ worker'[u] = <<>> /\ main'[u] = <<>> /\ fetches'[u] = <<>>
      /\ front'[u] = "other"
  BY DEF Restart, IInv, TypeOK
<1>2. \A k, i, n : ~Visited(u, k, i, n)'
  BY <1>1 DEF Visited
<1>3. InOrder(u)'
  BY <1>2 DEF InOrder
<1>. QED  BY <1>1, <1>3 DEF RowInv, RowsFollow

----------------------------------------------------------------------------
(* The invariant is kept.                                                  *)

VisitState(u) ==
  <<listeners[u], worker[u], main[u], fetches[u], shared[u], table[u], front[u],
    screens[u]["list"]>>

LEMMA KeptRows ==
  ASSUME NEW u, RowInv(u), VisitState(u)' = VisitState(u)
  PROVE  RowInv(u)'
<1>1. /\ listeners'[u] = listeners[u] /\ worker'[u] = worker[u] /\ main'[u] = main[u]
      /\ fetches'[u] = fetches[u] /\ shared'[u] = shared[u] /\ table'[u] = table[u]
      /\ front'[u] = front[u] /\ screens'[u]["list"] = screens[u]["list"]
  BY DEF VisitState
<1>2. InOrder(u)'
  BY <1>1 DEF RowInv, InOrder, Visited
<1>3. RowsFollow(u)'
  BY <1>1 DEF RowInv, RowsFollow, Answered
<1>. QED  BY <1>2, <1>3 DEF RowInv

\* An action on one device leaves the rows of the others as they are.
LEMMA OtherRows ==
  ASSUME IInv, NEW u \in Users, NEW v \in Users \ {u},
         \/ Serve(u)
         \/ \E c \in Ids : Send(u, c) \/ HearMessages(u, c)
         \/ \E c \in Ids : \E s \in Seq(Users) : Create(u, c, s)
         \/ Work(u) \/ RunBlock(u) \/ Answer(u)
         \/ HearConvs(u) \/ HearList(u)
         \/ Visit(u) \/ Restart(u)
  PROVE  VisitState(v)' = VisitState(v)
<1>1. /\ listeners \in [Users -> Seq([ids : SUBSET Ids, screen : Nat])]
      /\ worker \in [Users -> Seq(Tasks)] /\ main \in [Users -> Seq(Blocks)]
      /\ fetches \in [Users -> Seq(Nat)] /\ shared \in [Users -> Seq(Ids)]
      /\ table \in [Users -> Seq(Ids)] /\ front \in [Users -> {"list", "talk", "other"}]
      /\ screens \in [Users -> [Kinds -> Nat]]
  BY DEF IInv, TypeOK
<1>2. CASE Serve(u) \/ HearList(u)
  BY <1>2 DEF Serve, HearList, list, place, VisitState
<1>3. CASE \E c \in Ids : Send(u, c) \/ HearMessages(u, c)
  BY <1>1, <1>3 DEF Send, Ask, HearMessages, TellReaders, list, place, VisitState
<1>4. CASE \E c \in Ids : \E s \in Seq(Users) : Create(u, c, s)
  BY <1>1, <1>4 DEF Create, Ask, Fetch, place, VisitState
<1>5. CASE Work(u)
  BY <1>1, <1>5
    DEF Work, StoreWrite, AddListener, AddReader, Takes, TellLists, TellReaders, list, place,
        VisitState
<1>6. CASE RunBlock(u)
  BY <1>1, <1>6
    DEF RunBlock, UserFetched, ShowList, ReloadTable, ShowMessages, Turn, Done, Ask, list,
        place, VisitState
<1>7. CASE Answer(u) \/ HearConvs(u)
  BY <1>1, <1>7 DEF Answer, HearConvs, TellLists, list, place, VisitState
<1>8. CASE Visit(u)
  BY <1>1, <1>8 DEF Visit, OpenList, LeaveList, OpenTalk, LeaveTalk, Fetch, Ask, list, VisitState
<1>9. CASE Restart(u)
  BY <1>1, <1>9 DEF Restart, VisitState
<1>. QED  BY <1>2, <1>3, <1>4, <1>5, <1>6, <1>7, <1>8, <1>9

RowsInv == IInv /\ \A u \in Users : RowInv(u)

LEMMA RowsInit == Init => RowsInv
<1>. SUFFICES ASSUME Init  PROVE RowsInv
  OBVIOUS
<1>1. ASSUME NEW u \in Users  PROVE RowInv(u)
  <2>1. /\ listeners[u] = <<>> /\ worker[u] = <<>> /\ main[u] = <<>> /\ fetches[u] = <<>>
        /\ front[u] = "other"
    BY DEF Init
  <2>2. \A k, i, n : ~Visited(u, k, i, n)
    BY <2>1 DEF Visited
  <2>. QED  BY <2>1, <2>2 DEF RowInv, InOrder, RowsFollow
<1>. QED  BY <1>1, InitInv DEF RowsInv

LEMMA RowsNext ==
  ASSUME RowsInv, [Next]_vars
  PROVE  RowsInv'
<1>0. /\ IInv /\ IInv' /\ TypeOK' /\ Followed \subseteq Users
      /\ \A u \in Users : RowInv(u)
  BY NextInv, UsersAssumption DEF RowsInv, IInv
<1>r. ASSUME NEW u \in Users, RowInv(u)', \A v \in Users \ {u} : VisitState(v)' = VisitState(v)
      PROVE  RowsInv'
  <2>1. ASSUME NEW v \in Users  PROVE RowInv(v)'
    BY <1>0, <1>r, KeptRows
  <2>. QED  BY <1>0, <2>1 DEF RowsInv
<1>1. ASSUME NEW u \in Users, Serve(u)  PROVE RowsInv'
  <2>1. VisitState(u)' = VisitState(u)
    BY <1>1 DEF Serve, list, place, VisitState
  <2>. QED  BY <1>0, <1>1, <1>r, <2>1, KeptRows, OtherRows
<1>2. ASSUME NEW u \in Users, NEW c \in Ids, Send(u, c)  PROVE RowsInv'
  BY <1>0, <1>2, <1>r, SendRows, OtherRows
<1>3. ASSUME NEW u \in Users, NEW c \in Ids, NEW others \in SUBSET (Users \ {u}),
             NEW s \in IF others = {} THEN {<<>>} ELSE Selected(u, others), Create(u, c, s)
      PROVE  RowsInv'
  <2>1. s \in Seq(Users)
    BY SelectedType
  <2>. QED  BY <1>0, <1>3, <1>r, <2>1, CreateRows, OtherRows
<1>4. ASSUME NEW u \in Followed, Work(u)  PROVE RowsInv'
  <2>1. RowInv(u)'
    BY <1>0, <1>4, StoreWriteRows, AddListenerRows, AddReaderRows DEF Work
  <2>. QED  BY <1>0, <1>4, <1>r, <2>1, OtherRows
<1>5. ASSUME NEW u \in Followed, RunBlock(u)  PROVE RowsInv'
  <2>1. RowInv(u)'
    BY <1>0, <1>5, UserFetchedRows, ShowListRows, ReloadTableRows, ShowMessagesRows
      DEF RunBlock
  <2>. QED  BY <1>0, <1>5, <1>r, <2>1, OtherRows
<1>6. ASSUME NEW u \in Followed,
             Answer(u) \/ HearConvs(u) \/ HearList(u) \/ \E c \in Ids : HearMessages(u, c)
      PROVE  RowsInv'
  <2>1. RowInv(u)'
    BY <1>0, <1>6, AnswerRows, HearRows
  <2>. QED  BY <1>0, <1>6, <1>r, <2>1, OtherRows
<1>7. ASSUME NEW u \in Followed, Visit(u)  PROVE RowsInv'
  <2>1. RowInv(u)'
    BY <1>0, <1>7, OpenListRows, LeaveListRows, OpenTalkRows, LeaveTalkRows DEF Visit
  <2>. QED  BY <1>0, <1>7, <1>r, <2>1, OtherRows
<1>8. ASSUME NEW u \in Followed, Kill(u) \/ CrashOnRow(u)  PROVE RowsInv'
  <2>1. Restart(u) /\ u \in Users
    BY <1>0, <1>8 DEF Kill, CrashOnRow
  <2>. QED  BY <1>0, <1>r, <2>1, RestartRows, OtherRows
<1>9. CASE UNCHANGED vars
  <2>1. \A u \in Users : VisitState(u)' = VisitState(u)
    BY <1>9 DEF vars, list, place, VisitState
  <2>2. \A u \in Users : RowInv(u)'
    BY <1>0, <2>1, KeptRows
  <2>. QED  BY <1>0, <2>2 DEF RowsInv
<1>. QED  BY <1>1, <1>2, <1>3, <1>4, <1>5, <1>6, <1>7, <1>8, <1>9 DEF Next

----------------------------------------------------------------------------
(* Theorem.                                                                *)

\* A tap opens the conversation whose row it hits once the main queue is empty and the
\* screen has had its first answer, however many listeners of closed screens go on
\* filling the shared array (tableView and prepare(for:) of
\* ConversationListTableViewController).
THEOREM RowsAreConversations == Spec => []RowIsConversation
<1>1. RowsInv => RowIsConversation
  BY DEF RowsInv, RowInv, RowsFollow, RowIsConversation, Answered, LastOf, WillReload
<1>. QED  BY <1>1, RowsInit, RowsNext, PTL DEF Spec

----------------------------------------------------------------------------
(* What a message screen shows.                                            *)

ForScreen(b, n) == b.kind = "talk" /\ b.screen = n

NoneFor(s, n) == \A i \in DOMAIN s : ~ForScreen(s[i], n)

\* The last block of s for screen n brings docs.
LastTells(s, n, docs) ==
  \A i \in DOMAIN s :
    (ForScreen(s[i], n) /\ \A j \in DOMAIN s : j > i => ~ForScreen(s[j], n))
      => s[i].docs = docs

\* A screen that shows cur comes to show docs as the blocks of s run.
Told(s, n, docs, cur) == LastTells(s, n, docs) /\ (NoneFor(s, n) => cur = docs)

Reads(u) ==
  front[u] = "talk" /\ \E r \in Elements(readers[u]) : r.screen = screens[u]["talk"]

\* Once its reader is there, the screen in front shows, or is about to be told, all that
\* the device sees of its conversation.
Following(u) ==
  Reads(u) => Told(main[u], screens[u]["talk"], SeesMessages(u, opened[u]), shown[u])

LEMMA ToldMore ==
  ASSUME NEW S, NEW s \in Seq(S), NEW t \in Seq(S), NEW n, NEW docs, NEW cur,
         NoneFor(t, n), Told(s, n, docs, cur)
  PROVE  Told(s \o t, n, docs, cur)
<1>1. ASSUME NEW i \in DOMAIN (s \o t), ForScreen((s \o t)[i], n)
      PROVE  i \in DOMAIN s /\ (s \o t)[i] = s[i]
  <2>1. CASE i \in DOMAIN s
    BY <2>1, CatIndex
  <2>2. CASE i > Len(s) /\ i - Len(s) \in DOMAIN t
    <3>1. i = Len(s) + (i - Len(s))
      BY CatIndex
    <3>2. (s \o t)[i] = t[i - Len(s)]
      BY <2>2, <3>1, CatIndex
    <3>. QED  BY <1>1, <2>2, <3>2 DEF NoneFor
  <2>. QED  BY <2>1, <2>2, CatIndex
<1>2. \A i \in DOMAIN s : i \in DOMAIN (s \o t) /\ (s \o t)[i] = s[i]
  BY CatIndex
<1>3. NoneFor(s \o t, n) => NoneFor(s, n)
  BY <1>2 DEF NoneFor
<1>4. LastTells(s \o t, n, docs)
  <2>. SUFFICES ASSUME NEW i \in DOMAIN (s \o t), ForScreen((s \o t)[i], n),
                       \A j \in DOMAIN (s \o t) : j > i => ~ForScreen((s \o t)[j], n)
                PROVE  (s \o t)[i].docs = docs
    BY DEF LastTells
  <2>1. i \in DOMAIN s /\ (s \o t)[i] = s[i]
    BY <1>1
  <2>2. \A j \in DOMAIN s : j > i => ~ForScreen(s[j], n)
    BY <1>2
  <2>. QED  BY <2>1, <2>2 DEF Told, LastTells
<1>. QED  BY <1>3, <1>4 DEF Told

LEMMA ToldNew ==
  ASSUME NEW S, NEW s \in Seq(S), NEW t \in Seq(S), NEW n, NEW docs, NEW cur,
         \E b \in Elements(t) : ForScreen(b, n),
         \A b \in Elements(t) : ForScreen(b, n) => b.docs = docs
  PROVE  Told(s \o t, n, docs, cur)
<1>1. PICK k \in DOMAIN t : ForScreen(t[k], n)
  BY DEF Elements
<1>2. /\ Len(s) + k \in DOMAIN (s \o t) /\ (s \o t)[Len(s) + k] = t[k]
      /\ Len(s) \in Nat /\ k \in Nat /\ k > 0 /\ DOMAIN s = 1 .. Len(s)
  BY CatIndex
<1>3. ~NoneFor(s \o t, n)
  BY <1>1, <1>2 DEF NoneFor
<1>4. LastTells(s \o t, n, docs)
  <2>. SUFFICES ASSUME NEW i \in DOMAIN (s \o t), ForScreen((s \o t)[i], n),
                       \A j \in DOMAIN (s \o t) : j > i => ~ForScreen((s \o t)[j], n)
                PROVE  (s \o t)[i].docs = docs
    BY DEF LastTells
  <2>1. i \notin DOMAIN s
    <3>1. ~(Len(s) + k > i)
      BY <1>1, <1>2
    <3>. QED  BY <1>2, <3>1
  <2>2. i > Len(s) /\ i - Len(s) \in DOMAIN t
    BY <2>1, CatIndex
  <2>3. i = Len(s) + (i - Len(s))
    BY CatIndex
  <2>4. (s \o t)[i] = t[i - Len(s)]
    BY <2>2, <2>3, CatIndex
  <2>. QED  BY <2>2, <2>4 DEF Elements
<1>. QED  BY <1>3, <1>4 DEF Told

LEMMA ToldTail ==
  ASSUME NEW S, NEW s \in Seq(S), s # <<>>, NEW n, NEW docs, NEW cur,
         Told(s, n, docs, cur)
  PROVE  Told(Tail(s), n, docs, IF ForScreen(Head(s), n) THEN Head(s).docs ELSE cur)
<1>1. /\ Head(s) = s[1] /\ 1 \in DOMAIN s /\ DOMAIN s \subseteq Nat
      /\ \A i \in DOMAIN Tail(s) : i \in Nat /\ i + 1 \in DOMAIN s /\ Tail(s)[i] = s[i + 1]
      /\ \A i \in DOMAIN s :
           i = 1 \/ (i > 1 /\ i - 1 \in DOMAIN Tail(s) /\ s[i] = Tail(s)[i - 1])
  BY TailIndex
<1>2. LastTells(Tail(s), n, docs)
  <2>. SUFFICES ASSUME NEW i \in DOMAIN Tail(s), ForScreen(Tail(s)[i], n),
                       \A j \in DOMAIN Tail(s) : j > i => ~ForScreen(Tail(s)[j], n)
                PROVE  Tail(s)[i].docs = docs
    BY DEF LastTells
  <2>1. i \in Nat /\ i + 1 \in DOMAIN s /\ Tail(s)[i] = s[i + 1]
    BY <1>1
  <2>2. ASSUME NEW j \in DOMAIN s, j > i + 1  PROVE ~ForScreen(s[j], n)
    <3>1. j \in Nat /\ j # 1
      BY <1>1, <2>1, <2>2
    <3>2. j - 1 \in DOMAIN Tail(s) /\ s[j] = Tail(s)[j - 1] /\ j - 1 > i
      BY <1>1, <2>1, <2>2, <3>1
    <3>. QED  BY <3>2
  <2>. QED  BY <2>1, <2>2 DEF Told, LastTells
<1>3. CASE NoneFor(Tail(s), n) /\ ForScreen(Head(s), n)
  <2>1. \A j \in DOMAIN s : j > 1 => ~ForScreen(s[j], n)
    BY <1>1, <1>3 DEF NoneFor
  <2>2. Head(s).docs = docs
    BY <1>1, <1>3, <2>1 DEF Told, LastTells
  <2>. QED  BY <1>2, <1>3, <2>2 DEF Told
<1>4. CASE NoneFor(Tail(s), n) /\ ~ForScreen(Head(s), n)
  <2>1. NoneFor(s, n)
    BY <1>1, <1>4 DEF NoneFor
  <2>. QED  BY <1>2, <1>4, <2>1 DEF Told
<1>5. CASE ~NoneFor(Tail(s), n)
  BY <1>2, <1>5 DEF Told
<1>. QED  BY <1>3, <1>4, <1>5

\* The messages a device has; of each the conversation is known.
Has(u) == got[u] \cup {w.message : w \in Stored(u, "message")}

SentStays == \A m \in DOMAIN sent : m \in DOMAIN sent' /\ sent'[m] = sent[m]

LEMMA HasSent ==
  ASSUME IInv, NEW u \in Users
  PROVE  /\ Has(u) \subseteq DOMAIN sent
         /\ \A c : SeesMessages(u, c) = {m \in Has(u) : sent[m] = c}
BY DEF Has, IInv, TalkSound, Stored, Sent, SeesMessages

LEMMA SeesSame ==
  ASSUME IInv, NEW u \in Users, Has(u)' = Has(u), SentStays
  PROVE  \A c : SeesMessages(u, c)' = SeesMessages(u, c)
<1>1. Has(u) \subseteq DOMAIN sent
  BY HasSent
<1>2. TAKE c
<1>3. SeesMessages(u, c)' = {m \in Has(u)' : sent'[m] = c}
  BY DEF SeesMessages, Has
<1>4. SeesMessages(u, c) = {m \in Has(u) : sent[m] = c}
  BY DEF SeesMessages, Has
<1>. QED  BY <1>1, <1>3, <1>4 DEF SentStays

\* The screen, what it reads and what it shows.
View(u) == <<front[u], readers[u], screens[u]["talk"], opened[u]>>

\* Blocks for other screens or none are put behind the others.
LEMMA FollowMore ==
  ASSUME IInv, NEW u \in Users, Following(u), View(u)' = View(u), shown'[u] = shown[u],
         Has(u)' = Has(u), SentStays, NEW t \in Seq(Blocks),
         \A b \in Elements(t) : ~ForScreen(b, screens[u]["talk"]),
         main'[u] = main[u] \o t
  PROVE  Following(u)'
<1>1. PICK n : n = screens[u]["talk"]
  OBVIOUS
<1>2. /\ front'[u] = front[u] /\ readers'[u] = readers[u] /\ screens'[u]["talk"] = n
      /\ opened'[u] = opened[u] /\ main[u] \in Seq(Blocks)
  BY <1>1, Typed DEF View, IInv
<1>3. SUFFICES ASSUME Reads(u)'  PROVE Following(u)'
  BY DEF Following
<1>4. Reads(u)
  BY <1>1, <1>2, <1>3 DEF Reads
<1>5. PICK docs : docs = SeesMessages(u, opened[u])
  OBVIOUS
<1>6. SeesMessages(u, opened[u])' = docs
  BY <1>2, <1>5, SeesSame
<1>7. Told(main[u], n, docs, shown[u])
  BY <1>1, <1>4, <1>5 DEF Following
<1>8. NoneFor(t, n)
  BY <1>1 DEF NoneFor, Elements
<1>9. Told(main[u] \o t, n, docs, shown[u])
  BY <1>2, <1>7, <1>8, ToldMore
<1>10. Told(main'[u], screens'[u]["talk"], SeesMessages(u, opened[u])', shown'[u])
  BY <1>2, <1>6, <1>9
<1>. QED  BY <1>10 DEF Following, Told, LastTells, NoneFor, ForScreen

LEMMA FollowSame ==
  ASSUME IInv, NEW u \in Users, Following(u), View(u)' = View(u), shown'[u] = shown[u],
         Has(u)' = Has(u), SentStays, main'[u] = main[u]
  PROVE  Following(u)'
<1>1. main[u] \in Seq(Blocks)
  BY Typed DEF IInv
<1>2. /\ <<>> \in Seq(Blocks) /\ Elements(<<>>) = {} /\ main[u] \o <<>> = main[u]
  BY <1>1, NoElements
<1>. QED  BY <1>2, FollowMore

\* A block that is not for a message screen has run.
LEMMA FollowTail ==
  ASSUME IInv, NEW u \in Users, Following(u), View(u)' = View(u), shown'[u] = shown[u],
         Has(u)' = Has(u), SentStays, main[u] # <<>>, Head(main[u]).kind # "talk",
         NEW t \in Seq(Blocks), \A b \in Elements(t) : b.kind # "talk",
         main'[u] = Tail(main[u]) \o t
  PROVE  Following(u)'
<1>1. PICK n : n = screens[u]["talk"]
  OBVIOUS
<1>2. /\ front'[u] = front[u] /\ readers'[u] = readers[u] /\ screens'[u]["talk"] = n
      /\ opened'[u] = opened[u] /\ main[u] \in Seq(Blocks) /\ Tail(main[u]) \in Seq(Blocks)
  BY <1>1, Typed, TailIndex DEF View, IInv
<1>3. SUFFICES ASSUME Reads(u)'  PROVE Following(u)'
  BY DEF Following
<1>4. Reads(u)
  BY <1>1, <1>2, <1>3 DEF Reads
<1>5. PICK docs : docs = SeesMessages(u, opened[u])
  OBVIOUS
<1>6. SeesMessages(u, opened[u])' = docs
  BY <1>2, <1>5, SeesSame
<1>7. Told(main[u], n, docs, shown[u])
  BY <1>1, <1>4, <1>5 DEF Following
<1>8. ~ForScreen(Head(main[u]), n) /\ NoneFor(t, n)
  BY DEF NoneFor, Elements, ForScreen
<1>9. Told(Tail(main[u]), n, docs, shown[u])
  BY <1>2, <1>7, <1>8, ToldTail
<1>10. Told(Tail(main[u]) \o t, n, docs, shown[u])
  BY <1>2, <1>8, <1>9, ToldMore
<1>11. Told(main'[u], screens'[u]["talk"], SeesMessages(u, opened[u])', shown'[u])
  BY <1>2, <1>6, <1>10
<1>. QED  BY <1>11 DEF Following, Told, LastTells, NoneFor, ForScreen

\* The readers of c are told of new messages of c.
LEMMA FollowTold ==
  ASSUME IInv, NEW u \in Users, Following(u), View(u)' = View(u), shown'[u] = shown[u],
         SentStays, NEW c, NEW new, \A m \in new : Sent(m, c), Has(u)' = Has(u) \cup new,
         NEW t \in Seq(Blocks), main'[u] = main[u] \o t,
         \A b \in Elements(t) : /\ b.kind = "talk" /\ Fits(u, b.screen, c)
                               /\ b.docs = SeesMessages(u, c) \cup new,
         \A r \in Elements(readers[u]) :
           r.conv = c => \E b \in Elements(t) : b.screen = r.screen
  PROVE  Following(u)'
<1>1. PICK n : n = screens[u]["talk"]
  OBVIOUS
<1>2. /\ front'[u] = front[u] /\ readers'[u] = readers[u] /\ screens'[u]["talk"] = n
      /\ opened'[u] = opened[u] /\ main[u] \in Seq(Blocks)
  BY <1>1, Typed DEF View, IInv
<1>3. SUFFICES ASSUME Reads(u)'  PROVE Following(u)'
  BY DEF Following
<1>4. Reads(u)
  BY <1>1, <1>2, <1>3 DEF Reads
<1>5. PICK docs : docs = SeesMessages(u, opened[u])
  OBVIOUS
<1>6. Has(u) \subseteq DOMAIN sent /\ docs = {m \in Has(u) : sent[m] = opened[u]}
  BY <1>5, HasSent
<1>7. SeesMessages(u, opened[u])' = {m \in Has(u) \cup new : sent'[m] = opened[u]}
  BY <1>2 DEF SeesMessages, Has
<1>8. \A m \in Has(u) \cup new : sent'[m] = sent[m]
  BY <1>6 DEF SentStays, Sent
<1>9. Told(main[u], n, docs, shown[u])
  BY <1>1, <1>4, <1>5 DEF Following
<1>10. CASE c = opened[u]
  <2>1. SeesMessages(u, opened[u])' = docs \cup new
    BY <1>6, <1>7, <1>8, <1>10 DEF Sent
  <2>2. \E b \in Elements(t) : ForScreen(b, n)
    <3>1. PICK r \in Elements(readers[u]) : r.screen = n
      BY <1>1, <1>4 DEF Reads
    <3>2. r.conv = c
      BY <1>1, <1>10, <3>1 DEF IInv, TalkSound, Fits
    <3>. QED  BY <3>1, <3>2 DEF ForScreen
  <2>3. \A b \in Elements(t) : ForScreen(b, n) => b.docs = docs \cup new
    BY <1>5, <1>10
  <2>4. Told(main[u] \o t, n, docs \cup new, shown[u])
    BY <1>2, <2>2, <2>3, ToldNew
  <2>5. Told(main'[u], screens'[u]["talk"], SeesMessages(u, opened[u])', shown'[u])
    BY <1>2, <2>1, <2>4
  <2>. QED  BY <2>5 DEF Following, Told, LastTells, NoneFor, ForScreen
<1>11. CASE c # opened[u]
  <2>1. SeesMessages(u, opened[u])' = docs
    BY <1>6, <1>7, <1>8, <1>11 DEF Sent
  <2>2. NoneFor(t, n)
    <3>1. \A b \in Elements(t) : b.screen # n
      BY <1>1, <1>11 DEF Fits
    <3>. QED  BY <3>1 DEF NoneFor, Elements, ForScreen
  <2>3. Told(main[u] \o t, n, docs, shown[u])
    BY <1>2, <1>9, <2>2, ToldMore
  <2>4. Told(main'[u], screens'[u]["talk"], SeesMessages(u, opened[u])', shown'[u])
    BY <1>2, <2>1, <2>3
  <2>. QED  BY <2>4 DEF Following, Told, LastTells, NoneFor, ForScreen
<1>. QED  BY <1>10, <1>11

LEMMA HasKept ==
  ASSUME NEW u, got'[u] = got[u], queue'[u] = queue[u]
  PROVE  Has(u)' = Has(u)
BY DEF Has, Stored

LEMMA SentSame == sent' = sent => SentStays
BY DEF SentStays

LEMMA StoreWriteFollow ==
  ASSUME IInv, NEW u \in Followed, Following(u), StoreWrite(u)
  PROVE  Following(u)'
<1>0. u \in Users /\ TypeOK
  BY UsersAssumption DEF IInv
<1>1. PICK op \in {"member", "list", "conv", "message"} : Takes(u, op)
  BY DEF StoreWrite
<1>w. PICK w : w = Task(u)
  OBVIOUS
<1>2. w.op = op /\ w \in Tasks /\ TaskSound(u, w)
  BY <1>0, <1>1, <1>w, TakesFacts
<1>3. w \in WriteTasks /\ w.conv \in Ids /\ w.message \in Nat
  BY <1>1, <1>2, TaskTyped, WriteTyped
<1>4. /\ got' = got /\ sent' = sent /\ View(u)' = View(u) /\ shown' = shown
      /\ queue' = [queue EXCEPT ![u] = Append(@, w)]
  BY <1>w DEF StoreWrite, cache, history, talk, place, View
<1>5. Elements(queue'[u]) = Elements(queue[u]) \cup {w}
  <2>1. queue \in [Users -> Seq(WriteTasks)] /\ queue[u] \in Seq(WriteTasks)
    BY <1>0 DEF TypeOK
  <2>2. /\ Append(queue[u], w) = queue[u] \o <<w>>
        /\ <<w>> \in Seq(WriteTasks) /\ Elements(<<w>>) = {w}
    BY <1>3, <2>1, AppendIsCat, OneElement
  <2>3. Elements(queue[u] \o <<w>>) = Elements(queue[u]) \cup Elements(<<w>>)
    BY <2>1, <2>2, CatElements
  <2>4. queue'[u] = queue[u] \o <<w>>
    BY <1>0, <1>4, <2>1, <2>2
  <2>. QED  BY <2>2, <2>3, <2>4
<1>6. Has(u)' = Has(u) \cup (IF op = "message" THEN {w.message} ELSE {})
  BY <1>2, <1>4, <1>5 DEF Has, Stored
<1>7. main \in [Users -> Seq(Blocks)]
  BY <1>0 DEF TypeOK
<1>8. CASE op \in {"member", "list"}
  <2>1. main' = main
    BY <1>1, <1>2, <1>8 DEF StoreWrite, Takes
  <2>. QED  BY <1>0, <1>4, <1>6, <1>8, <2>1, FollowSame, SentSame
<1>9. CASE op = "conv"
  <2>1. PICK docs : docs = SeesConvs(u) \cup {w.conv}
    OBVIOUS
  <2>2. TellLists(u, docs) /\ docs \in SUBSET Ids
    BY <1>0, <1>1, <1>2, <1>3, <1>9, <1>w, <2>1, StoredType DEF StoreWrite, Takes
  <2>3. /\ ToldLists(u, docs) \in Seq(Blocks)
        /\ \A b \in Elements(ToldLists(u, docs)) : b.kind = "list"
    BY <1>0, <2>2, ToldFacts
  <2>4. main'[u] = main[u] \o ToldLists(u, docs)
    BY <1>0, <1>7, <2>2 DEF TellLists
  <2>5. \A b \in Elements(ToldLists(u, docs)) : ~ForScreen(b, screens[u]["talk"])
    BY <2>3 DEF ForScreen
  <2>6. Has(u)' = Has(u)
    BY <1>6, <1>9
  <2>. QED  BY <1>0, <1>4, <2>3, <2>4, <2>5, <2>6, FollowMore, SentSame
<1>10. CASE op = "message"
  <2>1. PICK c : c = w.conv
    OBVIOUS
  <2>2. PICK new : new = {w.message}
    OBVIOUS
  <2>3. PICK docs : docs = SeesMessages(u, c) \cup new
    OBVIOUS
  <2>4. TellReaders(u, c, docs) /\ docs \in SUBSET Nat /\ c \in Ids
    BY <1>0, <1>1, <1>2, <1>3, <1>10, <1>w, <2>1, <2>2, <2>3, StoredType
      DEF StoreWrite, Takes
  <2>5. PICK t \in Seq(Blocks) : Tells(u, c, docs, t)
    BY <1>0, <2>4, TellsExist
  <2>6. \A m \in new : Sent(m, c)
    BY <1>2, <1>10, <2>1, <2>2 DEF TaskSound
  <2>7. Has(u)' = Has(u) \cup new /\ shown'[u] = shown[u] /\ SentStays
    BY <1>4, <1>6, <1>10, <2>2, SentSame
  <2>8. /\ main'[u] = main[u] \o t
        /\ \A b \in Elements(t) : /\ b.kind = "talk" /\ Fits(u, b.screen, c)
                                /\ b.docs = SeesMessages(u, c) \cup new
        /\ \A r \in Elements(readers[u]) :
             r.conv = c => \E b \in Elements(t) : b.screen = r.screen
    BY <2>3, <2>5 DEF Tells
  <2>. QED  BY <1>0, <1>4, <2>5, <2>6, <2>7, <2>8, FollowTold
<1>. QED  BY <1>8, <1>9, <1>10

LEMMA HearMessagesFollow ==
  ASSUME IInv, NEW u \in Followed, Following(u), NEW c \in Ids, HearMessages(u, c)
  PROVE  Following(u)'
<1>0. u \in Users /\ TypeOK
  BY UsersAssumption DEF IInv
<1>1. PICK new : new = {m \in posted : sent[m] = c}
  OBVIOUS
<1>2. PICK docs : docs = SeesMessages(u, c) \cup new
  OBVIOUS
<1>3. /\ got' = [got EXCEPT ![u] = got[u] \cup new]
      /\ TellReaders(u, c, docs)
      /\ UNCHANGED <<server, known, heard, worker, queue, history, lost, list, talk, place,
                     left>>
  BY <1>1, <1>2 DEF HearMessages
<1>4. /\ \A m \in new : Sent(m, c)
      /\ new \subseteq Nat /\ docs \in SUBSET Nat
  <2>1. posted \subseteq Nat /\ posted \subseteq DOMAIN sent
    BY <1>0 DEF TypeOK, IInv
  <2>2. SeesMessages(u, c) \subseteq Nat
    BY <1>0, StoredType
  <2>. QED  BY <1>1, <1>2, <2>1, <2>2 DEF Sent
<1>5. PICK t \in Seq(Blocks) : Tells(u, c, docs, t)
  BY <1>0, <1>3, <1>4, TellsExist
<1>6. got'[u] = got[u] \cup new
  BY <1>0, <1>3 DEF TypeOK
<1>7. Has(u)' = Has(u) \cup new
  BY <1>3, <1>6 DEF Has, Stored
<1>8. View(u)' = View(u) /\ shown'[u] = shown[u] /\ SentStays
  BY <1>3, SentSame DEF history, talk, place, View
<1>9. /\ main'[u] = main[u] \o t
      /\ \A b \in Elements(t) : /\ b.kind = "talk" /\ Fits(u, b.screen, c)
                              /\ b.docs = SeesMessages(u, c) \cup new
      /\ \A r \in Elements(readers[u]) :
           r.conv = c => \E b \in Elements(t) : b.screen = r.screen
  BY <1>2, <1>5 DEF Tells
<1>. QED  BY <1>0, <1>4, <1>5, <1>7, <1>8, <1>9, FollowTold

LEMMA AddListenerFollow ==
  ASSUME IInv, NEW u \in Followed, Following(u), AddListener(u)
  PROVE  Following(u)'
<1>0. u \in Users /\ TypeOK
  BY UsersAssumption DEF IInv
<1>1. PICK b : b = Block("list", Task(u).ids, SeesConvs(u), None, Task(u).screen)
  OBVIOUS
<1>2. /\ Task(u) \in Tasks /\ Task(u).op = "listen"
  BY <1>0, TakesFacts DEF AddListener
<1>3. b \in Blocks /\ b.kind = "list"
  BY <1>0, <1>1, <1>2, TaskTyped, StoredType, BlockType DEF Block
<1>4. main' = [main EXCEPT ![u] = Append(@, b)]
  BY <1>1 DEF AddListener
<1>5. main'[u] = main[u] \o <<b>>
  BY <1>0, <1>3, <1>4, MainOne
<1>6. <<b>> \in Seq(Blocks) /\ Elements(<<b>>) = {b}
  BY <1>3, OneElement
<1>7. \A x \in Elements(<<b>>) : ~ForScreen(x, screens[u]["talk"])
  BY <1>3, <1>6 DEF ForScreen
<1>8. /\ View(u)' = View(u) /\ shown'[u] = shown[u] /\ SentStays /\ Has(u)' = Has(u)
  BY HasKept, SentSame DEF AddListener, cache, history, talk, place, View
<1>. QED  BY <1>0, <1>5, <1>6, <1>7, <1>8, FollowMore

LEMMA AddReaderFollow ==
  ASSUME IInv, NEW u \in Followed, Following(u), AddReader(u)
  PROVE  Following(u)'
<1>. DEFINE R == [conv : Ids, screen : Nat]
<1>0. u \in Users /\ TypeOK
  BY UsersAssumption DEF IInv
<1>n. PICK n : n = screens[u]["talk"]
  OBVIOUS
<1>t. PICK t : t = Task(u)
  OBVIOUS
<1>r. PICK r : r = [conv |-> t.conv, screen |-> t.screen]
  OBVIOUS
<1>b. PICK b : b = Block("talk", {}, SeesMessages(u, t.conv), t.conv, t.screen)
  OBVIOUS
<1>d. PICK docs : docs = SeesMessages(u, opened[u])
  OBVIOUS
<1>1. t.op = "read" /\ t \in Tasks /\ TaskSound(u, t)
  BY <1>0, <1>t, TakesFacts DEF AddReader
<1>2. /\ t.conv \in Ids /\ t.screen \in Nat /\ SeesMessages(u, t.conv) \subseteq Nat
      /\ Fits(u, t.screen, t.conv)
  BY <1>0, <1>1, TaskTyped, StoredType DEF TaskSound
<1>3. /\ b \in Blocks /\ b.kind = "talk" /\ b.docs = SeesMessages(u, t.conv)
      /\ b.screen = t.screen /\ r \in R /\ r.screen = t.screen
  BY <1>2, <1>r, <1>b, BlockType DEF Block
<1>4. /\ readers' = [readers EXCEPT ![u] = Append(@, r)]
      /\ main' = [main EXCEPT ![u] = Append(@, b)]
      /\ got' = got /\ queue' = queue /\ sent' = sent /\ shown' = shown /\ opened' = opened
      /\ front' = front /\ screens' = screens
  BY <1>t, <1>r, <1>b DEF AddReader, cache, history, place
<1>. HIDE DEF R
<1>5. main'[u] = main[u] \o <<b>> /\ main[u] \in Seq(Blocks)
  BY <1>0, <1>3, <1>4, MainOne, Typed
<1>6. Elements(readers'[u]) = Elements(readers[u]) \cup {r}
  <2>1. readers \in [Users -> Seq(R)] /\ readers[u] \in Seq(R)
    BY <1>0 DEF TypeOK, R
  <2>2. /\ <<r>> \in Seq(R) /\ Elements(<<r>>) = {r}
        /\ Append(readers[u], r) = readers[u] \o <<r>>
    BY <1>3, <2>1, OneElement, AppendIsCat
  <2>3. Elements(readers[u] \o <<r>>) = Elements(readers[u]) \cup Elements(<<r>>)
    BY <2>1, <2>2, CatElements
  <2>. QED  BY <1>0, <1>4, <2>1, <2>2, <2>3
<1>7. SeesMessages(u, opened[u])' = docs
  <2>1. \A c : SeesMessages(u, c)' = SeesMessages(u, c)
    BY <1>0, <1>4, SeesSame, HasKept, SentSame
  <2>. QED  BY <1>4, <1>d, <2>1
<1>8. <<b>> \in Seq(Blocks) /\ Elements(<<b>>) = {b} /\ DOMAIN <<b>> = {1} /\ <<b>>[1] = b
  BY <1>3, OneElement
<1>9. SUFFICES ASSUME Reads(u)'  PROVE Following(u)'
  BY DEF Following
<1>10. CASE t.screen = n
  <2>1. b.docs = docs /\ ForScreen(b, n)
    BY <1>2, <1>3, <1>10, <1>d, <1>n DEF Fits, ForScreen
  <2>2. Told(main[u] \o <<b>>, n, docs, shown[u])
    BY <1>5, <1>8, <2>1, ToldNew
  <2>3. Told(main'[u], screens'[u]["talk"], SeesMessages(u, opened[u])', shown'[u])
    BY <1>4, <1>5, <1>7, <1>n, <2>2
  <2>. QED  BY <2>3 DEF Following, Told, LastTells, NoneFor, ForScreen
<1>11. CASE t.screen # n
  <2>1. Reads(u)
    BY <1>3, <1>4, <1>6, <1>9, <1>11, <1>n DEF Reads
  <2>2. Told(main[u], n, docs, shown[u])
    BY <1>d, <1>n, <2>1 DEF Following
  <2>3. NoneFor(<<b>>, n)
    BY <1>3, <1>8, <1>11 DEF NoneFor, ForScreen
  <2>4. Told(main[u] \o <<b>>, n, docs, shown[u])
    BY <1>5, <1>8, <2>2, <2>3, ToldMore
  <2>5. Told(main'[u], screens'[u]["talk"], SeesMessages(u, opened[u])', shown'[u])
    BY <1>4, <1>5, <1>7, <1>n, <2>4
  <2>. QED  BY <2>5 DEF Following, Told, LastTells, NoneFor, ForScreen
<1>. QED  BY <1>10, <1>11

\* What the server takes, the device has cached.
LEMMA ServeFollow ==
  ASSUME IInv, NEW u \in Users, Following(u), Serve(u)
  PROVE  Following(u)'
<1>0. TypeOK
  BY DEF IInv
<1>1. PICK w : w = Head(queue[u])
  OBVIOUS
<1>2. /\ queue[u] # <<>> /\ queue \in [Users -> Seq(WriteTasks)]
      /\ queue[u] \in Seq(WriteTasks)
      /\ got \in [Users -> SUBSET Nat]
  BY <1>0 DEF Serve, TypeOK
<1>3. Elements(queue[u]) = {w} \cup Elements(Tail(queue[u]))
  BY <1>1, <1>2, TailElements
<1>4. /\ queue'[u] = Tail(queue[u])
      /\ got'[u] = got[u] \cup (IF w.op = "message" THEN {w.message} ELSE {})
  BY <1>1, <1>2 DEF Serve, Taken
<1>5. Has(u)' = Has(u)
  BY <1>3, <1>4 DEF Has, Stored
<1>6. View(u)' = View(u) /\ shown'[u] = shown[u] /\ SentStays /\ main'[u] = main[u]
  BY SentSame DEF Serve, history, talk, place, View
<1>. QED  BY <1>5, <1>6, FollowSame

\* A message sent is asked of Firestore's thread, and not yet seen.
LEMMA WritesFollow ==
  ASSUME IInv, NEW u \in Followed, Following(u),
         \/ \E c \in Ids : Send(u, c)
         \/ \E c \in Ids : \E s \in Seq(Users) : Create(u, c, s)
  PROVE  Following(u)'
<1>0. u \in Users /\ sent \in Seq(Ids)
  BY UsersAssumption DEF IInv, TypeOK
<1>1. got' = got /\ queue' = queue /\ shown' = shown /\ main' = main /\ View(u)' = View(u)
  BY DEF Send, Create, Ask, cache, list, talk, place, View
<1>2. SentStays
  <2>1. CASE \E c \in Ids : sent' = Append(sent, c)
    BY <1>0, <2>1 DEF SentStays
  <2>2. CASE sent' = sent
    BY <2>2, SentSame
  <2>. QED  BY <2>1, <2>2 DEF Send, Create
<1>. QED  BY <1>0, <1>1, <1>2, HasKept, FollowSame

LEMMA HearConvsFollow ==
  ASSUME IInv, NEW u \in Followed, Following(u), HearConvs(u)
  PROVE  Following(u)'
<1>0. u \in Users /\ TypeOK
  BY UsersAssumption DEF IInv
<1>1. PICK docs : docs = SeesConvs(u) \cup convs
  OBVIOUS
<1>2. TellLists(u, docs) /\ docs \in SUBSET Ids
  BY <1>0, <1>1, StoredType DEF HearConvs, TypeOK
<1>3. /\ ToldLists(u, docs) \in Seq(Blocks)
      /\ \A b \in Elements(ToldLists(u, docs)) : b.kind = "list"
  BY <1>0, <1>2, ToldFacts
<1>4. main'[u] = main[u] \o ToldLists(u, docs)
  BY <1>0, <1>2 DEF TellLists, TypeOK
<1>5. \A b \in Elements(ToldLists(u, docs)) : ~ForScreen(b, screens[u]["talk"])
  BY <1>3 DEF ForScreen
<1>6. /\ View(u)' = View(u) /\ shown'[u] = shown[u] /\ SentStays /\ Has(u)' = Has(u)
  BY HasKept, SentSame DEF HearConvs, history, talk, place, View
<1>. QED  BY <1>0, <1>3, <1>4, <1>5, <1>6, FollowMore

LEMMA AnswerFollow ==
  ASSUME IInv, NEW u \in Followed, Following(u), Answer(u) \/ HearList(u)
  PROVE  Following(u)'
<1>0. u \in Users /\ TypeOK
  BY UsersAssumption DEF IInv
<1>1. /\ View(u)' = View(u) /\ shown'[u] = shown[u] /\ SentStays /\ Has(u)' = Has(u)
  BY HasKept, SentSame DEF Answer, HearList, cache, history, talk, place, View
<1>2. CASE HearList(u)
  BY <1>0, <1>1, <1>2, FollowSame DEF HearList
<1>3. CASE Answer(u)
  <2>1. PICK b : b = Block("user", SeesList(u), {}, None, Head(fetches[u]))
    OBVIOUS
  <2>2. fetches[u] \in Seq(Nat) /\ fetches[u] # <<>>
    BY <1>0, <1>3, Typed DEF Answer
  <2>3. b \in Blocks /\ b.kind = "user"
    <3>1. SeesList(u) \subseteq Ids /\ Head(fetches[u]) \in Nat
      BY <1>0, <2>2, StoredType
    <3>. QED  BY <2>1, <3>1, BlockType DEF Block
  <2>4. main'[u] = main[u] \o <<b>>
    <3>1. main' = [main EXCEPT ![u] = Append(@, b)]
      BY <1>3, <2>1 DEF Answer
    <3>. QED  BY <1>0, <2>3, <3>1, MainOne
  <2>5. /\ <<b>> \in Seq(Blocks)
        /\ \A x \in Elements(<<b>>) : ~ForScreen(x, screens[u]["talk"])
    BY <2>3, OneElement DEF ForScreen
  <2>. QED  BY <1>0, <1>1, <2>4, <2>5, FollowMore
<1>. QED  BY <1>2, <1>3

LEMMA BlocksFollow ==
  ASSUME IInv, NEW u \in Followed, Following(u),
         UserFetched(u) \/ ShowList(u) \/ ReloadTable(u)
  PROVE  Following(u)'
<1>0. u \in Users /\ TypeOK
  BY UsersAssumption DEF IInv
<1>1. /\ View(u)' = View(u) /\ shown'[u] = shown[u] /\ SentStays
      /\ got' = got /\ queue' = queue
  BY SentSame DEF UserFetched, ShowList, Kept, ReloadTable, Ask, cache, history, talk, place, View
<1>2. PICK kind \in {"user", "list", "reload"} : Turn(u, kind)
  BY DEF UserFetched, ShowList, Kept, ReloadTable
<1>3. /\ main[u] # <<>> /\ Head(main[u]) \in Blocks /\ Head(main[u]).kind = kind
  BY <1>0, <1>2, TurnFacts
<1>4. PICK t \in Seq(Blocks) : Done(u, t) /\ \A b \in Elements(t) : b.kind # "talk"
  <2>1. <<>> \in Seq(Blocks) /\ Elements(<<>>) = {}
    BY NoElements
  <2>2. PICK r : r = Reload(Head(main[u]).screen)
    OBVIOUS
  <2>3. r \in Blocks /\ r.kind = "reload"
    BY <1>3, <2>2, BlockTyped, BlockType DEF Reload, Block
  <2>4. <<r>> \in Seq(Blocks) /\ Elements(<<r>>) = {r}
    BY <2>3, OneElement
  <2>5. Done(u, <<>>) \/ Done(u, <<r>>)
    BY <2>2 DEF UserFetched, ShowList, Kept, ReloadTable, Reloads
  <2>. QED  BY <2>1, <2>3, <2>4, <2>5
<1>5. main'[u] = Tail(main[u]) \o t
  BY <1>0, <1>3, <1>4, DoneFacts
<1>6. Head(main[u]).kind # "talk"
  BY <1>2, <1>3
<1>. QED  BY <1>0, <1>1, <1>3, <1>4, <1>5, <1>6, HasKept, FollowTail

LEMMA ShowMessagesFollow ==
  ASSUME IInv, NEW u \in Followed, Following(u), ShowMessages(u)
  PROVE  Following(u)'
<1>0. u \in Users /\ TypeOK
  BY UsersAssumption DEF IInv
<1>b. PICK b : b = Head(main[u])
  OBVIOUS
<1>n. PICK n : n = screens[u]["talk"]
  OBVIOUS
<1>d. PICK docs : docs = SeesMessages(u, opened[u])
  OBVIOUS
<1>1. /\ main[u] # <<>> /\ b \in Blocks /\ b.kind = "talk" /\ main[u] \in Seq(Blocks)
  BY <1>0, <1>b, TurnFacts DEF ShowMessages
<1>2. main'[u] = Tail(main[u])
  BY <1>0, <1>1, DoneAll DEF ShowMessages
<1>3. /\ messages' = [messages EXCEPT ![u] = b.docs]
      /\ shown' = IF b.screen = n THEN [shown EXCEPT ![u] = messages'[u]] ELSE shown
      /\ View(u)' = View(u) /\ SentStays /\ got' = got /\ queue' = queue
  BY <1>b, <1>n, SentSame DEF ShowMessages, Only, cache, history, place, View
<1>4. shown'[u] = IF ForScreen(b, n) THEN b.docs ELSE shown[u]
  <2>1. messages'[u] = b.docs
    BY <1>0, <1>3 DEF TypeOK
  <2>2. shown \in [Users -> SUBSET Nat]
    BY <1>0 DEF TypeOK
  <2>. QED  BY <1>0, <1>1, <1>3, <2>1, <2>2 DEF ForScreen
<1>5. /\ front'[u] = front[u] /\ readers'[u] = readers[u] /\ screens'[u]["talk"] = n
      /\ opened'[u] = opened[u]
  BY <1>3, <1>n DEF View
<1>6. SUFFICES ASSUME Reads(u)'  PROVE Following(u)'
  BY DEF Following
<1>7. Told(main[u], n, docs, shown[u])
  BY <1>5, <1>6, <1>d, <1>n DEF Following, Reads
<1>8. SeesMessages(u, opened[u])' = docs
  BY <1>0, <1>3, <1>5, <1>d, HasKept, SeesSame
<1>9. Told(Tail(main[u]), n, docs, shown'[u])
  BY <1>1, <1>4, <1>7, <1>b, ToldTail
<1>10. Told(main'[u], screens'[u]["talk"], SeesMessages(u, opened[u])', shown'[u])
  BY <1>2, <1>5, <1>8, <1>9
<1>. QED  BY <1>10 DEF Following, Told, LastTells, NoneFor, ForScreen

\* The screen that comes in front has no reader yet.
LEMMA PlaceFollow ==
  ASSUME IInv, NEW u \in Followed, Visit(u) \/ Restart(u)
  PROVE  Following(u)'
<1>0. u \in Users /\ TypeOK
  BY UsersAssumption DEF IInv
<1>1. CASE OpenList(u) \/ LeaveList(u) \/ LeaveTalk(u) \/ Restart(u)
  <2>1. front'[u] # "talk"
    BY <1>0, <1>1 DEF OpenList, LeaveList, LeaveTalk, Restart, TypeOK
  <2>. QED  BY <2>1 DEF Following, Reads
<1>2. ASSUME NEW row, OpenTalk(u, row)  PROVE Following(u)'
  <2>1. screens'[u]["talk"] = screens[u]["talk"] + 1 /\ readers' = readers
    BY <1>0, <1>2, NextTalk DEF OpenTalk
  <2>2. screens[u]["talk"] \in Nat
    BY <1>0, Typed
  <2>3. \A r \in Elements(readers[u]) : r.screen \in Nat /\ r.screen <= screens[u]["talk"]
    <3>1. \A r \in Elements(readers[u]) : r \in [conv : Ids, screen : Nat]
      BY <1>0, Typed, ElementType
    <3>2. \A r \in Elements(readers[u]) : Fits(u, r.screen, r.conv)
      BY <1>0 DEF IInv, TalkSound
    <3>. QED  BY <3>1, <3>2 DEF Fits
  <2>4. \A r \in Elements(readers[u]) : r.screen # screens'[u]["talk"]
    BY <2>1, <2>2, <2>3
  <2>. QED  BY <2>1, <2>4 DEF Following, Reads
<1>. QED  BY <1>1, <1>2 DEF Visit

Sight(u) == <<View(u), got[u], queue[u], main[u], shown[u]>>

\* An action on one device leaves what the others show as it is.
LEMMA OtherSights ==
  ASSUME IInv, NEW u \in Users, NEW v \in Users \ {u},
         \/ Serve(u)
         \/ \E c \in Ids : Send(u, c) \/ HearMessages(u, c)
         \/ \E c \in Ids : \E s \in Seq(Users) : Create(u, c, s)
         \/ Work(u) \/ RunBlock(u) \/ Answer(u)
         \/ HearConvs(u) \/ HearList(u)
         \/ Visit(u) \/ Restart(u)
  PROVE  Sight(v)' = Sight(v) /\ SentStays
<1>1. /\ readers \in [Users -> Seq([conv : Ids, screen : Nat])]
      /\ queue \in [Users -> Seq(WriteTasks)] /\ main \in [Users -> Seq(Blocks)]
      /\ got \in [Users -> SUBSET Nat] /\ shown \in [Users -> SUBSET Nat]
      /\ opened \in [Users -> Ids \cup {None}]
      /\ front \in [Users -> {"list", "talk", "other"}]
      /\ screens \in [Users -> [Kinds -> Nat]] /\ sent \in Seq(Ids)
  BY DEF IInv, TypeOK
<1>2. CASE Serve(u) \/ HearList(u)
  BY <1>1, <1>2, SentSame
    DEF Serve, HearList, cache, history, list, talk, place, Sight, View
<1>3. CASE \E c \in Ids : Send(u, c)
  BY <1>1, <1>3 DEF Send, Ask, cache, list, talk, place, Sight, View, SentStays
<1>4. CASE \E c \in Ids : HearMessages(u, c)
  BY <1>1, <1>4, SentSame
    DEF HearMessages, TellReaders, history, list, talk, place, Sight, View
<1>5. CASE \E c \in Ids : \E s \in Seq(Users) : Create(u, c, s)
  BY <1>1, <1>5, SentSame DEF Create, Ask, cache, talk, place, Sight, View
<1>6. CASE Work(u)
  BY <1>1, <1>6, SentSame
    DEF Work, StoreWrite, AddListener, AddReader, TellLists, TellReaders, cache, history,
        talk, place, Sight, View
<1>7. CASE RunBlock(u)
  BY <1>1, <1>7, SentSame
    DEF RunBlock, UserFetched, ShowList, ReloadTable, ShowMessages, Done, Ask, cache, history,
        talk, place, Sight, View
<1>8. CASE Answer(u) \/ HearConvs(u)
  BY <1>1, <1>8, SentSame
    DEF Answer, HearConvs, TellLists, cache, history, talk, place, Sight, View
<1>9. CASE Visit(u)
  BY <1>1, <1>9, SentSame
    DEF Visit, OpenList, LeaveList, OpenTalk, LeaveTalk, Ask, cache, history, talk, Sight, View
<1>10. CASE Restart(u)
  BY <1>1, <1>10, SentSame DEF Restart, cache, history, Sight, View
<1>. QED  BY <1>2, <1>3, <1>4, <1>5, <1>6, <1>7, <1>8, <1>9, <1>10

LEMMA SightKept ==
  ASSUME IInv, NEW u \in Users, Following(u), Sight(u)' = Sight(u), SentStays
  PROVE  Following(u)'
<1>1. /\ View(u)' = View(u) /\ got'[u] = got[u] /\ queue'[u] = queue[u]
      /\ main'[u] = main[u] /\ shown'[u] = shown[u]
  BY DEF Sight
<1>. QED  BY <1>1, HasKept, FollowSame

SeesInv == IInv /\ \A u \in Followed : Following(u)

LEMMA SeesInit == Init => SeesInv
<1>. SUFFICES ASSUME Init  PROVE SeesInv
  OBVIOUS
<1>1. \A u \in Followed : front[u] = "other"
  BY UsersAssumption DEF Init
<1>. QED  BY <1>1, InitInv DEF SeesInv, Following, Reads

LEMMA SeesNext ==
  ASSUME SeesInv, [Next]_vars
  PROVE  SeesInv'
<1>0. /\ IInv /\ IInv' /\ Followed \subseteq Users
      /\ \A u \in Followed : Following(u)
  BY NextInv, UsersAssumption DEF SeesInv
<1>r. ASSUME NEW u \in Users, u \in Followed => Following(u)', SentStays,
             \A v \in Users \ {u} : Sight(v)' = Sight(v)
      PROVE  SeesInv'
  <2>1. ASSUME NEW v \in Followed  PROVE Following(v)'
    BY <1>0, <1>r, SightKept
  <2>. QED  BY <1>0, <2>1 DEF SeesInv
<1>o. ASSUME NEW u \in Users, u \in Followed => Following(u)', SentStays,
             \/ Serve(u)
             \/ \E c \in Ids : Send(u, c) \/ HearMessages(u, c)
             \/ \E c \in Ids : \E s \in Seq(Users) : Create(u, c, s)
             \/ Work(u) \/ RunBlock(u) \/ Answer(u)
             \/ HearConvs(u) \/ HearList(u)
             \/ Visit(u) \/ Restart(u)
      PROVE  SeesInv'
  BY <1>0, <1>o, <1>r, OtherSights
<1>s. SentStays
  <2>1. sent \in Seq(Ids)
    BY <1>0 DEF IInv, TypeOK
  <2>2. CASE \E c \in Ids : sent' = Append(sent, c)
    BY <2>1, <2>2 DEF SentStays
  <2>3. CASE sent' = sent
    BY <2>3, SentSame
  <2>4. (\E c \in Ids : sent' = Append(sent, c)) \/ sent' = sent
    <3>1. CASE \E u \in Users : \E c \in Ids : Send(u, c)
      BY <3>1 DEF Send
    <3>2. CASE UNCHANGED vars
      BY <3>2 DEF vars, history
    <3>3. CASE Next /\ ~\E u \in Users : \E c \in Ids : Send(u, c)
      BY <3>3
        DEF Next, Serve, Create, Work, StoreWrite, AddListener, AddReader, RunBlock,
            UserFetched, ShowList, ReloadTable, ShowMessages, Answer, HearConvs, HearList,
            HearMessages, Visit, OpenList, LeaveList, OpenTalk, LeaveTalk, Kill, CrashOnRow,
            Restart, history
    <3>. QED  BY <3>1, <3>2, <3>3
  <2>. QED  BY <2>2, <2>3, <2>4
<1>1. ASSUME NEW u \in Users, Serve(u)  PROVE SeesInv'
  BY <1>0, <1>1, <1>o, <1>s, ServeFollow
<1>2. ASSUME NEW u \in Users, NEW c \in Ids, Send(u, c)  PROVE SeesInv'
  <2>1. u \in Followed => Following(u)'
    BY <1>0, <1>2, WritesFollow
  <2>. QED  BY <1>2, <1>o, <1>s, <2>1
<1>3. ASSUME NEW u \in Users, NEW c \in Ids, NEW others \in SUBSET (Users \ {u}),
             NEW s \in IF others = {} THEN {<<>>} ELSE Selected(u, others), Create(u, c, s)
      PROVE  SeesInv'
  <2>1. s \in Seq(Users)
    BY SelectedType
  <2>2. u \in Followed => Following(u)'
    BY <1>0, <1>3, <2>1, WritesFollow
  <2>. QED  BY <1>3, <1>o, <1>s, <2>1, <2>2
<1>4. ASSUME NEW u \in Followed, Work(u)  PROVE SeesInv'
  <2>1. Following(u)'
    BY <1>0, <1>4, StoreWriteFollow, AddListenerFollow, AddReaderFollow DEF Work
  <2>. QED  BY <1>0, <1>4, <1>o, <1>s, <2>1
<1>5. ASSUME NEW u \in Followed, RunBlock(u)  PROVE SeesInv'
  <2>1. Following(u)'
    BY <1>0, <1>5, BlocksFollow, ShowMessagesFollow DEF RunBlock
  <2>. QED  BY <1>0, <1>5, <1>o, <1>s, <2>1
<1>6. ASSUME NEW u \in Followed,
             Answer(u) \/ HearConvs(u) \/ HearList(u) \/ \E c \in Ids : HearMessages(u, c)
      PROVE  SeesInv'
  <2>1. Following(u)'
    BY <1>0, <1>6, AnswerFollow, HearConvsFollow, HearMessagesFollow
  <2>. QED  BY <1>0, <1>6, <1>o, <1>s, <2>1
<1>7. ASSUME NEW u \in Followed, Visit(u)  PROVE SeesInv'
  BY <1>0, <1>7, <1>o, <1>s, PlaceFollow
<1>8. ASSUME NEW u \in Followed, Kill(u) \/ CrashOnRow(u)  PROVE SeesInv'
  <2>1. Restart(u)
    BY <1>8 DEF Kill, CrashOnRow
  <2>. QED  BY <1>0, <1>o, <1>s, <2>1, PlaceFollow
<1>9. CASE UNCHANGED vars
  <2>1. \A u \in Users : Sight(u)' = Sight(u)
    BY <1>9 DEF vars, cache, talk, place, Sight, View
  <2>. QED  BY <1>0, <1>s, <2>1, SightKept DEF SeesInv
<1>. QED  BY <1>1, <1>2, <1>3, <1>4, <1>5, <1>6, <1>7, <1>8, <1>9 DEF Next

\* A message screen whose reader is there and whose blocks have run shows all that the
\* device sees of its conversation, whatever snapshots, writes and answers came in
\* between and whatever the readers of other screens put into the one array (fetchMessages).
THEOREM ShowsAllSeen == Spec => []ShowsSeen
<1>1. SeesInv => ShowsSeen
  <2>. SUFFICES ASSUME SeesInv, NEW u \in Followed, Reads(u),
                       \A b \in Elements(main[u]) :
                         b.kind = "talk" => b.screen # screens[u]["talk"]
                PROVE  shown[u] = SeesMessages(u, opened[u])
    BY DEF ShowsSeen, Reads
  <2>1. NoneFor(main[u], screens[u]["talk"])
    BY DEF NoneFor, ForScreen, Elements
  <2>. QED  BY <2>1 DEF SeesInv, Following, Told
<1>. QED  BY <1>1, SeesInit, SeesNext, PTL DEF Spec

----------------------------------------------------------------------------
(* The documents keep to Directory.                                        *)

\* The conversations u was picked for, and those u's device may see.
Mine(u) == {c \in made : u \in picked[c]}

There(u) == convs \cup StoredConvs(u)

\* What is written of a conversation is of one that was made, and of whom it was made for.
WriteFine(w) ==
  /\ w.op \in {"conv", "member", "list"} => w.conv \in made
  /\ w.op \in {"member", "list"} => w.user \in picked[w.conv]

TaskFine(u, t) ==
  /\ t.op = "listen" => t.ids \subseteq Mine(u)
  /\ IsWrite(t) => WriteFine(t)

BlockFine(u, b) ==
  /\ b.ids \subseteq Mine(u)
  /\ b.kind = "list" => b.docs \subseteq There(u)

\* What a device is told comes of what is on the server.
Sources(u) ==
  /\ lists[u] \subseteq Mine(u) /\ heard[u] \subseteq Mine(u)
  /\ known[u] \subseteq convs

\* What is under way for u names only conversations u was picked for.
WaysFine(u) ==
  /\ \A t \in Elements(worker[u]) : TaskFine(u, t)
  /\ \A w \in Elements(queue[u]) : WriteFine(w)
  /\ \A r \in Elements(listeners[u]) : r.ids \subseteq Mine(u)
  /\ \A b \in Elements(main[u]) : BlockFine(u, b)

\* So do the screens; and what they show is on the server before what is written there.
AtHand(u) ==
  /\ Elements(shared[u]) \subseteq Mine(u) \cap There(u)
  /\ front[u] = "talk" => opened[u] \in Mine(u) \cap There(u)

\* No member and no message gets ahead of its conversation.
Naming == {"member", "message"}

NamesLed(u) ==
  /\ LedBy(Naming, queue[u], convs)
  /\ LedBy(Naming, worker[u], There(u))

DirInv ==
  /\ convs \subseteq made
  /\ \A u \in Users : Sources(u) /\ WaysFine(u) /\ AtHand(u) /\ NamesLed(u)

Grows ==
  /\ convs \subseteq convs' /\ made \subseteq made'
  /\ \A c \in made : picked'[c] = picked[c]

LEMMA MineGrows ==
  ASSUME Grows
  PROVE  /\ \A u : Mine(u) \subseteq Mine(u)'
         /\ \A w : WriteFine(w) => WriteFine(w)'
         /\ \A u, t : TaskFine(u, t) => TaskFine(u, t)'
<1>1. \A u : Mine(u) \subseteq Mine(u)'
  BY DEF Mine, Grows
<1>2. ASSUME NEW w, WriteFine(w)  PROVE WriteFine(w)'
  BY <1>2 DEF WriteFine, Grows
<1>3. ASSUME NEW u, NEW t, TaskFine(u, t)  PROVE TaskFine(u, t)'
  BY <1>1, <1>2, <1>3 DEF TaskFine, IsWrite
<1>. QED  BY <1>1, <1>2, <1>3

\* What the app asks of Firestore: s comes behind the tasks, or, of someone not followed,
\* behind the writes stored.
Asks(u, s) ==
  \/ worker'[u] = worker[u] \o s /\ queue'[u] = queue[u]
  \/ s \in Seq(WriteTasks) /\ queue'[u] = queue[u] \o s /\ worker'[u] = worker[u]

\* The ways in which the tasks and the writes of u change.
Resting(u) == worker'[u] = worker[u] /\ queue'[u] = queue[u]

Asking(u) ==
  \E s \in Seq(Tasks) :
    /\ Asks(u, s)
    /\ \A t \in Elements(s) : TaskFine(u, t)'
    /\ LedBy(Naming, s, There(u))

Storing(u) ==
  /\ worker[u] # <<>> /\ worker'[u] = Tail(worker[u])
  /\ Head(worker[u]) \in WriteTasks
  /\ queue'[u] = Append(queue[u], Head(worker[u]))

Adding(u) ==
  /\ worker[u] # <<>> /\ worker'[u] = Tail(worker[u])
  /\ Head(worker[u]).op # "conv"
  /\ queue'[u] = queue[u]

Serving(u) ==
  /\ queue[u] # <<>> /\ queue'[u] = Tail(queue[u])
  /\ worker'[u] = worker[u]
  /\ Head(queue[u]).op = "conv" => Head(queue[u]).conv \in convs'

Ending(u) == worker'[u] = <<>> /\ queue'[u] = queue[u]

Moves(u) ==
  Resting(u) \/ Asking(u) \/ Storing(u) \/ Adding(u) \/ Serving(u) \/ Ending(u)

\* To ask changes nothing on the other devices.
LEMMA AskAsks ==
  ASSUME TypeOK, NEW u \in Users, NEW s, Ask(u, s),
         s \in Seq(WriteTasks) \/ (u \in Followed /\ s \in Seq(Tasks))
  PROVE  Asks(u, s) /\ s \in Seq(Tasks) /\ \A v \in Users \ {u} : Resting(v)
<1>1. s \in Seq(Tasks)
  <2>1. WriteTasks \subseteq Tasks
    BY DEF Tasks
  <2>. QED  BY <2>1
<1>2. CASE u \in Followed
  <2>1. worker' = [worker EXCEPT ![u] = worker[u] \o s] /\ queue' = queue
    BY <1>2 DEF Ask
  <2>. QED  BY <1>1, <2>1 DEF TypeOK, Asks, Resting
<1>3. CASE u \notin Followed
  <2>1. queue' = [queue EXCEPT ![u] = queue[u] \o s] /\ worker' = worker
    BY <1>3 DEF Ask
  <2>. QED  BY <1>1, <1>3, <2>1 DEF TypeOK, Asks, Resting
<1>. QED  BY <1>2, <1>3

LEMMA HistoryGrows ==
  ASSUME TypeOK, [Next]_vars
  PROVE  Grows
<1>1. ASSUME NEW u \in Users, NEW c \in Ids, NEW s, Create(u, c, s)  PROVE Grows
  BY <1>1 DEF Create, server, Grows, TypeOK
<1>2. ASSUME NEW u \in Users, NEW c \in Ids, Send(u, c)  PROVE Grows
  BY <1>2 DEF Send, server, Grows
<1>3. ASSUME NEW u \in Users, Serve(u)  PROVE Grows
  BY <1>3 DEF Serve, history, Grows
<1>4. ASSUME UNCHANGED <<server, history>>  PROVE Grows
  BY <1>4 DEF server, history, Grows
<1>5. ASSUME NEW u, Work(u) \/ RunBlock(u) \/ Answer(u) \/ HearConvs(u)
                    \/ HearList(u) \/ (\E c \in Ids : HearMessages(u, c)) \/ Visit(u)
                    \/ Kill(u) \/ CrashOnRow(u)
      PROVE  UNCHANGED <<server, history>>
  BY <1>5 DEF Work, StoreWrite, AddListener, AddReader, RunBlock, UserFetched,
      ShowList, ReloadTable, ShowMessages, Answer, HearConvs, HearList, HearMessages,
      Visit, OpenList, LeaveList, OpenTalk, LeaveTalk, Kill, CrashOnRow, Restart
<1>6. UNCHANGED vars => UNCHANGED <<server, history>>
  BY DEF vars
<1>. QED  BY <1>1, <1>2, <1>3, <1>4, <1>5, <1>6 DEF Next

\* A conversation someone may write in is on the server, or about to be.
LEMMA SendMoves ==
  ASSUME IInv, DirInv, Grows, NEW u \in Users, NEW c \in Ids, Send(u, c)
  PROVE  \A v \in Users : Moves(v)
<1>0. TypeOK
  BY DEF IInv
<1>1. PICK x : x = Write("message", c, u, Len(sent) + 1)
  OBVIOUS
<1>2. x \in WriteTasks /\ x.op = "message" /\ x.conv = c
  <2>1. Len(sent) + 1 \in Nat
    BY <1>0 DEF TypeOK
  <2>. QED  BY <1>1, <2>1 DEF Write, WriteTasks
<1>3. PICK s \in Seq(WriteTasks) : s = <<x>> /\ Elements(s) = {x}
  BY <1>2, OneElement
<1>4. Ask(u, s)
  BY <1>1, <1>3 DEF Send
<1>5. Asks(u, s) /\ s \in Seq(Tasks) /\ \A v \in Users \ {u} : Resting(v)
  BY <1>0, <1>4, AskAsks
<1>6. \A t \in Elements(s) : TaskFine(u, t)'
  BY <1>2, <1>3 DEF TaskFine, WriteFine
<1>7. c \in There(u)
  BY DEF Send, Writes, DirInv, AtHand, IInv, ListsLed, There
<1>8. LedBy(Naming, s, There(u))
  BY <1>2, <1>3, <1>7 DEF LedBy, Elements
<1>9. Asking(u)
  BY <1>5, <1>6, <1>8 DEF Asking
<1>. QED  BY <1>5, <1>9 DEF Moves

LEMMA CreateMoves ==
  ASSUME IInv, DirInv, Grows, NEW u \in Users, NEW c \in Ids, NEW s \in Seq(Users),
         Create(u, c, s)
  PROVE  \A v \in Users : Moves(v)
<1>0. TypeOK
  BY DEF IInv
<1>1. PICK t \in Seq(WriteTasks) :
        /\ t = ConvFirst(c, s)
        /\ \A w \in Elements(t) : /\ w.op \in {"conv", "member", "list"} /\ w.conv = c
                                  /\ w.op # "conv" => w.user \in Elements(s)
        /\ LedBy(Naming, t, {})
  BY ConvFirstFacts DEF Naming
<1>2. /\ Ask(u, t) /\ made' = made \cup {c} /\ picked' = [picked EXCEPT ![c] = Elements(s)]
  BY <1>1 DEF Create
<1>3. Asks(u, t) /\ t \in Seq(Tasks) /\ \A v \in Users \ {u} : Resting(v)
  BY <1>0, <1>2, AskAsks
<1>4. c \in made' /\ picked'[c] = Elements(s)
  BY <1>0, <1>2 DEF TypeOK
<1>5. \A w \in Elements(t) : TaskFine(u, w)'
  BY <1>1, <1>4 DEF TaskFine, WriteFine
<1>6. LedBy(Naming, t, There(u))
  BY <1>1, LedByMore
<1>7. Asking(u)
  BY <1>3, <1>5, <1>6 DEF Asking
<1>. QED  BY <1>3, <1>7 DEF Moves

LEMMA WorkMoves ==
  ASSUME IInv, NEW u \in Followed, Work(u)
  PROVE  \A v \in Users : Moves(v)
<1>0. TypeOK /\ u \in Users
  BY UsersAssumption DEF IInv
<1>1. PICK op : Takes(u, op) /\ op \in {"member", "list", "conv", "message", "listen", "read"}
  BY DEF Work, StoreWrite, AddListener, AddReader
<1>2. /\ \A v \in Users \ {u} : worker'[v] = worker[v]
      /\ worker[u] # <<>> /\ worker'[u] = Tail(worker[u])
      /\ Task(u) = Head(worker[u]) /\ Task(u).op = op /\ Task(u) \in Tasks
  BY <1>0, <1>1, TakesFacts
<1>3. CASE StoreWrite(u)
  <2>1. queue' = [queue EXCEPT ![u] = Append(@, Task(u))]
    BY <1>3 DEF StoreWrite
  <2>2. /\ queue'[u] = Append(queue[u], Head(worker[u]))
        /\ \A v \in Users \ {u} : queue'[v] = queue[v]
    BY <1>0, <1>2, <2>1 DEF TypeOK
  <2>3. Head(worker[u]) \in WriteTasks
    <3>1. Task(u).op \notin {"listen", "read"}
      BY <1>3 DEF StoreWrite, Takes
    <3>. QED  BY <1>2, <3>1, TaskTyped
  <2>4. Storing(u)
    BY <1>2, <2>2, <2>3 DEF Storing
  <2>. QED  BY <1>2, <2>2, <2>4 DEF Moves, Resting
<1>4. CASE AddListener(u) \/ AddReader(u)
  <2>1. queue' = queue /\ Head(worker[u]).op # "conv"
    BY <1>2, <1>4 DEF AddListener, AddReader, Takes
  <2>. QED  BY <1>2, <2>1 DEF Moves, Adding, Resting
<1>. QED  BY <1>3, <1>4 DEF Work

LEMMA ServeMoves ==
  ASSUME IInv, NEW u \in Users, Serve(u)
  PROVE  \A v \in Users : Moves(v)
<1>1. /\ queue[u] # <<>> /\ queue' = [queue EXCEPT ![u] = Tail(@)] /\ worker' = worker
      /\ convs' = convs \cup {w.conv : w \in Taken(u, "conv")}
  BY DEF Serve
<1>2. queue'[u] = Tail(queue[u]) /\ \A v \in Users \ {u} : queue'[v] = queue[v]
  BY <1>1 DEF IInv, TypeOK
<1>3. Head(queue[u]).op = "conv" => Head(queue[u]).conv \in convs'
  BY <1>1 DEF Taken
<1>. QED  BY <1>1, <1>2, <1>3 DEF Moves, Serving, Resting

\* A new listener keeps conversations its user was picked for.
LEMMA UserFetchedMoves ==
  ASSUME IInv, DirInv, Grows, NEW u \in Followed, UserFetched(u)
  PROVE  \A v \in Users : Moves(v)
<1>0. TypeOK /\ u \in Users
  BY UsersAssumption DEF IInv
<1>1. PICK b : b = Head(main[u])
  OBVIOUS
<1>2. b \in Blocks /\ b \in Elements(main[u])
  BY <1>0, <1>1, TurnFacts DEF UserFetched
<1>3. PICK t : t = Listen(b.ids, b.screen)
  OBVIOUS
<1>4. t \in Tasks /\ t.op = "listen" /\ t.ids = b.ids
  BY <1>2, <1>3, BlockTyped DEF Listen, Tasks
<1>5. PICK s \in Seq(Tasks) : s = <<t>> /\ Elements(s) = {t}
  BY <1>4, OneElement
<1>6. Ask(u, s)
  BY <1>1, <1>3, <1>5 DEF UserFetched
<1>7. Asks(u, s) /\ \A v \in Users \ {u} : Resting(v)
  BY <1>0, <1>6, AskAsks
<1>8. TaskFine(u, t)'
  <2>1. b.ids \subseteq Mine(u)
    BY <1>0, <1>2 DEF DirInv, WaysFine, BlockFine
  <2>2. Mine(u) \subseteq Mine(u)'
    BY MineGrows
  <2>. QED  BY <1>4, <2>1, <2>2 DEF TaskFine, IsWrite
<1>9. \A base : LedBy(Naming, s, base)
  BY <1>4, <1>5 DEF LedBy, Naming, Elements
<1>10. Asking(u)
  BY <1>5, <1>7, <1>8, <1>9 DEF Asking
<1>. QED  BY <1>7, <1>10 DEF Moves

LEMMA OpenTalkMoves ==
  ASSUME IInv, NEW u \in Followed, NEW row, OpenTalk(u, row)
  PROVE  \A v \in Users : Moves(v)
<1>0. TypeOK /\ u \in Users
  BY UsersAssumption DEF IInv
<1>1. PICK t : t = Read(shared[u][row], screens[u]["talk"] + 1)
  OBVIOUS
<1>2. t \in Tasks /\ t.op = "read"
  <2>1. shared[u][row] \in Ids /\ screens[u]["talk"] + 1 \in Nat
    BY <1>0, Typed DEF OpenTalk
  <2>. QED  BY <1>1, <2>1 DEF Read, Tasks
<1>3. PICK s \in Seq(Tasks) : s = <<t>> /\ Elements(s) = {t}
  BY <1>2, OneElement
<1>4. Ask(u, s)
  BY <1>1, <1>3 DEF OpenTalk
<1>5. Asks(u, s) /\ \A v \in Users \ {u} : Resting(v)
  BY <1>0, <1>4, AskAsks
<1>6. TaskFine(u, t)'
  BY <1>2 DEF TaskFine, IsWrite
<1>7. \A base : LedBy(Naming, s, base)
  BY <1>2, <1>3 DEF LedBy, Naming, Elements
<1>8. Asking(u)
  BY <1>3, <1>5, <1>6, <1>7 DEF Asking
<1>. QED  BY <1>5, <1>8 DEF Moves

LEMMA RestartMoves ==
  ASSUME IInv, NEW u \in Users, Restart(u)
  PROVE  \A v \in Users : Moves(v)
<1>1. worker' = [worker EXCEPT ![u] = <<>>] /\ queue' = queue
  BY DEF Restart
<1>. QED  BY <1>1 DEF IInv, TypeOK, Moves, Ending, Resting

LEMMA AllMove ==
  ASSUME IInv, DirInv, [Next]_vars
  PROVE  \A v \in Users : Moves(v)
<1>0. TypeOK /\ Grows /\ Followed \subseteq Users
  BY HistoryGrows, UsersAssumption DEF IInv
<1>1. ASSUME UNCHANGED <<worker, queue>>  PROVE \A v \in Users : Moves(v)
  BY <1>1 DEF Moves, Resting
<1>2. ASSUME NEW u, \/ ShowList(u) \/ ReloadTable(u) \/ ShowMessages(u)
                    \/ Answer(u) \/ HearConvs(u) \/ HearList(u)
                    \/ (\E c \in Ids : HearMessages(u, c))
                    \/ OpenList(u) \/ LeaveList(u) \/ LeaveTalk(u)
      PROVE  UNCHANGED <<worker, queue>>
  BY <1>2 DEF ShowList, ReloadTable, ShowMessages, Answer, HearConvs, HearList,
              HearMessages, OpenList, LeaveList, LeaveTalk
<1>3. UNCHANGED vars => UNCHANGED <<worker, queue>>
  BY DEF vars
<1>4. ASSUME NEW u \in Users, NEW c \in Ids, NEW others \in SUBSET (Users \ {u}),
             NEW s \in IF others = {} THEN {<<>>} ELSE Selected(u, others), Create(u, c, s)
      PROVE  \A v \in Users : Moves(v)
  BY <1>0, <1>4, SelectedType, CreateMoves
<1>5. ASSUME NEW u \in Followed, Kill(u) \/ CrashOnRow(u)  PROVE \A v \in Users : Moves(v)
  BY <1>0, <1>5, RestartMoves DEF Kill, CrashOnRow
<1>. QED  BY <1>0, <1>1, <1>2, <1>3, <1>4, <1>5, SendMoves, WorkMoves, ServeMoves,
             UserFetchedMoves, OpenTalkMoves DEF Next, RunBlock, Visit

LEMMA AppendElements ==
  ASSUME NEW S, NEW s \in Seq(S), NEW x \in S
  PROVE  Elements(Append(s, x)) = Elements(s) \cup {x}
<1>1. PICK t \in Seq(S) : t = <<x>> /\ Elements(t) = {x}
  BY OneElement
<1>2. Append(s, x) = s \o t
  BY <1>1, AppendIsCat
<1>3. Elements(s \o t) = Elements(s) \cup Elements(t)
  BY CatElements
<1>. QED  BY <1>1, <1>2, <1>3

\* Writes that are stored stay until they are served: nothing a device sees gets lost.
LEMMA ThereGrows ==
  ASSUME TypeOK, NEW u \in Users, Grows, Moves(u)
  PROVE  There(u) \subseteq There(u)'
<1>0. queue[u] \in Seq(WriteTasks) /\ worker[u] \in Seq(Tasks)
  BY Typed
<1>1. There(u) = convs \cup ConvsOf(queue[u]) /\ There(u)' = convs' \cup ConvsOf(queue'[u])
  BY DEF There, StoredConvs, ConvsOf
<1>2. convs \subseteq convs'
  BY DEF Grows
<1>3. CASE Elements(queue[u]) \subseteq Elements(queue'[u])
  BY <1>1, <1>2, <1>3 DEF ConvsOf
<1>4. CASE Resting(u) \/ Adding(u) \/ Ending(u)
  BY <1>3, <1>4 DEF Resting, Adding, Ending
<1>5. CASE Asking(u)
  <2>1. PICK s : Asks(u, s)
    BY <1>5 DEF Asking
  <2>2. CASE queue'[u] = queue[u]
    BY <1>3, <2>2
  <2>3. CASE s \in Seq(WriteTasks) /\ queue'[u] = queue[u] \o s
    BY <1>0, <1>3, <2>3, CatElements
  <2>. QED  BY <2>1, <2>2, <2>3 DEF Asks
<1>6. CASE Storing(u)
  <2>1. PICK t \in WriteTasks : t = Head(worker[u]) /\ queue'[u] = Append(queue[u], t)
    BY <1>6 DEF Storing
  <2>2. Elements(queue'[u]) = Elements(queue[u]) \cup {t}
    BY <1>0, <2>1, AppendElements
  <2>. QED  BY <1>3, <2>2
<1>7. CASE Serving(u)
  <2>1. Elements(queue[u]) = {Head(queue[u])} \cup Elements(queue'[u])
    BY <1>0, <1>7, TailElements DEF Serving
  <2>2. \A w \in Elements(queue[u]) :
          w.op = "conv" => w.conv \in convs' \/ w \in Elements(queue'[u])
    BY <1>7, <2>1 DEF Serving
  <2>. QED  BY <1>1, <1>2, <2>2 DEF ConvsOf
<1>. QED  BY <1>4, <1>5, <1>6, <1>7 DEF Moves

\* All that is on its way remains fine.
LEMMA TasksStayFine ==
  ASSUME TypeOK, NEW u \in Users, Grows, Moves(u),
         \A t \in Elements(worker[u]) : TaskFine(u, t),
         \A w \in Elements(queue[u]) : WriteFine(w)
  PROVE  /\ \A t \in Elements(worker'[u]) : TaskFine(u, t)'
         /\ \A w \in Elements(queue'[u]) : WriteFine(w)'
<1>0. queue[u] \in Seq(WriteTasks) /\ worker[u] \in Seq(Tasks)
  BY Typed
<1>1. /\ \A t \in Elements(worker[u]) : TaskFine(u, t)'
      /\ \A w \in Elements(queue[u]) : WriteFine(w)'
  BY MineGrows
<1>2. \A w \in WriteTasks : TaskFine(u, w)' => WriteFine(w)'
  <2>1. \A w \in WriteTasks : IsWrite(w)
    BY WriteTyped
  <2>. QED  BY <2>1 DEF TaskFine, IsWrite
<1>3. CASE Resting(u)
  BY <1>1, <1>3 DEF Resting
<1>4. CASE Asking(u)
  <2>1. PICK s \in Seq(Tasks) : Asks(u, s) /\ \A t \in Elements(s) : TaskFine(u, t)'
    BY <1>4 DEF Asking
  <2>2. CASE worker'[u] = worker[u] \o s /\ queue'[u] = queue[u]
    BY <1>0, <1>1, <2>1, <2>2, CatElements
  <2>3. CASE s \in Seq(WriteTasks) /\ queue'[u] = queue[u] \o s /\ worker'[u] = worker[u]
    <3>1. Elements(s) \subseteq WriteTasks
      BY <2>3, ElementType
    <3>2. Elements(queue'[u]) = Elements(queue[u]) \cup Elements(s)
      BY <1>0, <2>3, CatElements
    <3>. QED  BY <1>1, <1>2, <2>1, <2>3, <3>1, <3>2
  <2>. QED  BY <2>1, <2>2, <2>3 DEF Asks
<1>5. CASE Storing(u)
  <2>1. PICK t \in WriteTasks : t = Head(worker[u]) /\ queue'[u] = Append(queue[u], t)
    BY <1>5 DEF Storing
  <2>2. Elements(queue'[u]) = Elements(queue[u]) \cup {t}
    BY <1>0, <2>1, AppendElements
  <2>3. Elements(worker[u]) = {t} \cup Elements(worker'[u])
    BY <1>0, <1>5, <2>1, TailElements DEF Storing
  <2>. QED  BY <1>1, <1>2, <2>2, <2>3
<1>6. CASE Adding(u)
  <2>1. Elements(worker'[u]) \subseteq Elements(worker[u])
    BY <1>0, <1>6, TailElements DEF Adding
  <2>. QED  BY <1>1, <1>6, <2>1 DEF Adding
<1>7. CASE Serving(u)
  <2>1. Elements(queue'[u]) \subseteq Elements(queue[u])
    BY <1>0, <1>7, TailElements DEF Serving
  <2>. QED  BY <1>1, <1>7, <2>1 DEF Serving
<1>8. CASE Ending(u)
  BY <1>1, <1>8, NoElements DEF Ending
<1>. QED  BY <1>3, <1>4, <1>5, <1>6, <1>7, <1>8 DEF Moves

\* No member and no message gets ahead of its conversation.
LEMMA NamesStayLed ==
  ASSUME TypeOK, NEW u \in Users, Grows, Moves(u), NamesLed(u)
  PROVE  NamesLed(u)'
<1>0. queue[u] \in Seq(WriteTasks) /\ worker[u] \in Seq(Tasks)
  BY Typed
<1>1. There(u) = convs \cup ConvsOf(queue[u]) /\ There(u)' = convs' \cup ConvsOf(queue'[u])
  BY DEF There, StoredConvs, ConvsOf
<1>2. convs \subseteq convs' /\ There(u) \subseteq There(u)'
  BY ThereGrows DEF Grows
<1>. SUFFICES LedBy(Naming, queue'[u], convs') /\ LedBy(Naming, worker'[u], There(u)')
  BY DEF NamesLed, LedBy, Naming
<1>3. LedBy(Naming, queue[u], convs) /\ LedBy(Naming, worker[u], There(u))
  BY DEF NamesLed
<1>4. LedBy(Naming, queue[u], convs') /\ LedBy(Naming, worker[u], There(u)')
  BY <1>2, <1>3, LedByMore
<1>5. CASE Resting(u)
  BY <1>4, <1>5 DEF Resting
<1>6. CASE Asking(u)
  <2>1. PICK s \in Seq(Tasks) : Asks(u, s) /\ LedBy(Naming, s, There(u))
    BY <1>6 DEF Asking
  <2>2. CASE worker'[u] = worker[u] \o s /\ queue'[u] = queue[u]
    <3>1. LedBy(Naming, s, There(u)' \cup ConvsOf(worker[u]))
      BY <1>2, <2>1, LedByMore
    <3>2. LedBy(Naming, worker[u] \o s, There(u)')
      BY <1>0, <1>4, <3>1, LedByCat
    <3>. QED  BY <1>4, <2>2, <3>2
  <2>3. CASE s \in Seq(WriteTasks) /\ queue'[u] = queue[u] \o s /\ worker'[u] = worker[u]
    <3>1. LedBy(Naming, s, convs' \cup ConvsOf(queue[u]))
      BY <1>1, <1>2, <2>1, LedByMore
    <3>2. LedBy(Naming, queue[u] \o s, convs')
      BY <1>0, <1>4, <2>3, <3>1, LedByCat
    <3>. QED  BY <1>4, <2>3, <3>2
  <2>. QED  BY <2>1, <2>2, <2>3 DEF Asks
<1>7. CASE Storing(u)
  <2>1. PICK t \in WriteTasks : t = Head(worker[u]) /\ queue'[u] = Append(queue[u], t)
    BY <1>7 DEF Storing
  <2>2. worker[u] # <<>> /\ worker'[u] = Tail(worker[u])
    BY <1>7 DEF Storing
  <2>3. PICK s \in Seq(WriteTasks) : s = <<t>> /\ Elements(s) = {t}
    BY OneElement
  <2>4. queue'[u] = queue[u] \o s
    BY <1>0, <2>1, <2>3, AppendIsCat
  <2>5. LedBy(Naming, s, convs' \cup ConvsOf(queue[u]))
    <3>1. t.op \in Naming => t.conv \in There(u)
      <4>1. 1 \in DOMAIN worker[u] /\ worker[u][1] = t /\ ~\E i \in DOMAIN worker[u] : i < 1
        BY <1>0, <2>1, <2>2
      <4>. QED  BY <1>3, <4>1 DEF LedBy
    <3>2. LedBy(Naming, s, There(u))
      BY <2>3, <3>1 DEF LedBy, Elements
    <3>. QED  BY <1>1, <1>2, <3>2, LedByMore
  <2>6. LedBy(Naming, queue'[u], convs')
    BY <1>0, <1>4, <2>4, <2>5, LedByCat
  <2>7. t.op = "conv" => t.conv \in There(u)'
    <3>1. t \in Elements(queue'[u])
      BY <1>0, <2>1, AppendElements
    <3>. QED  BY <1>1, <3>1 DEF ConvsOf
  <2>8. LedBy(Naming, worker'[u], There(u)')
    BY <1>0, <1>2, <1>3, <2>1, <2>2, <2>7, LedByTail
  <2>. QED  BY <2>6, <2>8
<1>8. CASE Adding(u)
  <2>1. LedBy(Naming, Tail(worker[u]), There(u)')
    BY <1>0, <1>2, <1>3, <1>8, LedByTail DEF Adding
  <2>. QED  BY <1>4, <1>8, <2>1 DEF Adding
<1>9. CASE Serving(u)
  <2>1. LedBy(Naming, Tail(queue[u]), convs')
    BY <1>0, <1>2, <1>3, <1>9, LedByTail DEF Serving
  <2>. QED  BY <1>4, <1>9, <2>1 DEF Serving
<1>10. CASE Ending(u)
  <2>1. LedBy(Naming, <<>>, There(u)')
    BY DEF LedBy
  <2>. QED  BY <1>4, <1>10, <2>1 DEF Ending
<1>. QED  BY <1>5, <1>6, <1>7, <1>8, <1>9, <1>10 DEF Moves

\* What the server has, and what the devices hear of it, comes of fine writes.
LEMMA ServeSources ==
  ASSUME IInv, DirInv, Grows, NEW v \in Users, Serve(v)
  PROVE  convs' \subseteq made' /\ \A u \in Users : Sources(u)'
<1>0. TypeOK /\ queue[v] \in Seq(WriteTasks) /\ queue[v] # <<>>
  BY Typed DEF IInv, Serve
<1>1. PICK h : h = Head(queue[v])
  OBVIOUS
<1>2. h \in WriteTasks /\ WriteFine(h)
  <2>1. h \in WriteTasks /\ Elements(queue[v]) = {h} \cup Elements(Tail(queue[v]))
    BY <1>0, <1>1, TailIndex, TailElements
  <2>. QED  BY <2>1 DEF DirInv, WaysFine
<1>3. \A op : Taken(v, op) = IF h.op = op THEN {h} ELSE {}
  BY <1>1 DEF Taken
<1>4. {w.conv : w \in Taken(v, "conv")} \subseteq made
  BY <1>2, <1>3 DEF WriteFine
<1>5. \A u \in Users : {w.conv : w \in {x \in Taken(v, "list") : x.user = u}} \subseteq Mine(u)
  BY <1>2, <1>3 DEF WriteFine, Mine
<1>6. /\ convs' = convs \cup {w.conv : w \in Taken(v, "conv")}
      /\ made' = made /\ picked' = picked
      /\ \A u \in Users :
           /\ lists'[u] = lists[u] \cup {w.conv : w \in {x \in Taken(v, "list") : x.user = u}}
           /\ heard'[u] \subseteq heard[u] \cup
                            {w.conv : w \in {x \in Taken(v, "list") : x.user = u}}
           /\ known'[u] \subseteq known[u] \cup {w.conv : w \in Taken(v, "conv")}
  <2>1. \A u \in Users : lists'[u] = lists[u] \cup
                           {w.conv : w \in {x \in Taken(v, "list") : x.user = u}}
    BY DEF Serve
  <2>2. /\ known' = [known EXCEPT ![v] = @ \cup {w.conv : w \in Taken(v, "conv")}]
        /\ heard' = [heard EXCEPT ![v] = @ \cup
                       {w.conv : w \in {x \in Taken(v, "list") : x.user = v}}]
    BY DEF Serve
  <2>3. ASSUME NEW u \in Users
        PROVE  /\ heard'[u] \subseteq heard[u] \cup
                            {w.conv : w \in {x \in Taken(v, "list") : x.user = u}}
               /\ known'[u] \subseteq known[u] \cup {w.conv : w \in Taken(v, "conv")}
    <3>1. CASE u = v
      BY <1>0, <2>2, <3>1 DEF TypeOK
    <3>2. CASE u # v
      BY <1>0, <2>2, <3>2 DEF TypeOK
    <3>. QED  BY <3>1, <3>2
  <2>. QED  BY <2>1, <2>3 DEF Serve, history
<1>7. \A u \in Users : Mine(u)' = Mine(u)
  BY <1>6 DEF Mine
<1>8. ASSUME NEW u \in Users  PROVE Sources(u)'
  <2>1. lists[u] \subseteq Mine(u) /\ heard[u] \subseteq Mine(u) /\ known[u] \subseteq convs
    BY DEF DirInv, Sources
  <2>2. lists'[u] \subseteq Mine(u) /\ heard'[u] \subseteq Mine(u)
    BY <1>5, <1>6, <2>1
  <2>3. known'[u] \subseteq convs'
    BY <1>6, <2>1
  <2>. QED  BY <1>7, <2>2, <2>3 DEF Sources
<1>9. convs' \subseteq made'
  BY <1>4, <1>6 DEF DirInv
<1>. QED  BY <1>8, <1>9

LEMMA SourcesStep ==
  ASSUME IInv, DirInv, [Next]_vars
  PROVE  convs' \subseteq made' /\ \A u \in Users : Sources(u)'
<1>0. TypeOK /\ Grows /\ Followed \subseteq Users
  BY HistoryGrows, UsersAssumption DEF IInv
<1>1. \A u \in Users :
        /\ lists[u] \subseteq Mine(u)' /\ heard[u] \subseteq Mine(u)' /\ known[u] \subseteq convs
        /\ convs \subseteq convs'
  BY <1>0, MineGrows DEF DirInv, Sources, Grows
<1>2. ASSUME convs' = convs,
             \A u \in Users : /\ lists'[u] = lists[u]
                              /\ heard'[u] \subseteq heard[u] \cup lists[u]
                              /\ known'[u] \subseteq known[u] \cup convs
      PROVE  convs' \subseteq made' /\ \A u \in Users : Sources(u)'
  <2>1. convs' \subseteq made'
    BY <1>0, <1>2 DEF DirInv, Grows
  <2>2. ASSUME NEW u \in Users  PROVE Sources(u)'
    BY <1>1, <1>2, <2>2 DEF Sources
  <2>. QED  BY <2>1, <2>2
<1>3. ASSUME UNCHANGED <<server, heard, known>>
      PROVE  convs' \subseteq made' /\ \A u \in Users : Sources(u)'
  BY <1>2, <1>3 DEF server
<1>4. ASSUME NEW u \in Users, HearConvs(u) \/ HearList(u)
      PROVE  convs' \subseteq made' /\ \A v \in Users : Sources(v)'
  <2>1. convs' = convs /\ lists' = lists
    BY <1>4 DEF HearConvs, HearList, server
  <2>2. \/ known' = [known EXCEPT ![u] = @ \cup convs] /\ heard' = heard
        \/ heard' = [heard EXCEPT ![u] = @ \cup lists[u]] /\ known' = known
    BY <1>4 DEF HearConvs, HearList
  <2>3. \A v \in Users : /\ heard'[v] \subseteq heard[v] \cup lists[v]
                         /\ known'[v] \subseteq known[v] \cup convs
    BY <1>0, <2>2 DEF TypeOK
  <2>. QED  BY <1>2, <2>1, <2>3
<1>5. ASSUME NEW u, Work(u) \/ RunBlock(u) \/ Answer(u)
                    \/ (\E c \in Ids : Send(u, c) \/ (\E s : Create(u, c, s)))
                    \/ (\E c \in Ids : HearMessages(u, c)) \/ Visit(u)
                    \/ Kill(u) \/ CrashOnRow(u)
      PROVE  UNCHANGED <<server, heard, known>>
  BY <1>5 DEF Work, StoreWrite, AddListener, AddReader, RunBlock, UserFetched,
      ShowList, ReloadTable, ShowMessages, Answer, HearMessages, Send, Create, cache,
      Visit, OpenList, LeaveList, OpenTalk, LeaveTalk, Kill, CrashOnRow, Restart
<1>6. UNCHANGED vars => UNCHANGED <<server, heard, known>>
  BY DEF vars, cache
<1>. QED  BY <1>0, <1>3, <1>4, <1>5, <1>6, ServeSources DEF Next

\* What the listeners of u keep, the main queue brings and the screens hold.
Held(u) ==
  /\ \A r \in Elements(listeners[u]) : r.ids \subseteq Mine(u)
  /\ \A b \in Elements(main[u]) : BlockFine(u, b)
  /\ AtHand(u)

\* It stays so as long as what is new is fine.
LEMMA HeldMore ==
  ASSUME NEW u, Held(u), Grows, There(u) \subseteq There(u)',
         \A r \in Elements(listeners'[u]) :
           r \in Elements(listeners[u]) \/ r.ids \subseteq Mine(u),
         \A b \in Elements(main'[u]) :
           \/ b \in Elements(main[u])
           \/ b.ids \subseteq Mine(u) /\ (b.kind = "list" => b.docs \subseteq There(u)'),
         Elements(shared'[u]) \subseteq Elements(shared[u]) \cup (Mine(u) \cap There(u)),
         front'[u] = "talk" => \/ front[u] = "talk" /\ opened'[u] = opened[u]
                               \/ opened'[u] \in Mine(u) \cap There(u)
  PROVE  Held(u)'
<1>1. Mine(u) \subseteq Mine(u)'
  BY MineGrows
<1>2. \A r \in Elements(listeners'[u]) : r.ids \subseteq Mine(u)'
  BY <1>1 DEF Held
<1>3. \A b \in Elements(main'[u]) : BlockFine(u, b)'
  BY <1>1 DEF Held, BlockFine
<1>4. AtHand(u)'
  BY <1>1 DEF Held, AtHand
<1>. QED  BY <1>2, <1>3, <1>4 DEF Held

\* A step that touches none of it.
LEMMA HeldSame ==
  ASSUME NEW u, Held(u), Grows, There(u) \subseteq There(u)',
         listeners'[u] = listeners[u], main'[u] = main[u], shared'[u] = shared[u],
         front'[u] = front[u], opened'[u] = opened[u]
  PROVE  Held(u)'
BY HeldMore

\* All the conversations a device sees, it may see.
LEMMA SeesThere ==
  ASSUME IInv, DirInv, NEW u \in Users
  PROVE  SeesConvs(u) \subseteq There(u) /\ SeesList(u) \subseteq Mine(u)
<1>1. SeesConvs(u) = known[u] \cup StoredConvs(u)
  BY StoredType DEF IInv
<1>2. ASSUME NEW c \in SeesList(u)  PROVE c \in Mine(u)
  <2>1. CASE c \in heard[u]
    BY <2>1 DEF DirInv, Sources
  <2>2. ASSUME NEW w \in Elements(queue[u]), w.op = "list", w.user = u, c = w.conv
        PROVE  c \in Mine(u)
    BY <2>2 DEF DirInv, WaysFine, WriteFine, Mine
  <2>. QED  BY <2>1, <2>2 DEF SeesList, Stored
<1>. QED  BY <1>1, <1>2 DEF There, DirInv, Sources

LEMMA ToldFine ==
  ASSUME IInv, DirInv, NEW u \in Users, NEW docs \in SUBSET Ids, TellLists(u, docs)
  PROVE  /\ \A v \in Users \ {u} : main'[v] = main[v]
         /\ \A b \in Elements(main'[u]) :
              b \in Elements(main[u]) \/ (b.ids \subseteq Mine(u) /\ b.docs = docs)
<1>0. TypeOK
  BY DEF IInv
<1>1. PICK t \in Seq(Blocks) : t = ToldLists(u, docs)
  BY <1>0, ToldFacts
<1>2. main' = [main EXCEPT ![u] = main[u] \o t]
  BY <1>1 DEF TellLists
<1>3. /\ \A v \in Users \ {u} : main'[v] = main[v]
      /\ Elements(main'[u]) = Elements(main[u]) \cup Elements(t)
  BY <1>0, <1>2, MainMore
<1>4. \A b \in Elements(t) : b.ids \subseteq Mine(u) /\ b.docs = docs
  BY <1>1 DEF ToldLists, Block, Elements, DirInv, WaysFine
<1>. QED  BY <1>3, <1>4

LEMMA TellReadersFine ==
  ASSUME IInv, NEW u \in Users, NEW c \in Ids, NEW docs \in SUBSET Nat,
         TellReaders(u, c, docs)
  PROVE  /\ \A v \in Users \ {u} : main'[v] = main[v]
         /\ \A b \in Elements(main'[u]) :
              b \in Elements(main[u]) \/ (b.ids = {} /\ b.kind = "talk")
<1>1. \A v \in Users \ {u} : main'[v] = main[v]
  BY TellReadersFacts
<1>2. PICK t \in Seq(Blocks) : Tells(u, c, docs, t)
  BY TellsExist
<1>3. main[u] \in Seq(Blocks)
  BY Typed DEF IInv
<1>4. main'[u] = main[u] \o t
  BY <1>2 DEF Tells
<1>5. Elements(main[u] \o t) = Elements(main[u]) \cup Elements(t)
  BY <1>3, CatElements
<1>6. \A b \in Elements(t) : b \in Blocks /\ b.kind = "talk"
  BY <1>2, ElementType DEF Tells
<1>7. \A b \in Elements(t) : b.ids = {} /\ b.kind = "talk"
  BY <1>6 DEF Blocks
<1>. QED  BY <1>1, <1>4, <1>5, <1>7

\* The thread of Firestore tells what the device sees, for the lists it sees.
LEMMA WorkHolds ==
  ASSUME IInv, DirInv, Grows, \A x \in Users : There(x) \subseteq There(x)',
         NEW u \in Followed, Work(u)
  PROVE  \A v \in Users : Held(v)'
<1>0. TypeOK /\ u \in Users /\ \A v \in Users : Held(v)
  BY UsersAssumption DEF IInv, DirInv, Held, WaysFine
<1>1. PICK op : Takes(u, op) /\ op \in {"member", "list", "conv", "message", "listen", "read"}
  BY DEF Work, StoreWrite, AddListener, AddReader
<1>2. PICK t \in Tasks : t = Task(u) /\ t.op = op /\ t \in Elements(worker[u])
  BY <1>0, <1>1, TakesFacts
<1>3. TaskFine(u, t) /\ SeesConvs(u) \subseteq There(u)
  BY <1>0, <1>2, SeesThere DEF DirInv, WaysFine
<1>4. UNCHANGED <<shared, front, opened>>
  BY DEF Work, StoreWrite, AddListener, AddReader, list, talk, place
<1>5. ASSUME \A v \in Users \ {u} : main'[v] = main[v] /\ listeners'[v] = listeners[v],
             \A r \in Elements(listeners'[u]) :
               r \in Elements(listeners[u]) \/ r.ids \subseteq Mine(u),
             \A b \in Elements(main'[u]) :
               \/ b \in Elements(main[u])
               \/ b.ids \subseteq Mine(u) /\ (b.kind = "list" => b.docs \subseteq There(u)')
      PROVE  \A v \in Users : Held(v)'
  <2>1. Held(u)'
    BY <1>0, <1>4, <1>5, HeldMore
  <2>2. \A v \in Users \ {u} : Held(v)'
    BY <1>0, <1>4, <1>5, HeldSame
  <2>. QED  BY <2>1, <2>2
<1>6. CASE StoreWrite(u)
  <2>0. listeners' = listeners
    BY <1>6 DEF StoreWrite, list
  <2>1. CASE Takes(u, "member") \/ Takes(u, "list")
    <3>1. main' = main
      BY <1>6, <2>1 DEF StoreWrite, Takes
    <3>. QED  BY <1>5, <2>0, <3>1
  <2>2. CASE Takes(u, "conv")
    <3>1. op = "conv"
      BY <1>1, <2>2 DEF Takes
    <3>2. t.conv \in Ids /\ SeesConvs(u) \subseteq Ids
      BY <1>0, <1>2, <3>1, TaskTyped, WriteTyped, StoredType
    <3>3. PICK docs \in SUBSET Ids : docs = SeesConvs(u) \cup {t.conv}
      BY <3>2
    <3>4. TellLists(u, docs)
      BY <1>2, <1>6, <2>2, <3>3 DEF StoreWrite, Takes
    <3>5. t.conv \in There(u)'
      <4>1. queue' = [queue EXCEPT ![u] = Append(@, t)]
        BY <1>2, <1>6 DEF StoreWrite
      <4>2. t \in WriteTasks /\ queue[u] \in Seq(WriteTasks) /\ queue'[u] = Append(queue[u], t)
        BY <1>0, <1>2, <3>1, <4>1, TaskTyped, Typed DEF TypeOK
      <4>3. t \in Elements(queue'[u])
        BY <4>2, AppendElements
      <4>. QED  BY <1>2, <3>1, <4>3 DEF There, StoredConvs, ConvsOf
    <3>6. docs \subseteq There(u)'
      BY <1>0, <1>3, <3>3, <3>5
    <3>. QED  BY <1>0, <1>5, <2>0, <3>4, <3>6, ToldFine
  <2>3. CASE Takes(u, "message")
    <3>1. op = "message"
      BY <1>1, <2>3 DEF Takes
    <3>2. t.conv \in Ids /\ t.message \in Nat
      BY <1>2, <3>1, TaskTyped, WriteTyped
    <3>3. PICK docs \in SUBSET Nat : docs = SeesMessages(u, t.conv) \cup {t.message}
      BY <1>0, <3>2, StoredType
    <3>4. TellReaders(u, t.conv, docs)
      BY <1>2, <1>6, <2>3, <3>3 DEF StoreWrite, Takes
    <3>5. /\ \A v \in Users \ {u} : main'[v] = main[v]
          /\ \A b \in Elements(main'[u]) :
               b \in Elements(main[u]) \/ (b.ids = {} /\ b.kind = "talk")
      BY <1>0, <3>2, <3>4, TellReadersFine
    <3>. QED  BY <1>5, <2>0, <3>5
  <2>. QED  BY <1>6, <2>1, <2>2, <2>3 DEF StoreWrite
<1>7. CASE AddListener(u)
  <2>1. t.op = "listen"
    BY <1>2, <1>7 DEF AddListener, Takes
  <2>2. t.ids \subseteq Ids /\ t.screen \in Nat /\ t.ids \subseteq Mine(u)
    BY <1>2, <1>3, <2>1, TaskTyped DEF TaskFine
  <2>3. PICK b : b = Block("list", t.ids, SeesConvs(u), None, t.screen)
    OBVIOUS
  <2>4. b \in Blocks /\ b.ids = t.ids /\ b.docs = SeesConvs(u)
    <3>1. SeesConvs(u) \in SUBSET Ids
      BY <1>0, StoredType
    <3>2. b \in Blocks
      BY <2>2, <2>3, <3>1, BlockType
    <3>. QED  BY <2>3, <3>2 DEF Block
  <2>5. main' = [main EXCEPT ![u] = Append(@, b)]
    BY <1>2, <1>7, <2>3 DEF AddListener
  <2>6. /\ \A v \in Users \ {u} : main'[v] = main[v]
        /\ Elements(main'[u]) = Elements(main[u]) \cup {b}
    BY <1>0, <2>5, <2>4, MainOne
  <2>7. PICK r : r = [ids |-> t.ids, screen |-> t.screen]
    OBVIOUS
  <2>8. r \in [ids : SUBSET Ids, screen : Nat] /\ r.ids = t.ids
    BY <2>2, <2>7
  <2>9. listeners' = [listeners EXCEPT ![u] = Append(@, r)]
    BY <1>2, <1>7, <2>7 DEF AddListener
  <2>10. /\ \A v \in Users \ {u} : listeners'[v] = listeners[v]
        /\ listeners'[u] = Append(listeners[u], r)
    BY <1>0, <2>9 DEF TypeOK
  <2>11. Elements(listeners'[u]) = Elements(listeners[u]) \cup {r}
    <3>1. PICK R : R = [ids : SUBSET Ids, screen : Nat]
      OBVIOUS
    <3>2. listeners[u] \in Seq(R) /\ r \in R
      BY <1>0, <2>8, <3>1, Typed
    <3>3. PICK s : s = listeners[u]
      OBVIOUS
    <3>4. Elements(Append(s, r)) = Elements(s) \cup {r}
      BY <3>2, <3>3, AppendElements
    <3>. QED  BY <2>10, <3>3, <3>4
  <2>12. \A b1 \in Elements(main'[u]) :
           \/ b1 \in Elements(main[u])
           \/ b1.ids \subseteq Mine(u) /\ (b1.kind = "list" => b1.docs \subseteq There(u)')
    BY <1>0, <1>3, <2>2, <2>4, <2>6
  <2>13. \A r1 \in Elements(listeners'[u]) :
           r1 \in Elements(listeners[u]) \/ r1.ids \subseteq Mine(u)
    BY <2>2, <2>8, <2>11
  <2>. QED  BY <1>5, <2>6, <2>10, <2>12, <2>13
<1>8. CASE AddReader(u)
  <2>1. t.op = "read"
    BY <1>2, <1>8 DEF AddReader, Takes
  <2>2. t.conv \in Ids /\ t.screen \in Nat
    BY <1>2, <2>1, TaskTyped
  <2>3. PICK b : b = Block("talk", {}, SeesMessages(u, t.conv), t.conv, t.screen)
    OBVIOUS
  <2>4. b \in Blocks /\ b.ids = {} /\ b.kind = "talk"
    <3>1. SeesMessages(u, t.conv) \in SUBSET Nat
      BY <1>0, StoredType
    <3>2. b \in Blocks
      BY <2>2, <2>3, <3>1, BlockType
    <3>. QED  BY <2>3, <3>2 DEF Block
  <2>5. main' = [main EXCEPT ![u] = Append(@, b)] /\ listeners' = listeners
    BY <1>2, <1>8, <2>3 DEF AddReader, list
  <2>6. /\ \A v \in Users \ {u} : main'[v] = main[v]
        /\ Elements(main'[u]) = Elements(main[u]) \cup {b}
    BY <1>0, <2>5, <2>4, MainOne
  <2>. QED  BY <1>5, <2>5, <2>6, <2>4
<1>. QED  BY <1>6, <1>7, <1>8 DEF Work

\* A step of u on the main queue, or with an answer for it.
LEMMA HeldStep ==
  ASSUME IInv, DirInv, Grows, \A x \in Users : There(x) \subseteq There(x)',
         NEW u \in Users,
         \A v \in Users \ {u} :
           /\ main'[v] = main[v] /\ shared'[v] = shared[v]
           /\ front'[v] = front[v] /\ opened'[v] = opened[v],
         listeners' = listeners,
         \A b \in Elements(main'[u]) :
           \/ b \in Elements(main[u])
           \/ b.ids \subseteq Mine(u) /\ (b.kind = "list" => b.docs \subseteq There(u)'),
         Elements(shared'[u]) \subseteq Elements(shared[u]) \cup (Mine(u) \cap There(u)),
         front'[u] = "talk" => \/ front[u] = "talk" /\ opened'[u] = opened[u]
                               \/ opened'[u] \in Mine(u) \cap There(u)
  PROVE  \A v \in Users : Held(v)'
<1>1. \A v \in Users : Held(v)
  BY DEF DirInv, Held, WaysFine
<1>2. \A v \in Users \ {u} : Held(v)'
  BY <1>1, HeldSame
<1>3. Held(u)'
  <2>1. \A r \in Elements(listeners'[u]) :
          r \in Elements(listeners[u]) \/ r.ids \subseteq Mine(u)
    OBVIOUS
  <2>. QED  BY <1>1, <2>1, HeldMore
<1>. QED  BY <1>2, <1>3

LEMMA AnswersHold ==
  ASSUME IInv, DirInv, Grows, \A x \in Users : There(x) \subseteq There(x)',
         NEW u \in Followed,
         HearConvs(u) \/ (\E c \in Ids : HearMessages(u, c)) \/ Answer(u)
  PROVE  \A v \in Users : Held(v)'
<1>0. TypeOK /\ u \in Users
  BY UsersAssumption DEF IInv
<1>1. UNCHANGED <<listeners, shared, front, opened>>
  BY DEF HearConvs, HearMessages, Answer, list, talk, place
<1>2. ASSUME \A v \in Users \ {u} : main'[v] = main[v],
             \A b \in Elements(main'[u]) :
               \/ b \in Elements(main[u])
               \/ b.ids \subseteq Mine(u) /\ (b.kind = "list" => b.docs \subseteq There(u)')
      PROVE  \A v \in Users : Held(v)'
  BY <1>0, <1>1, <1>2, HeldStep
<1>3. CASE HearConvs(u)
  <2>1. PICK docs : docs = SeesConvs(u) \cup convs
    OBVIOUS
  <2>2. docs \in SUBSET Ids /\ TellLists(u, docs)
    BY <1>0, <1>3, <2>1, StoredType DEF HearConvs, TypeOK
  <2>3. docs \subseteq There(u)'
    BY <1>0, <2>1, SeesThere DEF There
  <2>4. /\ \A v \in Users \ {u} : main'[v] = main[v]
        /\ \A b \in Elements(main'[u]) :
             b \in Elements(main[u]) \/ (b.ids \subseteq Mine(u) /\ b.docs = docs)
    BY <1>0, <2>2, ToldFine
  <2>. QED  BY <1>2, <2>3, <2>4
<1>4. CASE \E c \in Ids : HearMessages(u, c)
  <2>1. PICK c \in Ids : HearMessages(u, c)
    BY <1>4
  <2>2. PICK docs : docs = SeesMessages(u, c) \cup {m \in posted : sent[m] = c}
    OBVIOUS
  <2>3. docs \in SUBSET Nat /\ TellReaders(u, c, docs)
    <3>1. SeesMessages(u, c) \subseteq Nat /\ posted \subseteq Nat
      BY <1>0, StoredType DEF TypeOK
    <3>2. TellReaders(u, c, docs)
      BY <2>1, <2>2 DEF HearMessages
    <3>. QED  BY <2>2, <3>1, <3>2
  <2>4. /\ \A v \in Users \ {u} : main'[v] = main[v]
        /\ \A b \in Elements(main'[u]) :
             b \in Elements(main[u]) \/ (b.ids = {} /\ b.kind = "talk")
    BY <1>0, <2>3, TellReadersFine
  <2>. QED  BY <1>2, <2>4
<1>5. CASE Answer(u)
  <2>1. PICK b : b = Block("user", SeesList(u), {}, None, Head(fetches[u]))
    OBVIOUS
  <2>2. b \in Blocks /\ b.ids = SeesList(u) /\ b.kind = "user"
    <3>1. SeesList(u) \in SUBSET Ids
      BY <1>0, StoredType
    <3>2. Head(fetches[u]) \in Nat
      BY <1>0, <1>5, Typed, TailIndex DEF Answer
    <3>3. b \in Blocks
      BY <2>1, <3>1, <3>2, BlockType
    <3>. QED  BY <2>1, <3>3 DEF Block
  <2>3. main' = [main EXCEPT ![u] = Append(@, b)]
    BY <1>5, <2>1 DEF Answer
  <2>4. /\ \A v \in Users \ {u} : main'[v] = main[v]
        /\ Elements(main'[u]) = Elements(main[u]) \cup {b}
    BY <1>0, <2>2, <2>3, MainOne
  <2>. QED  BY <1>0, <1>2, <2>2, <2>4, SeesThere
<1>. QED  BY <1>3, <1>4, <1>5

LEMMA BlocksHold ==
  ASSUME IInv, DirInv, Grows, \A x \in Users : There(x) \subseteq There(x)',
         NEW u \in Followed, RunBlock(u)
  PROVE  \A v \in Users : Held(v)'
<1>0. TypeOK /\ u \in Users
  BY UsersAssumption DEF IInv
<1>1. UNCHANGED <<listeners, front, opened>>
  BY DEF RunBlock, UserFetched, ShowList, ReloadTable, ShowMessages, list, talk, place
<1>2. CASE UserFetched(u) \/ ReloadTable(u) \/ ShowMessages(u)
  <2>1. shared' = shared /\ Done(u, <<>>) /\ \E kind : Turn(u, kind)
    BY <1>2 DEF UserFetched, ReloadTable, ShowMessages, list
  <2>2. /\ main[u] # <<>> /\ Elements(Tail(main[u])) \subseteq Elements(main[u])
    BY <1>0, <2>1, TurnFacts
  <2>3. /\ \A v \in Users \ {u} : main'[v] = main[v]
        /\ Elements(main'[u]) \subseteq Elements(main[u])
    BY <1>0, <2>1, <2>2, DoneAll
  <2>. QED  BY <1>0, <1>1, <2>1, <2>3, HeldStep
<1>3. CASE ShowList(u)
  <2>1. PICK b : b = Head(main[u])
    OBVIOUS
  <2>2. /\ main[u] # <<>> /\ b \in Blocks /\ b \in Elements(main[u]) /\ b.kind = "list"
        /\ Elements(Tail(main[u])) \subseteq Elements(main[u])
    BY <1>0, <1>3, <2>1, TurnFacts DEF ShowList
  <2>3. PICK r : r = Reload(b.screen)
    OBVIOUS
  <2>4. r \in Blocks /\ r.ids = {} /\ r.kind = "reload"
    <3>1. b.screen \in Nat
      BY <2>2, BlockTyped
    <3>2. r \in Blocks
      BY <2>3, <3>1, BlockType DEF Reload
    <3>. QED  BY <2>3, <3>2 DEF Reload, Block
  <2>5. PICK s \in Seq(Blocks) : s = <<r>> /\ Elements(s) = {r}
    BY <2>4, OneElement
  <2>6. Done(u, s) /\ shared' = [shared EXCEPT ![u] = Ordered(b.docs \cap b.ids)]
    BY <1>3, <2>1, <2>3, <2>5 DEF ShowList, Kept, Reloads
  <2>7. /\ \A v \in Users \ {u} : main'[v] = main[v]
        /\ Elements(main'[u]) = Elements(Tail(main[u])) \cup Elements(s)
    BY <1>0, <2>2, <2>6, DoneFacts
  <2>8. Ordered(b.docs \cap b.ids) \in Seq(b.docs \cap b.ids)
    <3>1. b.docs \cap b.ids \subseteq Ids
      BY <2>2, BlockTyped
    <3>2. b.docs \cap b.ids \in SUBSET Nat /\ IsFiniteSet(b.docs \cap b.ids)
      BY <3>1, IdsAssumption, FS_Subset
    <3>. QED  BY <3>2, OrderedType
  <2>9. /\ \A v \in Users \ {u} : shared'[v] = shared[v]
        /\ shared'[u] = Ordered(b.docs \cap b.ids)
    BY <1>0, <2>6 DEF TypeOK
  <2>10. Elements(shared'[u]) \subseteq b.docs \cap b.ids
    BY <2>8, <2>9, ElementType
  <2>11. b.docs \subseteq There(u) /\ b.ids \subseteq Mine(u)
    BY <1>0, <2>2 DEF DirInv, WaysFine, BlockFine
  <2>12. Elements(shared'[u]) \subseteq Elements(shared[u]) \cup (Mine(u) \cap There(u))
    BY <2>10, <2>11
  <2>13. \A d \in Elements(main'[u]) :
           \/ d \in Elements(main[u])
           \/ d.ids \subseteq Mine(u) /\ (d.kind = "list" => d.docs \subseteq There(u)')
    BY <2>2, <2>4, <2>5, <2>7
  <2>. QED  BY <1>0, <1>1, <2>7, <2>9, <2>12, <2>13, HeldStep
<1>. QED  BY <1>2, <1>3 DEF RunBlock

\* The rows that can be tapped are those of the shared array.
LEMMA VisitsHold ==
  ASSUME IInv, DirInv, Grows, \A x \in Users : There(x) \subseteq There(x)',
         NEW u \in Followed, Visit(u)
  PROVE  \A v \in Users : Held(v)'
<1>0. TypeOK /\ u \in Users
  BY UsersAssumption DEF IInv
<1>1. UNCHANGED <<listeners, main, shared>>
  BY DEF Visit, OpenList, LeaveList, OpenTalk, LeaveTalk, list
<1>2. ASSUME \A v \in Users \ {u} : front'[v] = front[v] /\ opened'[v] = opened[v],
             front'[u] = "talk" => opened'[u] \in Mine(u) \cap There(u)
      PROVE  \A v \in Users : Held(v)'
  BY <1>0, <1>1, <1>2, HeldStep
<1>3. CASE OpenList(u) \/ LeaveList(u)
  <2>1. /\ front' = [front EXCEPT ![u] = "list"] \/ front' = [front EXCEPT ![u] = "other"]
        /\ opened' = opened
    BY <1>3 DEF OpenList, LeaveList, talk
  <2>. QED  BY <1>0, <1>2, <2>1 DEF TypeOK
<1>4. CASE LeaveTalk(u)
  <2>1. front' = [front EXCEPT ![u] = "list"] /\ opened' = [opened EXCEPT ![u] = None]
    BY <1>4 DEF LeaveTalk
  <2>. QED  BY <1>0, <1>2, <2>1 DEF TypeOK
<1>5. ASSUME NEW row, OpenTalk(u, row)  PROVE \A v \in Users : Held(v)'
  <2>1. PICK c : c = shared[u][row]
    OBVIOUS
  <2>2. c \in Mine(u) \cap There(u)
    <3>1. c \in Elements(shared[u])
      BY <1>5, <2>1 DEF OpenTalk, Elements
    <3>. QED  BY <1>0, <3>1 DEF DirInv, AtHand
  <2>3. front' = [front EXCEPT ![u] = "talk"] /\ opened' = [opened EXCEPT ![u] = c]
    BY <1>5, <2>1 DEF OpenTalk
  <2>4. /\ \A v \in Users \ {u} : front'[v] = front[v] /\ opened'[v] = opened[v]
        /\ opened'[u] = c
    BY <1>0, <2>3 DEF TypeOK
  <2>. QED  BY <1>2, <2>2, <2>4
<1>. QED  BY <1>3, <1>4, <1>5 DEF Visit

\* Nothing is left of an app that is ended.
LEMMA EndHolds ==
  ASSUME IInv, DirInv, Grows, \A x \in Users : There(x) \subseteq There(x)',
         NEW u \in Users, Restart(u)
  PROVE  \A v \in Users : Held(v)'
<1>1. \A v \in Users : Held(v)
  BY DEF DirInv, Held, WaysFine
<1>2. TypeOK
  BY DEF IInv
<1>3. /\ listeners' = [listeners EXCEPT ![u] = <<>>] /\ main' = [main EXCEPT ![u] = <<>>]
      /\ shared' = [shared EXCEPT ![u] = <<>>] /\ front' = [front EXCEPT ![u] = "other"]
      /\ opened' = [opened EXCEPT ![u] = None]
  BY DEF Restart
<1>4. ASSUME NEW v \in Users, v # u  PROVE Held(v)'
  BY <1>1, <1>2, <1>3, <1>4, HeldSame DEF TypeOK
<1>5. Held(u)'
  <2>1. /\ listeners'[u] = <<>> /\ main'[u] = <<>> /\ shared'[u] = <<>>
        /\ front'[u] = "other"
    BY <1>2, <1>3 DEF TypeOK
  <2>2. /\ Elements(listeners'[u]) = {} /\ Elements(main'[u]) = {}
        /\ Elements(shared'[u]) = {}
    BY <2>1, NoElements
  <2>. QED  BY <2>1, <2>2 DEF Held, AtHand
<1>. QED  BY <1>4, <1>5

LEMMA AllHeld ==
  ASSUME IInv, DirInv, [Next]_vars, Grows, \A x \in Users : There(x) \subseteq There(x)'
  PROVE  \A v \in Users : Held(v)'
<1>0. Followed \subseteq Users
  BY UsersAssumption
<1>1. ASSUME UNCHANGED <<listeners, main, shared, front, opened>>
      PROVE  \A v \in Users : Held(v)'
  <2>1. \A v \in Users : Held(v)
    BY DEF DirInv, Held, WaysFine
  <2>. QED  BY <1>1, <2>1, HeldSame
<1>2. ASSUME NEW u, Serve(u) \/ HearList(u) \/ (\E c \in Ids : Send(u, c))
                    \/ (\E c \in Ids : \E s : Create(u, c, s))
      PROVE  UNCHANGED <<listeners, main, shared, front, opened>>
  BY <1>2 DEF Serve, HearList, Send, Create, list, talk, place
<1>3. UNCHANGED vars => UNCHANGED <<listeners, main, shared, front, opened>>
  BY DEF vars, list, talk, place
<1>4. ASSUME NEW u \in Followed, Kill(u) \/ CrashOnRow(u)  PROVE \A v \in Users : Held(v)'
  BY <1>0, <1>4, EndHolds DEF Kill, CrashOnRow
<1>. QED  BY <1>0, <1>1, <1>2, <1>3, <1>4, WorkHolds, AnswersHold, BlocksHold, VisitsHold
          DEF Next

LEMMA DirStep ==
  ASSUME IInv, DirInv, [Next]_vars
  PROVE  DirInv'
<1>0. TypeOK /\ Grows
  BY HistoryGrows DEF IInv
<1>1. \A v \in Users : Moves(v)
  BY AllMove
<1>2. \A x \in Users : There(x) \subseteq There(x)'
  BY <1>0, <1>1, ThereGrows
<1>3. convs' \subseteq made' /\ \A u \in Users : Sources(u)'
  BY SourcesStep
<1>4. \A v \in Users : Held(v)'
  BY <1>0, <1>2, AllHeld
<1>5. ASSUME NEW u \in Users  PROVE NamesLed(u)'
  BY <1>0, <1>1, NamesStayLed DEF DirInv
<1>6. ASSUME NEW u \in Users
      PROVE  /\ \A t \in Elements(worker'[u]) : TaskFine(u, t)'
             /\ \A w \in Elements(queue'[u]) : WriteFine(w)'
  BY <1>0, <1>1, TasksStayFine DEF DirInv, WaysFine
<1>7. ASSUME NEW u \in Users  PROVE WaysFine(u)' /\ AtHand(u)'
  <2>1. /\ \A r \in Elements(listeners'[u]) : r.ids \subseteq Mine(u)'
        /\ \A b \in Elements(main'[u]) : BlockFine(u, b)'
        /\ AtHand(u)'
    BY <1>4 DEF Held
  <2>2. WaysFine(u)'
    BY <1>6, <2>1 DEF WaysFine
  <2>. QED  BY <2>1, <2>2
<1>. QED  BY <1>3, <1>5, <1>7 DEF DirInv

LEMMA DirInit == Init => DirInv
<1>. SUFFICES ASSUME Init  PROVE DirInv
  OBVIOUS
<1>1. left.old \subseteq Ids
  BY BudgetsAssumption DEF Init
<1>2. /\ convs = left.old /\ made = left.old
      /\ \A c \in left.old : picked[c] = Users
  BY <1>1 DEF Init
<1>3. \A u \in Users : Mine(u) = left.old
  BY <1>2 DEF Mine
<1>4. ASSUME NEW u \in Users
      PROVE  /\ lists[u] = left.old /\ heard[u] = {} /\ known[u] = {} /\ worker[u] = <<>>
             /\ queue[u] = <<>> /\ listeners[u] = <<>> /\ main[u] = <<>> /\ shared[u] = <<>>
             /\ front[u] = "other"
  BY DEF Init
<1>5. ASSUME NEW u \in Users
      PROVE  /\ Elements(worker[u]) = {} /\ Elements(queue[u]) = {}
             /\ Elements(listeners[u]) = {} /\ Elements(main[u]) = {}
             /\ Elements(shared[u]) = {}
  BY <1>4, NoElements
<1>6. ASSUME NEW u \in Users  PROVE Sources(u) /\ WaysFine(u) /\ AtHand(u)
  BY <1>3, <1>4, <1>5 DEF Sources, WaysFine, AtHand
<1>7. ASSUME NEW u \in Users  PROVE NamesLed(u)
  BY <1>4 DEF NamesLed, LedBy
<1>. QED  BY <1>2, <1>6, <1>7 DEF DirInv

\* The steps of Directory, one for each action that changes what it speaks of.
LEMMA MakeStep ==
  ASSUME IInv, NEW u \in Users, NEW c \in Ids, NEW s \in Seq(Users), Create(u, c, s)
  PROVE  Docs!Next
<1>1. Elements(s) \in SUBSET Users
  BY ElementType
<1>2. /\ c \notin made /\ made' = made \cup {c}
      /\ picked' = [picked EXCEPT ![c] = Elements(s)]
      /\ UNCHANGED <<sent, convs, members, lists, posted, opened>>
  BY DEF Create, server, talk
<1>3. Docs!Make(c, Elements(s))
  BY <1>2 DEF Docs!Make
<1>. QED  BY <1>1, <1>3 DEF Docs!Next

LEMMA SayStep ==
  ASSUME IInv, DirInv, NEW u \in Users, NEW c \in Ids, Send(u, c)
  PROVE  Docs!Next
<1>1. sent' = Append(sent, c) /\ UNCHANGED <<made, picked, convs, members, lists, posted, opened>>
  BY DEF Send, server, talk
<1>2. c \in Mine(u)
  BY DEF Send, Writes, DirInv, AtHand, Sources
<1>3. Docs!Say(u, c)
  BY <1>1, <1>2 DEF Docs!Say, Mine
<1>. QED  BY <1>3 DEF Docs!Next

\* What the server takes of a device is one of the steps on its documents.
LEMMA TakeStep ==
  ASSUME IInv, DirInv, NEW u \in Users, Serve(u)
  PROVE  Docs!Next
<1>0. TypeOK /\ queue[u] \in Seq(WriteTasks) /\ queue[u] # <<>>
  BY Typed DEF IInv, Serve
<1>1. PICK h : h = Head(queue[u])
  OBVIOUS
<1>2. h \in WriteTasks /\ h \in Elements(queue[u])
  BY <1>0, <1>1, TailIndex, TailElements
<1>3. /\ h.op \in {"conv", "member", "list", "message"} /\ h.conv \in Ids
      /\ h.op # "conv" => h.user \in Users
  BY <1>2, WriteTyped
<1>4. WriteFine(h)
  BY <1>2 DEF DirInv, WaysFine
<1>5. \A op : Taken(u, op) = IF h.op = op THEN {h} ELSE {}
  BY <1>1 DEF Taken
<1>6. /\ convs' = convs \cup {w.conv : w \in Taken(u, "conv")}
      /\ members' = [c \in Ids |-> members[c] \cup
                       {w.user : w \in {v \in Taken(u, "member") : v.conv = c}}]
      /\ lists' = [v \in Users |-> lists[v] \cup
                     {w.conv : w \in {x \in Taken(u, "list") : x.user = v}}]
      /\ posted' = posted \cup {w.message : w \in Taken(u, "message")}
      /\ UNCHANGED <<made, picked, sent, opened>>
  BY DEF Serve, history, talk
<1>7. /\ members \in [Ids -> SUBSET Users] /\ lists \in [Users -> SUBSET Ids]
  BY <1>0 DEF TypeOK
<1>8. h.op # "conv" => convs' = convs
  BY <1>5, <1>6
<1>9. h.op # "member" => members' = members
  BY <1>5, <1>6, <1>7
<1>10. h.op # "list" => lists' = lists
  BY <1>5, <1>6, <1>7
<1>11. h.op # "message" => posted' = posted
  BY <1>5, <1>6
<1>12. 1 \in DOMAIN queue[u] /\ queue[u][1] = h /\ ~\E i \in DOMAIN queue[u] : i < 1
  BY <1>0, <1>1
<1>13. h.op \in {"member", "message", "list"} => h.conv \in convs
  <2>1. LedBy(Naming, queue[u], convs) /\ LedBy({"list"}, queue[u], convs)
    BY DEF DirInv, NamesLed, IInv, ListsLed, Led
  <2>. QED  BY <1>12, <2>1 DEF LedBy, Naming
<1>14. CASE h.op = "conv"
  <2>1. convs' = convs \cup {h.conv}
    BY <1>5, <1>6, <1>14
  <2>2. Docs!Put(h.conv)
    BY <1>4, <1>6, <1>9, <1>10, <1>11, <1>14, <2>1 DEF Docs!Put, WriteFine
  <2>. QED  BY <1>3, <2>2 DEF Docs!Next
<1>15. CASE h.op = "member"
  <2>1. members' = [members EXCEPT ![h.conv] = @ \cup {h.user}]
    <3>1. \A c \in Ids :
            {w.user : w \in {v \in Taken(u, "member") : v.conv = c}}
              = IF c = h.conv THEN {h.user} ELSE {}
      BY <1>5, <1>15
    <3>2. members' = [c \in Ids |-> members[c] \cup
                        (IF c = h.conv THEN {h.user} ELSE {})]
      BY <1>6, <3>1
    <3>3. \A c \in Ids : c # h.conv => members[c] \cup {} = members[c]
      OBVIOUS
    <3>. QED  BY <1>3, <1>7, <3>2, <3>3
  <2>2. Docs!Join(h.user, h.conv)
    BY <1>4, <1>6, <1>8, <1>10, <1>11, <1>13, <1>15, <2>1 DEF Docs!Join, WriteFine
  <2>. QED  BY <1>3, <1>15, <2>2 DEF Docs!Next
<1>16. CASE h.op = "list"
  <2>1. lists' = [lists EXCEPT ![h.user] = @ \cup {h.conv}]
    <3>1. \A v \in Users :
            {w.conv : w \in {x \in Taken(u, "list") : x.user = v}}
              = IF v = h.user THEN {h.conv} ELSE {}
      BY <1>5, <1>16
    <3>2. lists' = [v \in Users |-> lists[v] \cup
                      (IF v = h.user THEN {h.conv} ELSE {})]
      BY <1>6, <3>1
    <3>3. \A v \in Users : v # h.user => lists[v] \cup {} = lists[v]
      OBVIOUS
    <3>. QED  BY <1>3, <1>7, <1>16, <3>2, <3>3
  <2>2. Docs!List(h.user, h.conv)
    BY <1>4, <1>6, <1>8, <1>9, <1>11, <1>13, <1>16, <2>1 DEF Docs!List, WriteFine
  <2>. QED  BY <1>3, <1>16, <2>2 DEF Docs!Next
<1>17. CASE h.op = "message"
  <2>1. posted' = posted \cup {h.message}
    BY <1>5, <1>6, <1>17
  <2>2. h.message \in DOMAIN sent /\ sent[h.message] = h.conv
    BY <1>2, <1>17 DEF IInv, TalkSound, Sent
  <2>3. Docs!Publish(h.message)
    BY <1>6, <1>8, <1>9, <1>10, <1>13, <1>17, <2>1, <2>2 DEF Docs!Publish
  <2>. QED  BY <2>2, <2>3 DEF Docs!Next
<1>. QED  BY <1>3, <1>14, <1>15, <1>16, <1>17

\* A row opens a conversation its user was picked for.
LEMMA OpenStep ==
  ASSUME IInv, DirInv, NEW u \in Users, NEW row, OpenTalk(u, row)
  PROVE  Docs!Next
<1>1. PICK c : c = shared[u][row]
  OBVIOUS
<1>2. c \in Mine(u) /\ c \in Ids
  <2>1. c \in Elements(shared[u])
    BY <1>1 DEF OpenTalk, Elements
  <2>. QED  BY <2>1 DEF DirInv, AtHand, Mine, IInv, TypeOK
<1>3. /\ opened' = [opened EXCEPT ![u] = c]
      /\ UNCHANGED <<made, picked, sent, convs, members, lists, posted>>
  BY <1>1 DEF OpenTalk, server, history
<1>4. Docs!Open(u, c)
  BY <1>2, <1>3 DEF Docs!Open, Mine
<1>. QED  BY <1>2, <1>4 DEF Docs!Next

LEMMA CloseStep ==
  ASSUME NEW u \in Users, LeaveTalk(u) \/ Restart(u)
  PROVE  Docs!Next
<1>1. /\ opened' = [opened EXCEPT ![u] = None]
      /\ UNCHANGED <<made, picked, sent, convs, members, lists, posted>>
  BY DEF LeaveTalk, Restart, server, history
<1>2. Docs!Close(u)
  BY <1>1 DEF Docs!Close
<1>. QED  BY <1>2 DEF Docs!Next

LEMMA DirectoryInit == Init => Docs!Init
<1>. SUFFICES ASSUME Init  PROVE Docs!Init
  OBVIOUS
<1>1. left.old \in SUBSET Ids
  BY BudgetsAssumption DEF Init
<1>. QED  BY <1>1 DEF Init, Docs!Init

LEMMA DirectoryStep ==
  ASSUME IInv, DirInv, [Next]_vars
  PROVE  [Docs!Next]_(Docs!vars)
<1>0. Followed \subseteq Users
  BY UsersAssumption
<1>1. ASSUME UNCHANGED <<server, history, opened>>  PROVE UNCHANGED Docs!vars
  BY <1>1 DEF server, history, Docs!vars
<1>2. ASSUME NEW u, \/ Work(u) \/ RunBlock(u) \/ Answer(u) \/ HearConvs(u) \/ HearList(u)
                    \/ (\E c \in Ids : HearMessages(u, c)) \/ OpenList(u) \/ LeaveList(u)
      PROVE  UNCHANGED <<server, history, opened>>
  BY <1>2 DEF Work, StoreWrite, AddListener, AddReader, RunBlock, UserFetched, ShowList,
      ReloadTable, ShowMessages, Answer, HearConvs, HearList, HearMessages, OpenList,
      LeaveList, talk
<1>3. UNCHANGED vars => UNCHANGED <<server, history, opened>>
  BY DEF vars, talk
<1>4. ASSUME NEW u \in Users, NEW c \in Ids, NEW others \in SUBSET (Users \ {u}),
             NEW s \in IF others = {} THEN {<<>>} ELSE Selected(u, others), Create(u, c, s)
      PROVE  Docs!Next
  BY <1>4, SelectedType, MakeStep
<1>5. ASSUME NEW u \in Followed, Visit(u)  PROVE [Docs!Next]_(Docs!vars)
  BY <1>0, <1>1, <1>2, <1>5, OpenStep, CloseStep DEF Visit
<1>6. ASSUME NEW u \in Followed, Kill(u) \/ CrashOnRow(u)  PROVE Docs!Next
  BY <1>0, <1>6, CloseStep DEF Kill, CrashOnRow
<1>. QED  BY <1>0, <1>1, <1>2, <1>3, <1>4, <1>5, <1>6, SayStep, TakeStep DEF Next

\* The devices together do what Directory promises, for any number of users, followed or
\* not, of conversations and messages, whatever order things come in and whenever an app
\* is ended: each step is one of its steps, or changes nothing it speaks of.
THEOREM DirectedHolds == Spec => Directed
<1>1. Init => IInv /\ DirInv
  BY InitInv, DirInit
<1>2. IInv /\ DirInv /\ [Next]_vars => (IInv /\ DirInv)'
  BY NextInv, DirStep
<1>3. IInv /\ DirInv /\ [Next]_vars => [Docs!Next]_(Docs!vars)
  BY DirectoryStep
<1>. QED  BY <1>1, <1>2, <1>3, DirectoryInit, PTL DEF Spec, Directed, Docs!Spec
=============================================================================
