---------------------------- MODULE AccountsProofs ----------------------------
(* Proofs about Accounts, for any devices, users, names and bounds. *)
EXTENDS Accounts, SequenceTheorems, TLAPS

----------------------------------------------------------------------------
(* The inductive invariant.                                                *)

Owners == Uids \cup {Nobody}

\* The screens in their order; the feed covers what is left of them.
Path == <<"login", "personal", "email", "password", "final">>

Shaped(s) ==
  /\ Len(s) \in 1 .. 5
  /\ \A i \in 1 .. Len(s) : s[i] = Path[i] \/ (i = Len(s) /\ i > 1 /\ s[i] = "feed")

\* The contents of a form are being handed on.
HandsOn(s) == Len(s) >= 3 /\ s[3] = "email"

\* Someone asked for an account with this form.
Used(f) == (\E r \in signups : r.form = f) \/ \E u \in Uids : maker[u] = f

StackSound(d) ==
  /\ Shaped(stack[d])
  /\ HandsOn(stack[d]) =>
       /\ typed[d] \in DOMAIN forms
       /\ forms[typed[d]].device = d
       /\ forms[typed[d]].open
       /\ ~Used(typed[d])

TakenByNow(f) == \E v \in forms[f].docs : Same(forms[f].name, users[v])

\* A form whose name was found taken in time has come to its end.
FormSound(f) ==
  /\ \A v \in forms[f].docs : users[v] # NoDoc
  /\ forms[f].check = "free" => ~TakenByNow(f)
  /\ forms[f].inTime => forms[f].check = "over"
  /\ forms[f].inTime /\ TakenByNow(f) =>
       /\ ~Used(f)
       /\ \A d \in Devices : ~(HandsOn(stack[d]) /\ typed[d] = f)

FormsInv ==
  /\ \A d \in Devices : StackSound(d)
  /\ \A f \in DOMAIN forms : FormSound(f)

\* An account whose user document is still to be written.
Awaits(u, f) == u \in accounts /\ users[u] = NoDoc /\ maker[u] = f /\ f \in DOMAIN forms

Answered(r) == r.state \in {"made", "signedIn"}

Place(d, v, i) == d \in Devices /\ v \in Owners /\ i \in DOMAIN queue[d][v]

UserAt(d, v, i, u) ==
  Place(d, v, i) /\ queue[d][v][i].op = "user" /\ queue[d][v][i].uid = u

\* Each document is written once: its write is in a request, or at one place of a queue.
DocsInv ==
  /\ \A u \in Uids : /\ u \notin accounts => users[u] = NoDoc
                     /\ maker[u] = 0 \/ maker[u] \in DOMAIN forms
  /\ \A r \in signups : /\ r.form \in DOMAIN forms
                        /\ Answered(r) => r.uid \in Uids /\ Awaits(r.uid, r.form)
                        /\ ~Answered(r) => r.uid = Nobody
  /\ \A r, q \in signups : r.uid = q.uid /\ r.uid # Nobody => r = q
  /\ \A d, v, i, u : UserAt(d, v, i, u) =>
       /\ Awaits(u, queue[d][v][i].form)
       /\ \A r \in signups : r.uid # u
  /\ \A d, v, i, e, x, j, u : UserAt(d, v, i, u) /\ UserAt(e, x, j, u) =>
       d = e /\ v = x /\ i = j

Asked(u, t) == u \in stale \/ <<u, t>> \in asked

ListWrite(w) ==
  /\ w.op = "base" => w.uid \in wiped
  /\ w.op = "block" => w.target \in Uids /\ Asked(w.uid, w.target)

\* What is written to the lists was asked for.
ListsInv ==
  /\ \A d, v, i : Place(d, v, i) => ListWrite(queue[d][v][i])
  /\ \A r \in blocks : r.target # Nobody => Asked(r.uid, r.target)
  /\ OwnLists
  /\ BlockedStay

IInv == TypeOK /\ FormsInv /\ DocsInv /\ ListsInv

----------------------------------------------------------------------------
(* Stacks of screens.                                                      *)

LEMMA PathAt ==
  /\ Path[1] = "login" /\ Path[2] = "personal" /\ Path[3] = "email"
  /\ Path[4] = "password" /\ Path[5] = "final"
BY DEF Path

\* A screen of the path is where it belongs, and tells how many there are below it.
LEMMA TopAt ==
  ASSUME NEW s \in Seq(Screens), Shaped(s)
  PROVE  /\ Len(s) \in 1 .. 5 /\ s # <<>>
         /\ s[Len(s)] = "login" => Len(s) = 1
         /\ s[Len(s)] = "personal" => Len(s) = 2
         /\ s[Len(s)] = "email" => Len(s) = 3
         /\ s[Len(s)] = "password" => Len(s) = 4
         /\ s[Len(s)] = "final" => Len(s) = 5
         /\ \A i \in 1 .. Len(s) - 1 : s[i] = Path[i]
<1>1. Len(s) \in 1 .. 5 /\ s # <<>>
  BY DEF Shaped
<1>2. s[Len(s)] = Path[Len(s)] \/ s[Len(s)] = "feed"
  BY <1>1 DEF Shaped
<1>3. \A i \in 1 .. Len(s) - 1 : s[i] = Path[i]
  <2>1. \A i \in 1 .. Len(s) - 1 : i \in 1 .. Len(s) /\ i # Len(s)
    BY <1>1
  <2>. QED  BY <2>1 DEF Shaped
<1>4. Len(s) = 1 \/ Len(s) = 2 \/ Len(s) = 3 \/ Len(s) = 4 \/ Len(s) = 5
  BY <1>1
<1>. QED  BY <1>1, <1>2, <1>3, <1>4, PathAt

LEMMA AppendAt ==
  ASSUME NEW s \in Seq(Screens), NEW x \in Screens
  PROVE  /\ Append(s, x) \in Seq(Screens)
         /\ Len(Append(s, x)) = Len(s) + 1
         /\ Append(s, x)[Len(s) + 1] = x
         /\ \A i \in 1 .. Len(s) : Append(s, x)[i] = s[i]
OBVIOUS

\* The next screen of the path, over screens that the feed does not cover.
LEMMA Forward ==
  ASSUME NEW s \in Seq(Screens), Shaped(s), NEW n \in 1 .. 4, Len(s) = n,
         s[n] = Path[n], NEW x \in Screens, x = Path[n + 1]
  PROVE  /\ Append(s, x) \in Seq(Screens) /\ Shaped(Append(s, x))
         /\ n # 2 /\ HandsOn(Append(s, x)) => HandsOn(s)
<1>1. /\ Append(s, x) \in Seq(Screens) /\ Len(Append(s, x)) = n + 1
      /\ Append(s, x)[n + 1] = x
      /\ \A i \in 1 .. n : Append(s, x)[i] = s[i]
  BY AppendAt
<1>2. \A i \in 1 .. n : s[i] = Path[i]
  <2>1. \A i \in 1 .. n : i = n \/ i \in 1 .. n - 1
    OBVIOUS
  <2>2. \A i \in 1 .. n - 1 : s[i] = Path[i]
    BY TopAt
  <2>. QED  BY <2>1, <2>2
<1>3. ASSUME NEW i \in 1 .. n + 1  PROVE Append(s, x)[i] = Path[i]
  <2>1. i = n + 1 \/ i \in 1 .. n
    OBVIOUS
  <2>. QED  BY <1>1, <1>2, <2>1
<1>4. Shaped(Append(s, x))
  <2>1. n + 1 \in 1 .. 5
    OBVIOUS
  <2>. QED  BY <1>1, <1>3, <2>1 DEF Shaped
<1>5. ASSUME n # 2, HandsOn(Append(s, x))  PROVE HandsOn(s)
  <2>1. n + 1 >= 3 /\ Append(s, x)[3] = "email"
    BY <1>1, <1>5 DEF HandsOn
  <2>2. n >= 3 /\ 3 \in 1 .. n
    BY <1>5, <2>1
  <2>3. s[3] = "email"
    BY <1>1, <2>1, <2>2
  <2>. QED  BY <2>2, <2>3 DEF HandsOn
<1>. QED  BY <1>1, <1>4, <1>5

LEMMA PoppedAt ==
  ASSUME NEW s \in Seq(Screens), Shaped(s)
  PROVE  /\ Popped(s) \in Seq(Screens) /\ Shaped(Popped(s))
         /\ Len(Popped(s)) < 5
         /\ \A i \in 1 .. Len(Popped(s)) : Popped(s)[i] = Path[i]
         /\ HandsOn(Popped(s)) => HandsOn(s)
         /\ s[Len(s)] = "email" => ~HandsOn(Popped(s))
<1>1. /\ Len(s) \in 1 .. 5 /\ \A i \in 1 .. Len(s) - 1 : s[i] = Path[i]
      /\ s[Len(s)] = "email" => Len(s) = 3
  BY TopAt
<1>2. CASE Len(s) > 1
  <2>1. /\ Popped(s) \in Seq(Screens) /\ Len(Popped(s)) = Len(s) - 1
        /\ \A i \in 1 .. Len(s) - 1 : Popped(s)[i] = s[i]
    <3>1. /\ 1 \in Int /\ Len(s) - 1 \in Int /\ 1 <= Len(s) - 1
          /\ \A i \in 1 .. Len(s) - 1 : s[i] \in Screens
          /\ (Len(s) - 1) - 1 + 1 = Len(s) - 1
          /\ \A i \in 1 .. Len(s) - 1 : 1 + i - 1 = i
      BY <1>1, <1>2
    <3>2. /\ SubSeq(s, 1, Len(s) - 1) \in Seq(Screens)
          /\ Len(SubSeq(s, 1, Len(s) - 1)) = Len(s) - 1
          /\ \A i \in 1 .. Len(s) - 1 : SubSeq(s, 1, Len(s) - 1)[i] = s[i]
      BY <3>1, SubSeqProperties
    <3>. QED  BY <1>2, <3>2 DEF Popped
  <2>. QED  BY <1>1, <1>2, <2>1 DEF Shaped, HandsOn
<1>3. CASE Len(s) = 1
  <2>1. Popped(s) = s
    BY <1>3 DEF Popped
  <2>2. \A i \in 1 .. Len(s) : s[i] = Path[i]
    BY <1>3 DEF Shaped
  <2>3. Len(s) < 5 /\ ~HandsOn(s)
    BY <1>3 DEF HandsOn
  <2>. QED  BY <2>1, <2>2, <2>3
<1>4. Len(s) > 1 \/ Len(s) = 1
  <2>1. Len(s) \in 1 .. 5
    BY <1>1
  <2>. QED  BY <2>1
<1>. QED  BY <1>2, <1>3, <1>4

----------------------------------------------------------------------------
(* What IInv says, and what keeps it.                                      *)

LEMMA Typed ==
  ASSUME TypeOK, NEW d \in Devices
  PROVE  /\ stack[d] \in Seq(Screens) /\ typed[d] \in Nat
         /\ session[d] \in Owners /\ listed[d] \in Owners
         /\ \A v \in Owners : queue[d][v] \in Seq(Writes)
BY DEF TypeOK, Owners

LEMMA FormsTyped ==
  ASSUME TypeOK
  PROVE  /\ forms \in Seq(Forms) /\ DOMAIN forms = 1 .. Len(forms) /\ Len(forms) \in Nat
         /\ \A f \in DOMAIN forms :
              /\ forms[f] \in Forms /\ forms[f].docs \subseteq Uids
              /\ forms[f].device \in Devices /\ forms[f].name \in Names
<1>1. /\ forms \in Seq(Forms) /\ DOMAIN forms = 1 .. Len(forms) /\ Len(forms) \in Nat
      /\ \A f \in DOMAIN forms : forms[f] \in Forms
  BY DEF TypeOK
<1>2. \A x \in Forms : x.docs \subseteq Uids /\ x.device \in Devices /\ x.name \in Names
  BY DEF Forms
<1>. QED  BY <1>1, <1>2

Budget == [devices : SUBSET Devices, members : SUBSET Uids, blanks : SUBSET BOOLEAN,
           forms : Nat, sessions : Nat, lists : Nat, kills : Nat]

LEMMA BudgetLess ==
  ASSUME TypeOK
  PROVE  /\ left.forms > 0 => [left EXCEPT !.forms = @ - 1] \in Budget
         /\ left.sessions > 0 => [left EXCEPT !.sessions = @ - 1] \in Budget
         /\ left.lists > 0 => [left EXCEPT !.lists = @ - 1] \in Budget
         /\ left.kills > 0 => [left EXCEPT !.kills = @ - 1] \in Budget
<1>1. left \in Budget
  BY DEF TypeOK, Budget
<1>2. left.forms \in Nat /\ left.sessions \in Nat /\ left.lists \in Nat /\ left.kills \in Nat
  BY <1>1 DEF Budget
<1>3. ASSUME left.forms > 0  PROVE [left EXCEPT !.forms = @ - 1] \in Budget
  BY <1>1, <1>2, <1>3 DEF Budget
<1>4. ASSUME left.sessions > 0  PROVE [left EXCEPT !.sessions = @ - 1] \in Budget
  BY <1>1, <1>2, <1>4 DEF Budget
<1>5. ASSUME left.lists > 0  PROVE [left EXCEPT !.lists = @ - 1] \in Budget
  BY <1>1, <1>2, <1>5 DEF Budget
<1>6. ASSUME left.kills > 0  PROVE [left EXCEPT !.kills = @ - 1] \in Budget
  BY <1>1, <1>2, <1>6 DEF Budget
<1>. QED  BY <1>3, <1>4, <1>5, <1>6

\* A document that there is stays as it is.
Grow == \A v \in Uids : users[v] # NoDoc => users'[v] = users[v]

SameForm(f) ==
  /\ forms'[f].device = forms[f].device /\ forms'[f].name = forms[f].name
  /\ forms'[f].docs = forms[f].docs

LEMMA TakenKept ==
  ASSUME TypeOK, FormsInv, Grow, NEW f \in DOMAIN forms, SameForm(f)
  PROVE  /\ \A v \in forms'[f].docs : users'[v] # NoDoc
         /\ TakenByNow(f)' <=> TakenByNow(f)
<1>1. \A v \in forms[f].docs : v \in Uids /\ users[v] # NoDoc
  BY FormsTyped DEF FormsInv, FormSound
<1>2. \A v \in forms[f].docs : users'[v] = users[v]
  BY <1>1 DEF Grow
<1>3. forms'[f].docs = forms[f].docs /\ forms'[f].name = forms[f].name
  BY DEF SameForm
<1>4. \A v \in forms'[f].docs : users'[v] # NoDoc
  BY <1>1, <1>2, <1>3
<1>5. TakenByNow(f)' <=> TakenByNow(f)
  BY <1>2, <1>3 DEF TakenByNow, Same
<1>. QED  BY <1>4, <1>5

LEMMA FormKept ==
  ASSUME TypeOK, FormsInv, Grow, NEW f \in DOMAIN forms, SameForm(f),
         forms'[f].check = forms[f].check, forms'[f].inTime = forms[f].inTime,
         Used(f)' => Used(f) \/ \E d \in Devices : HandsOn(stack[d]) /\ typed[d] = f,
         \A d \in Devices : HandsOn(stack'[d]) /\ typed'[d] = f
                              => HandsOn(stack[d]) /\ typed[d] = f
  PROVE  FormSound(f)'
BY TakenKept DEF FormsInv, FormSound

LEMMA StackKept ==
  ASSUME FormsInv, NEW d \in Devices, Shaped(stack'[d]),
         HandsOn(stack'[d]) =>
           /\ HandsOn(stack[d]) /\ typed'[d] = typed[d]
           /\ typed[d] \in DOMAIN forms'
           /\ forms'[typed[d]].device = forms[typed[d]].device
           /\ forms[typed[d]].device = d /\ forms[typed[d]].open => forms'[typed[d]].open
           /\ Used(typed[d])' => Used(typed[d])
  PROVE  StackSound(d)'
BY DEF FormsInv, StackSound

\* Steps that leave the forms alone.
LEMMA FormsSame ==
  ASSUME TypeOK, FormsInv, Grow, UNCHANGED <<forms, stack, typed>>,
         \A f \in DOMAIN forms : Used(f)' => Used(f)
  PROVE  FormsInv'
<1>0. forms' = forms /\ stack' = stack /\ typed' = typed
  OBVIOUS
<1>1. ASSUME NEW d \in Devices  PROVE StackSound(d)'
  <2>1. StackSound(d)
    BY DEF FormsInv
  <2>. QED  BY <1>0, <2>1 DEF StackSound
<1>2. ASSUME NEW f \in DOMAIN forms  PROVE FormSound(f)'
  BY <1>0, FormKept DEF SameForm
<1>. QED  BY <1>0, <1>1, <1>2 DEF FormsInv

LEMMA UsedSame ==
  ASSUME UNCHANGED <<signups, maker>>
  PROVE  \A f : Used(f)' <=> Used(f)
BY DEF Used

LEMMA DocsKept ==
  ASSUME DocsInv, UNCHANGED <<accounts, maker, users, queue, signups>>,
         DOMAIN forms \subseteq DOMAIN forms'
  PROVE  DocsInv'
<1>1. /\ accounts' = accounts /\ maker' = maker /\ users' = users /\ queue' = queue
      /\ signups' = signups
  OBVIOUS
<1>2. \A u, f : Awaits(u, f) => Awaits(u, f)'
  BY <1>1 DEF Awaits
<1>3. \A d, v, i, u : UserAt(d, v, i, u)' <=> UserAt(d, v, i, u)
  BY <1>1 DEF UserAt, Place
<1>4. \A u \in Uids : /\ u \notin accounts' => users'[u] = NoDoc
                      /\ maker'[u] = 0 \/ maker'[u] \in DOMAIN forms'
  BY <1>1 DEF DocsInv
<1>5. \A r \in signups' : /\ r.form \in DOMAIN forms'
                          /\ Answered(r) => r.uid \in Uids /\ Awaits(r.uid, r.form)'
                          /\ ~Answered(r) => r.uid = Nobody
  BY <1>1, <1>2 DEF DocsInv
<1>6. \A r, q \in signups' : r.uid = q.uid /\ r.uid # Nobody => r = q
  BY <1>1 DEF DocsInv
<1>7. \A d, v, i, u : UserAt(d, v, i, u)' =>
        /\ Awaits(u, queue[d][v][i].form)'
        /\ \A r \in signups' : r.uid # u
  BY <1>1, <1>2, <1>3 DEF DocsInv
<1>8. \A d, v, i, e, x, j, u : UserAt(d, v, i, u)' /\ UserAt(e, x, j, u)' =>
        d = e /\ v = x /\ i = j
  BY <1>3 DEF DocsInv
<1>. QED  BY <1>4, <1>5, <1>6, <1>7, <1>8 DEF DocsInv

LEMMA ListsKept ==
  ASSUME ListsInv, UNCHANGED <<queue, friends, stood, asked, stale>>,
         wiped \subseteq wiped', blocks' \subseteq blocks
  PROVE  ListsInv'
<1>1. /\ queue' = queue /\ friends' = friends /\ stood' = stood /\ asked' = asked
      /\ stale' = stale
  OBVIOUS
<1>2. \A w : ListWrite(w) => ListWrite(w)'
  BY <1>1 DEF ListWrite, Asked
<1>3. \A d, v, i : Place(d, v, i)' => ListWrite(queue[d][v][i])'
  BY <1>1, <1>2 DEF ListsInv, Place
<1>4. \A r \in blocks' : r.target # Nobody => Asked(r.uid, r.target)'
  BY <1>1 DEF ListsInv, Asked
<1>5. OwnLists'
  BY <1>1 DEF ListsInv, OwnLists
<1>6. BlockedStay'
  BY <1>1 DEF ListsInv, BlockedStay
<1>. QED  BY <1>3, <1>4, <1>5, <1>6 DEF ListsInv

LEMMA ClosedFacts ==
  ASSUME NEW d \in Devices, NEW s, NEW f \in Seq(Forms)
  PROVE  /\ Closed(d, f, s) \in Seq(Forms) /\ DOMAIN Closed(d, f, s) = DOMAIN f
         /\ \A i \in DOMAIN f :
              LET x == Closed(d, f, s)[i]
              IN /\ x.device = f[i].device /\ x.name = f[i].name
                 /\ x.docs = f[i].docs /\ x.check = f[i].check
                 /\ x.inTime = f[i].inTime
                 /\ (f[i].device # d \/ Holds(s, "personal")) /\ f[i].open => x.open
<1>. DEFINE c == Closed(d, f, s)
            one(i) == [f[i] EXCEPT !.open = @ /\ Holds(s, "personal")]
<1>. Holds(s, "personal") \in BOOLEAN
  BY DEF Holds
<1>1. DOMAIN f = 1 .. Len(f) /\ Len(f) \in Nat /\ \A i \in DOMAIN f : f[i] \in Forms
  OBVIOUS
<1>2. c = [i \in DOMAIN f |-> IF f[i].device = d THEN one(i) ELSE f[i]]
  BY DEF Closed
<1>3. ASSUME NEW i \in DOMAIN f
      PROVE  /\ one(i) \in Forms
             /\ one(i).device = f[i].device /\ one(i).name = f[i].name
             /\ one(i).docs = f[i].docs /\ one(i).check = f[i].check
             /\ one(i).inTime = f[i].inTime
             /\ Holds(s, "personal") /\ f[i].open => one(i).open
  BY <1>1, <1>3 DEF Forms
<1>. HIDE DEF one
<1>4. c \in [1 .. Len(f) -> Forms]
  BY <1>1, <1>2, <1>3
<1>5. c \in Seq(Forms) /\ DOMAIN c = DOMAIN f
  BY <1>1, <1>4
<1>6. ASSUME NEW i \in DOMAIN f
      PROVE  /\ c[i].device = f[i].device /\ c[i].name = f[i].name
             /\ c[i].docs = f[i].docs /\ c[i].check = f[i].check
             /\ c[i].inTime = f[i].inTime
             /\ (f[i].device # d \/ Holds(s, "personal")) /\ f[i].open => c[i].open
  <2>1. CASE f[i].device = d
    <3>1. c[i] = one(i)
      BY <1>2, <2>1
    <3>. QED  BY <1>3, <2>1, <3>1
  <2>2. CASE f[i].device # d
    <3>1. c[i] = f[i]
      BY <1>2, <2>2
    <3>. QED  BY <3>1
  <2>. QED  BY <2>1, <2>2
<1>. QED  BY <1>5, <1>6

\* The third screen lies over the second.
LEMMA HandsOnHolds ==
  ASSUME NEW s \in Seq(Screens), Shaped(s), HandsOn(s)
  PROVE  Holds(s, "personal")
<1>1. Len(s) \in 1 .. 5 /\ Len(s) >= 3
  BY DEF Shaped, HandsOn
<1>2. 2 \in 1 .. Len(s) - 1 /\ 2 \in DOMAIN s
  BY <1>1
<1>3. s[2] = "personal"
  BY <1>2, TopAt, PathAt
<1>. QED  BY <1>2, <1>3 DEF Holds

\* Screens are pushed and popped, but no form is filled in.
LEMMA ShowKept ==
  ASSUME TypeOK, FormsInv, Grow, NEW d \in Devices, NEW s \in Seq(Screens), Shaped(s),
         Show(d, s), HandsOn(s) => HandsOn(stack[d]), typed' = typed,
         \A f \in DOMAIN forms :
           Used(f)' => Used(f) \/ (f = typed[d] /\ HandsOn(stack[d]) /\ ~HandsOn(s))
  PROVE  /\ FormsInv' /\ stack' \in [Devices -> Seq(Screens)]
         /\ forms' \in Seq(Forms) /\ DOMAIN forms' = DOMAIN forms
         /\ \A f \in DOMAIN forms : forms'[f].name = forms[f].name
<1>1. /\ forms' \in Seq(Forms) /\ DOMAIN forms' = DOMAIN forms
      /\ \A f \in DOMAIN forms :
           /\ forms'[f].device = forms[f].device /\ forms'[f].name = forms[f].name
           /\ forms'[f].docs = forms[f].docs /\ forms'[f].check = forms[f].check
           /\ forms'[f].inTime = forms[f].inTime
           /\ (forms[f].device # d \/ Holds(s, "personal")) /\ forms[f].open
                => forms'[f].open
  BY FormsTyped, ClosedFacts DEF Show
<1>2. /\ stack' \in [Devices -> Seq(Screens)] /\ stack'[d] = s
      /\ \A e \in Devices \ {d} : stack'[e] = stack[e]
  BY DEF Show, TypeOK
<1>3. HandsOn(s) => Holds(s, "personal")
  BY HandsOnHolds
<1>4. ASSUME NEW e \in Devices  PROVE StackSound(e)'
  <2>1. StackSound(e) /\ StackSound(d)
    BY DEF FormsInv
  <2>2. Shaped(stack'[e])
    BY <1>2, <2>1 DEF StackSound
  <2>3. ASSUME HandsOn(stack'[e])
        PROVE  /\ HandsOn(stack[e])
               /\ typed[e] \in DOMAIN forms'
               /\ forms'[typed[e]].device = forms[typed[e]].device
               /\ forms[typed[e]].open => forms'[typed[e]].open
               /\ Used(typed[e])' => Used(typed[e])
    <3>1. HandsOn(stack[e])
      BY <1>2, <2>3
    <3>2. typed[e] \in DOMAIN forms /\ forms[typed[e]].device = e
      BY <2>1, <3>1 DEF StackSound
    <3>3. e # d \/ HandsOn(s)
      BY <1>2, <2>3
    <3>4. typed[e] = typed[d] /\ HandsOn(stack[d]) => e = d
      BY <2>1, <3>2 DEF StackSound
    <3>. QED  BY <1>1, <1>3, <3>1, <3>2, <3>3, <3>4
  <2>. QED  BY <2>2, <2>3, StackKept
<1>5. ASSUME NEW f \in DOMAIN forms  PROVE FormSound(f)'
  <2>1. \A e \in Devices : HandsOn(stack'[e]) => HandsOn(stack[e])
    BY <1>2
  <2>2. SameForm(f)
    BY <1>1 DEF SameForm
  <2>. QED  BY <1>1, <2>1, <2>2, FormKept
<1>. QED  BY <1>1, <1>2, <1>4, <1>5 DEF FormsInv

\* A write goes to the end of one queue.
LEMMA IssueFacts ==
  ASSUME TypeOK, NEW d \in Devices, NEW w \in Writes, Issue(d, w)
  PROVE  /\ queue' \in [Devices -> [Owners -> Seq(Writes)]]
         /\ \A e, v, i : Place(e, v, i)' =>
              \/ Place(e, v, i) /\ queue'[e][v][i] = queue[e][v][i]
              \/ /\ e = d /\ v = session[d] /\ i = Len(queue[d][v]) + 1
                 /\ queue'[e][v][i] = w
<1>. DEFINE u == session[d]
            q == queue[d][u]
<1>1. /\ queue \in [Devices -> [Owners -> Seq(Writes)]] /\ u \in Owners
      /\ q \in Seq(Writes)
  BY Typed DEF TypeOK, Owners
<1>2. queue' = [queue EXCEPT ![d] = [queue[d] EXCEPT ![u] = Append(q, w)]]
  BY DEF Issue
<1>. HIDE DEF u
<1>3. /\ Append(q, w) \in Seq(Writes) /\ DOMAIN q = 1 .. Len(q) /\ Len(q) \in Nat
      /\ \A i \in DOMAIN Append(q, w) :
           \/ i \in DOMAIN q /\ Append(q, w)[i] = q[i]
           \/ i = Len(q) + 1 /\ Append(q, w)[i] = w
  <2>1. \A i \in DOMAIN Append(q, w) : i \in 1 .. Len(q) \/ i = Len(q) + 1
    BY <1>1
  <2>. QED  BY <1>1, <2>1
<1>4. queue' \in [Devices -> [Owners -> Seq(Writes)]]
  BY <1>1, <1>2, <1>3
<1>5. ASSUME NEW e, NEW v, NEW i, Place(e, v, i)'
      PROVE  \/ Place(e, v, i) /\ queue'[e][v][i] = queue[e][v][i]
             \/ /\ e = d /\ v = u /\ i = Len(queue[d][v]) + 1
                /\ queue'[e][v][i] = w
  <2>1. e \in Devices /\ v \in Owners /\ i \in DOMAIN queue'[e][v]
    BY <1>5 DEF Place
  <2>2. CASE e = d /\ v = u
    <3>1. queue'[e][v] = Append(q, w)
      BY <1>1, <1>2, <2>2
    <3>. QED  BY <1>3, <2>1, <2>2, <3>1 DEF Place
  <2>3. CASE ~(e = d /\ v = u)
    <3>1. queue'[e][v] = queue[e][v]
      BY <1>1, <1>2, <2>1, <2>3
    <3>. QED  BY <2>1, <3>1 DEF Place
  <2>. QED  BY <2>2, <2>3
<1>. QED  BY <1>4, <1>5 DEF u

\* The first write of one queue is gone.
LEMMA ServedFacts ==
  ASSUME TypeOK, NEW d \in Devices, queue[d][session[d]] # <<>>, Served(d)
  PROVE  /\ queue' \in [Devices -> [Owners -> Seq(Writes)]]
         /\ Place(d, session[d], 1) /\ queue[d][session[d]][1] = NextWrite(d)
         /\ NextWrite(d) \in Writes
         /\ \A e, v, i : Place(e, v, i)' =>
              IF e = d /\ v = session[d]
                THEN /\ Place(e, v, i + 1) /\ queue'[e][v][i] = queue[e][v][i + 1]
                     /\ i \in Nat /\ i + 1 # 1
                ELSE Place(e, v, i) /\ queue'[e][v][i] = queue[e][v][i]
<1>. DEFINE u == session[d]
            q == queue[d][u]
<1>1. /\ queue \in [Devices -> [Owners -> Seq(Writes)]] /\ u \in Owners
      /\ q \in Seq(Writes) /\ q # <<>>
  BY Typed DEF TypeOK, Owners
<1>2. queue' = [queue EXCEPT ![d] = [queue[d] EXCEPT ![u] = Tail(q)]]
  BY DEF Served
<1>0. NextWrite(d) = Head(q)
  BY DEF NextWrite
<1>. HIDE DEF u
<1>3. /\ Tail(q) \in Seq(Writes) /\ 1 \in DOMAIN q /\ Head(q) = q[1] /\ Head(q) \in Writes
      /\ \A i \in DOMAIN Tail(q) : /\ i \in Nat /\ i + 1 # 1 /\ i + 1 \in DOMAIN q
                                   /\ Tail(q)[i] = q[i + 1]
  BY <1>1
<1>4. queue' \in [Devices -> [Owners -> Seq(Writes)]]
  BY <1>1, <1>2, <1>3
<1>5. Place(d, u, 1) /\ q[1] = NextWrite(d) /\ NextWrite(d) \in Writes
  BY <1>0, <1>1, <1>3 DEF Place
<1>6. ASSUME NEW e, NEW v, NEW i, Place(e, v, i)'
      PROVE  IF e = d /\ v = u
               THEN /\ Place(e, v, i + 1) /\ queue'[e][v][i] = queue[e][v][i + 1]
                    /\ i \in Nat /\ i + 1 # 1
               ELSE Place(e, v, i) /\ queue'[e][v][i] = queue[e][v][i]
  <2>1. e \in Devices /\ v \in Owners /\ i \in DOMAIN queue'[e][v]
    BY <1>6 DEF Place
  <2>2. CASE e = d /\ v = u
    <3>1. queue'[e][v] = Tail(q)
      BY <1>1, <1>2, <2>2
    <3>. QED  BY <1>3, <2>1, <2>2, <3>1 DEF Place
  <2>3. CASE ~(e = d /\ v = u)
    <3>1. queue'[e][v] = queue[e][v]
      BY <1>1, <1>2, <2>1, <2>3
    <3>. QED  BY <2>1, <2>3, <3>1 DEF Place
  <2>. QED  BY <2>2, <2>3
<1>. QED  BY <1>4, <1>5, <1>6 DEF u

----------------------------------------------------------------------------
(* The forms.                                                              *)

\* Screens only, and nothing asked of anyone.
LEMMA ShowInv ==
  ASSUME IInv, NEW d \in Devices, NEW s \in Seq(Screens), Shaped(s), Show(d, s),
         HandsOn(s) => HandsOn(stack[d]),
         UNCHANGED <<server, queue, session, typed, requests, friendly, wiped, left>>
  PROVE  IInv'
<1>0. TypeOK /\ FormsInv /\ DocsInv /\ ListsInv
  BY DEF IInv
<1>1. /\ UNCHANGED <<accounts, maker, users, friends, stood, queue, signups, blocks>>
      /\ UNCHANGED <<asked, stale, wiped, typed>>
  BY DEF server, requests, friendly
<1>2. Grow
  BY <1>1 DEF Grow
<1>3. \A f \in DOMAIN forms : Used(f)' => Used(f)
  BY <1>1, UsedSame
<1>4. /\ FormsInv' /\ stack' \in [Devices -> Seq(Screens)]
      /\ forms' \in Seq(Forms) /\ DOMAIN forms' = DOMAIN forms
  BY <1>0, <1>1, <1>2, <1>3, ShowKept
<1>5. TypeOK'
  BY <1>0, <1>4 DEF TypeOK, server, requests, friendly
<1>6. DocsInv'
  BY <1>0, <1>1, <1>4, DocsKept
<1>7. ListsInv'
  BY <1>0, <1>1, ListsKept
<1>. QED  BY <1>4, <1>5, <1>6, <1>7 DEF IInv

LEMMA ForwardInv ==
  ASSUME IInv, NEW d \in Devices, NEW n \in {1, 3, 4}, Top(d) = Path[n], Path[n] # "feed",
         Len(stack[d]) = n, Path[n + 1] \in Screens,
         Show(d, Append(stack[d], Path[n + 1])),
         UNCHANGED <<server, queue, session, typed, requests, friendly, wiped, left>>
  PROVE  IInv'
<1>1. stack[d] \in Seq(Screens) /\ Shaped(stack[d])
  BY Typed DEF IInv, FormsInv, StackSound
<1>2. stack[d][n] = Path[n] /\ n \in 1 .. 4 /\ n # 2
  BY DEF Top
<1>3. /\ Append(stack[d], Path[n + 1]) \in Seq(Screens)
      /\ Shaped(Append(stack[d], Path[n + 1]))
      /\ HandsOn(Append(stack[d], Path[n + 1])) => HandsOn(stack[d])
  BY <1>1, <1>2, Forward
<1>. QED  BY <1>3, ShowInv

LEMMA NavigateInv ==
  ASSUME IInv, NEW d \in Devices, ToPersonal(d) \/ ToPassword(d) \/ ToFinal(d) \/ GoBack(d)
  PROVE  IInv'
<1>1. stack[d] \in Seq(Screens) /\ Shaped(stack[d])
  BY Typed DEF IInv, FormsInv, StackSound
<1>2. "personal" \in Screens /\ "password" \in Screens /\ "final" \in Screens
  BY DEF Screens
<1>3. CASE ToPersonal(d)
  <2>1. Len(stack[d]) = 1 /\ Top(d) = Path[1] /\ Path[1 + 1] = "personal"
    BY <1>1, <1>3, TopAt, PathAt DEF ToPersonal, Top
  <2>. QED  BY <1>2, <1>3, <2>1, PathAt, ForwardInv DEF ToPersonal
<1>4. CASE ToPassword(d)
  <2>1. Len(stack[d]) = 3 /\ Top(d) = Path[3] /\ Path[3 + 1] = "password"
    BY <1>1, <1>4, TopAt, PathAt DEF ToPassword, Top
  <2>. QED  BY <1>2, <1>4, <2>1, PathAt, ForwardInv DEF ToPassword
<1>5. CASE ToFinal(d)
  <2>1. Len(stack[d]) = 4 /\ Top(d) = Path[4] /\ Path[4 + 1] = "final"
    BY <1>1, <1>5, TopAt, PathAt DEF ToFinal, Top
  <2>. QED  BY <1>2, <1>5, <2>1, PathAt, ForwardInv DEF ToFinal
<1>6. CASE GoBack(d)
  <2>1. /\ Popped(stack[d]) \in Seq(Screens) /\ Shaped(Popped(stack[d]))
        /\ HandsOn(Popped(stack[d])) => HandsOn(stack[d])
    BY <1>1, PoppedAt
  <2>. QED  BY <1>6, <2>1, ShowInv DEF GoBack
<1>. QED  BY <1>3, <1>4, <1>5, <1>6

LEMMA ToEmailInv ==
  ASSUME IInv, NEW d \in Devices, NEW n \in Names, ToEmail(d, n)
  PROVE  IInv'
<1>m. PICK m : m = Len(forms) + 1
  OBVIOUS
<1>. DEFINE x == [device |-> d, name |-> n, check |-> "asked", open |-> TRUE,
                  inTime |-> FALSE, docs |-> {}, lost |-> FALSE]
<1>0. TypeOK /\ FormsInv /\ DocsInv /\ ListsInv
  BY DEF IInv
<1>1. /\ UNCHANGED <<accounts, maker, users, friends, stood, queue, signups, blocks>>
      /\ UNCHANGED <<asked, stale, wiped>>
  BY DEF ToEmail, server, requests, friendly
<1>2. /\ x \in Forms /\ x.device = d /\ x.open /\ x.docs = {} /\ x.check = "asked"
      /\ ~x.inTime
  BY DEF Forms
<1>3. forms' = Append(forms, x) /\ typed' = [typed EXCEPT ![d] = m]
  BY <1>m DEF ToEmail
<1>. HIDE DEF x
<1>4. /\ forms' \in Seq(Forms) /\ DOMAIN forms' = DOMAIN forms \cup {m} /\ forms'[m] = x
      /\ m \notin DOMAIN forms /\ m \in Nat /\ m # 0
      /\ \A f \in DOMAIN forms : forms'[f] = forms[f]
  BY <1>0, <1>m, <1>2, <1>3, FormsTyped
<1>5. /\ typed' \in [Devices -> Nat] /\ typed'[d] = m
      /\ \A e \in Devices \ {d} : typed'[e] = typed[e]
  BY <1>0, <1>3, <1>4 DEF TypeOK
<1>6. /\ stack' \in [Devices -> Seq(Screens)] /\ Shaped(stack'[d])
      /\ \A e \in Devices \ {d} : stack'[e] = stack[e]
  <2>1. stack[d] \in Seq(Screens) /\ Shaped(stack[d]) /\ stack \in [Devices -> Seq(Screens)]
    BY <1>0, Typed DEF FormsInv, StackSound, TypeOK
  <2>2. Len(stack[d]) = 2 /\ stack[d][2] = Path[2] /\ Path[2 + 1] = "email"
    <3>1. stack[d][Len(stack[d])] = "personal"
      BY DEF ToEmail, Top
    <3>2. Len(stack[d]) = 2
      BY <2>1, <3>1, TopAt
    <3>. QED  BY <3>1, <3>2, PathAt
  <2>3. "email" \in Screens
    BY DEF Screens
  <2>4. Append(stack[d], "email") \in Seq(Screens) /\ Shaped(Append(stack[d], "email"))
    BY <2>1, <2>2, <2>3, Forward
  <2>5. stack' = [stack EXCEPT ![d] = Append(stack[d], "email")]
    BY DEF ToEmail
  <2>. QED  BY <2>1, <2>4, <2>5
<1>7. \A f : Used(f)' <=> Used(f)
  BY <1>1, UsedSame
<1>8. ~Used(m)'
  <2>1. ~Used(m)
    BY <1>0, <1>4 DEF Used, DocsInv
  <2>. QED  BY <1>7, <2>1
<1>9. ASSUME NEW e \in Devices  PROVE StackSound(e)'
  <2>1. CASE e = d
    BY <1>2, <1>4, <1>5, <1>6, <1>8, <2>1 DEF StackSound
  <2>2. CASE e # d
    <3>1. /\ stack'[e] = stack[e] /\ typed'[e] = typed[e] /\ StackSound(e)
          /\ Shaped(stack'[e])
      BY <1>0, <1>5, <1>6, <2>2 DEF FormsInv, StackSound
    <3>2. ASSUME HandsOn(stack'[e])
          PROVE  typed[e] \in DOMAIN forms
      BY <3>1, <3>2 DEF StackSound
    <3>. QED  BY <1>0, <1>4, <1>7, <3>1, <3>2, StackKept
  <2>. QED  BY <2>1, <2>2
<1>10. ASSUME NEW f \in DOMAIN forms'  PROVE FormSound(f)'
  <2>1. CASE f = m
    BY <1>2, <1>4, <2>1 DEF FormSound, TakenByNow
  <2>2. CASE f \in DOMAIN forms
    <3>1. SameForm(f) /\ forms'[f] = forms[f]
      BY <1>4, <2>2 DEF SameForm
    <3>2. Grow
      BY <1>1 DEF Grow
    <3>3. \A e \in Devices : HandsOn(stack'[e]) /\ typed'[e] = f
                               => HandsOn(stack[e]) /\ typed[e] = f
      <4>1. f # m
        BY <1>4, <2>2
      <4>. QED  BY <1>5, <1>6, <4>1
    <3>. QED  BY <1>0, <1>7, <2>2, <3>1, <3>2, <3>3, FormKept
  <2>. QED  BY <1>4, <2>1, <2>2
<1>11. TypeOK'
  <2>1. left' \in Budget
    BY <1>0, BudgetLess DEF ToEmail
  <2>. QED  BY <1>0, <1>4, <1>5, <1>6, <2>1
              DEF ToEmail, TypeOK, server, requests, friendly, Budget
<1>12. DocsInv'
  BY <1>0, <1>1, <1>4, DocsKept
<1>13. ListsInv'
  BY <1>0, <1>1, ListsKept
<1>. QED  BY <1>9, <1>10, <1>11, <1>12, <1>13 DEF IInv, FormsInv

LEMMA LookAtNamesInv ==
  ASSUME IInv, NEW f \in DOMAIN forms, LookAtNames(f)
  PROVE  IInv'
<1>t. PICK seen : seen = {u \in Uids : users[u] # NoDoc}
  OBVIOUS
<1>c. PICK c : c = IF \E u \in seen : Same(forms[f].name, users[u]) THEN "taken" ELSE "free"
  OBVIOUS
<1>0. TypeOK /\ FormsInv /\ DocsInv /\ ListsInv
  BY DEF IInv
<1>1. /\ UNCHANGED <<accounts, maker, users, friends, stood, queue, signups, blocks>>
      /\ UNCHANGED <<asked, stale, wiped, typed, stack>>
      /\ Grow
  BY DEF LookAtNames, server, requests, friendly, Grow
<1>2. forms' = [forms EXCEPT ![f].docs = seen, ![f].check = c]
  BY <1>t, <1>c DEF LookAtNames
<1>3. /\ forms' \in Seq(Forms) /\ DOMAIN forms' = DOMAIN forms
      /\ \A g \in DOMAIN forms \ {f} : forms'[g] = forms[g]
      /\ forms'[f].device = forms[f].device /\ forms'[f].name = forms[f].name
      /\ forms'[f].open = forms[f].open /\ forms'[f].inTime = forms[f].inTime
      /\ forms'[f].docs = seen /\ forms'[f].check = c
  <2>1. forms \in Seq(Forms) /\ forms[f] \in Forms
    BY <1>0, FormsTyped
  <2>2. forms' = [forms EXCEPT ![f] = [forms[f] EXCEPT !.docs = seen, !.check = c]]
    BY <1>2
  <2>3. seen \in SUBSET Uids /\ c \in {"free", "taken"}
    BY <1>t, <1>c
  <2>4. [forms[f] EXCEPT !.docs = seen, !.check = c] \in Forms
    BY <2>1, <2>3 DEF Forms
  <2>5. forms' \in Seq(Forms) /\ DOMAIN forms' = DOMAIN forms
    BY <2>1, <2>2, <2>4
  <2>. QED  BY <2>1, <2>2, <2>5 DEF Forms
<1>4. \A g : Used(g)' <=> Used(g)
  BY <1>1, UsedSame
<1>5. ASSUME NEW e \in Devices  PROVE StackSound(e)'
  <2>1. StackSound(e) /\ stack'[e] = stack[e] /\ typed'[e] = typed[e]
    BY <1>0, <1>1 DEF FormsInv
  <2>2. Shaped(stack'[e])
    BY <2>1 DEF StackSound
  <2>3. ASSUME HandsOn(stack'[e])
        PROVE  /\ typed[e] \in DOMAIN forms'
               /\ forms'[typed[e]].device = forms[typed[e]].device
               /\ forms[typed[e]].open => forms'[typed[e]].open
    BY <1>3, <2>1, <2>3 DEF StackSound
  <2>. QED  BY <1>0, <1>4, <2>1, <2>2, <2>3, StackKept
<1>6. ASSUME NEW g \in DOMAIN forms'  PROVE FormSound(g)'
  <2>1. CASE g = f
    <3>1. \A v \in seen : users'[v] # NoDoc
      BY <1>t, <1>1
    <3>2. c = "free" => ~TakenByNow(f)'
      BY <1>c, <1>1, <1>3 DEF TakenByNow
    <3>3. ~forms'[f].inTime
      BY <1>0, <1>3 DEF FormsInv, FormSound, LookAtNames
    <3>. QED  BY <1>3, <2>1, <3>1, <3>2, <3>3 DEF FormSound
  <2>2. CASE g # f
    <3>1. g \in DOMAIN forms /\ forms'[g] = forms[g] /\ SameForm(g)
      BY <1>3, <2>2 DEF SameForm
    <3>. QED  BY <1>0, <1>1, <1>4, <3>1, FormKept
  <2>. QED  BY <2>1, <2>2
<1>7. TypeOK'
  BY <1>0, <1>3 DEF LookAtNames, TypeOK, server, requests, friendly
<1>8. DocsInv'
  BY <1>0, <1>1, <1>3, DocsKept
<1>9. ListsInv'
  BY <1>0, <1>1, ListsKept
<1>. QED  BY <1>5, <1>6, <1>7, <1>8, <1>9 DEF IInv, FormsInv

LEMMA AnswerCheckInv ==
  ASSUME IInv, NEW f \in DOMAIN forms, AnswerCheck(f)
  PROVE  IInv'
<1>d. PICK d : d = forms[f].device
  OBVIOUS
<1>s. PICK s : s = PopsInFront(f, stack[d])
  OBVIOUS
<1>b. PICK inTime : inTime = (Top(d) = "email" /\ typed[d] = f)
  OBVIOUS
<1>g. PICK g : g = [forms EXCEPT ![f].check = "over", ![f].inTime = inTime]
  OBVIOUS
<1>0. TypeOK /\ FormsInv /\ DocsInv /\ ListsInv
  BY DEF IInv
<1>1. /\ UNCHANGED <<accounts, maker, users, friends, stood, queue, signups, blocks>>
      /\ UNCHANGED <<asked, stale, wiped, typed>>
      /\ Grow
  BY DEF AnswerCheck, server, requests, friendly, Grow
<1>2. /\ forms[f].check \in {"free", "taken"}
      /\ stack' = [stack EXCEPT ![d] = s] /\ forms' = Closed(d, g, s)
  BY <1>d, <1>s, <1>b, <1>g DEF AnswerCheck
<1>3. d \in Devices /\ stack[d] \in Seq(Screens) /\ Shaped(stack[d]) /\ forms[f] \in Forms
  <2>1. d \in Devices /\ forms[f] \in Forms
    BY <1>0, <1>d, FormsTyped
  <2>. QED  BY <1>0, <2>1, Typed DEF FormsInv, StackSound
<1>4. /\ s \in Seq(Screens) /\ Shaped(s)
      /\ HandsOn(s) => HandsOn(stack[d])
      /\ forms[f].check = "taken" /\ forms[f].open /\ Top(d) = "email" => ~HandsOn(s)
  BY <1>3, <1>s, PoppedAt DEF PopsInFront, Top
<1>5. /\ g \in Seq(Forms) /\ DOMAIN g = DOMAIN forms
      /\ \A h \in DOMAIN forms \ {f} : g[h] = forms[h]
      /\ g[f].device = forms[f].device /\ g[f].name = forms[f].name
      /\ g[f].open = forms[f].open /\ g[f].docs = forms[f].docs
      /\ g[f].check = "over" /\ g[f].inTime = inTime
  <2>1. forms \in Seq(Forms) /\ forms[f] \in Forms
    BY <1>0, FormsTyped
  <2>2. g = [forms EXCEPT ![f] = [forms[f] EXCEPT !.check = "over", !.inTime = inTime]]
    BY <1>g
  <2>3. inTime \in BOOLEAN
    BY <1>b
  <2>4. [forms[f] EXCEPT !.check = "over", !.inTime = inTime] \in Forms
    BY <2>1, <2>3 DEF Forms
  <2>5. g \in Seq(Forms) /\ DOMAIN g = DOMAIN forms
    BY <2>1, <2>2, <2>4
  <2>. QED  BY <2>1, <2>2, <2>5 DEF Forms
<1>6. /\ forms' \in Seq(Forms) /\ DOMAIN forms' = DOMAIN forms
      /\ \A h \in DOMAIN forms :
           /\ forms'[h].device = g[h].device /\ forms'[h].name = g[h].name
           /\ forms'[h].docs = g[h].docs /\ forms'[h].check = g[h].check
           /\ forms'[h].inTime = g[h].inTime
           /\ (g[h].device # d \/ Holds(s, "personal")) /\ g[h].open => forms'[h].open
  BY <1>2, <1>3, <1>5, ClosedFacts
<1>7. \A h \in DOMAIN forms :
        /\ SameForm(h)
        /\ (forms[h].device # d \/ Holds(s, "personal")) /\ forms[h].open => forms'[h].open
        /\ h # f => forms'[h].check = forms[h].check /\ forms'[h].inTime = forms[h].inTime
  BY <1>5, <1>6 DEF SameForm
<1>8. /\ stack' \in [Devices -> Seq(Screens)] /\ stack'[d] = s
      /\ \A e \in Devices \ {d} : stack'[e] = stack[e]
  BY <1>0, <1>2, <1>3, <1>4 DEF TypeOK
<1>9. \A h : Used(h)' <=> Used(h)
  BY <1>1, UsedSame
<1>10. \A e \in Devices : HandsOn(stack'[e]) => HandsOn(stack[e])
  BY <1>4, <1>8
<1>11. ASSUME NEW e \in Devices  PROVE StackSound(e)'
  <2>1. StackSound(e)
    BY <1>0 DEF FormsInv
  <2>2. Shaped(stack'[e])
    BY <1>4, <1>8, <2>1 DEF StackSound
  <2>3. ASSUME HandsOn(stack'[e])
        PROVE  /\ HandsOn(stack[e])
               /\ typed[e] \in DOMAIN forms'
               /\ forms'[typed[e]].device = forms[typed[e]].device
               /\ forms[typed[e]].open => forms'[typed[e]].open
    <3>1. HandsOn(stack[e])
      BY <1>10, <2>3
    <3>2. typed[e] \in DOMAIN forms /\ forms[typed[e]].device = e
      BY <2>1, <3>1 DEF StackSound
    <3>3. e = d => Holds(s, "personal")
      BY <1>4, <1>8, <2>3, HandsOnHolds
    <3>. QED  BY <1>6, <1>7, <3>1, <3>2, <3>3 DEF SameForm
  <2>. QED  BY <1>0, <1>1, <1>9, <2>2, <2>3, StackKept
<1>12. ASSUME NEW h \in DOMAIN forms'  PROVE FormSound(h)'
  <2>1. CASE h = f
    <3>1. /\ \A v \in forms'[f].docs : users'[v] # NoDoc
          /\ TakenByNow(f)' <=> TakenByNow(f)
      BY <1>0, <1>1, <1>7, TakenKept
    <3>2. forms'[f].check = "over" /\ forms'[f].inTime = inTime
      BY <1>5, <1>6
    <3>3. ASSUME inTime, TakenByNow(f)
          PROVE  ~Used(f)' /\ \A e \in Devices : ~(HandsOn(stack'[e]) /\ typed'[e] = f)
      <4>1. forms[f].check = "taken"
        BY <1>0, <1>2, <3>3 DEF FormsInv, FormSound
      <4>2. Top(d) = "email" /\ typed[d] = f
        BY <1>b, <3>3
      <4>3. HandsOn(stack[d])
        <5>1. Len(stack[d]) = 3 /\ stack[d][3] = "email"
          BY <1>3, <4>2, TopAt DEF Top
        <5>. QED  BY <5>1 DEF HandsOn
      <4>4. forms[f].open /\ ~Used(f)
        BY <1>0, <1>3, <4>2, <4>3 DEF FormsInv, StackSound
      <4>5. ~HandsOn(s)
        BY <1>4, <4>1, <4>2, <4>4
      <4>6. ASSUME NEW e \in Devices, HandsOn(stack[e]), typed[e] = f
            PROVE  e = d
        BY <1>0, <1>d, <4>6 DEF FormsInv, StackSound
      <4>. QED  BY <1>1, <1>8, <1>9, <1>10, <4>4, <4>5, <4>6
    <3>. QED  BY <2>1, <3>1, <3>2, <3>3 DEF FormSound
  <2>2. CASE h # f
    <3>1. h \in DOMAIN forms
      BY <1>6
    <3>. QED  BY <1>0, <1>1, <1>7, <1>9, <1>10, <2>2, <3>1, FormKept
  <2>. QED  BY <2>1, <2>2
<1>13. TypeOK'
  BY <1>0, <1>6, <1>8 DEF AnswerCheck, TypeOK, server, requests, friendly
<1>14. DocsInv'
  BY <1>0, <1>1, <1>6, DocsKept
<1>15. ListsInv'
  BY <1>0, <1>1, ListsKept
<1>. QED  BY <1>11, <1>12, <1>13, <1>14, <1>15 DEF IInv, FormsInv

----------------------------------------------------------------------------
(* What is asked of Auth, and what the end of an app takes away.           *)

\* No user document is written, and no account made.
LEMMA DocsFewer ==
  ASSUME TypeOK, DocsInv, UNCHANGED <<accounts, maker, users>>,
         DOMAIN forms \subseteq DOMAIN forms',
         \A e, v, i, u : UserAt(e, v, i, u)' =>
           UserAt(e, v, i, u) /\ queue'[e][v][i] = queue[e][v][i],
         \A r \in signups' :
           r \in signups \/ (r.form \in DOMAIN forms /\ ~Answered(r) /\ r.uid = Nobody)
  PROVE  DocsInv'
<1>1. accounts' = accounts /\ maker' = maker /\ users' = users /\ Nobody \notin accounts
  BY ConstantsAssumption DEF TypeOK
<1>2. \A u, f : Awaits(u, f) => Awaits(u, f)'
  BY <1>1 DEF Awaits
<1>3. \A u \in Uids : /\ u \notin accounts' => users'[u] = NoDoc
                      /\ maker'[u] = 0 \/ maker'[u] \in DOMAIN forms'
  BY <1>1 DEF DocsInv
<1>4. \A r \in signups' : /\ r.form \in DOMAIN forms'
                          /\ Answered(r) => r.uid \in Uids /\ Awaits(r.uid, r.form)'
                          /\ ~Answered(r) => r.uid = Nobody
  BY <1>2 DEF DocsInv
<1>5. \A r, q \in signups' : r.uid = q.uid /\ r.uid # Nobody => r = q
  BY DEF DocsInv
<1>6. ASSUME NEW e, NEW v, NEW i, NEW u, UserAt(e, v, i, u)'
      PROVE  /\ Awaits(u, queue[e][v][i].form)'
             /\ \A r \in signups' : r.uid # u
  <2>1. UserAt(e, v, i, u) /\ queue'[e][v][i] = queue[e][v][i]
    BY <1>6
  <2>2. Awaits(u, queue[e][v][i].form) /\ \A r \in signups : r.uid # u
    BY <2>1 DEF DocsInv
  <2>3. u # Nobody
    BY <1>1, <2>2 DEF Awaits
  <2>4. Awaits(u, queue[e][v][i].form)'
    BY <1>1, <2>1, <2>2 DEF Awaits
  <2>. QED  BY <2>2, <2>3, <2>4
<1>7. \A e, v, i, h, x, j, u : UserAt(e, v, i, u)' /\ UserAt(h, x, j, u)' =>
        e = h /\ v = x /\ i = j
  BY DEF DocsInv
<1>. QED  BY <1>3, <1>4, <1>5, <1>6, <1>7 DEF DocsInv

\* The lists stay as they are, whatever is asked for them.
LEMMA ListsMore ==
  ASSUME ListsInv, UNCHANGED <<friends, stood>>, asked \subseteq asked',
         stale \subseteq stale', wiped \subseteq wiped',
         \A e, v, i : Place(e, v, i)' =>
           \/ Place(e, v, i) /\ queue'[e][v][i] = queue[e][v][i]
           \/ ListWrite(queue[e][v][i])',
         \A r \in blocks' :
           r \in blocks \/ (r.target # Nobody => Asked(r.uid, r.target)')
  PROVE  ListsInv'
<1>1. friends' = friends /\ stood' = stood
  OBVIOUS
<1>2. \A u, t : Asked(u, t) => Asked(u, t)'
  BY DEF Asked
<1>3. \A r \in blocks' : r.target # Nobody => Asked(r.uid, r.target)'
  BY <1>2 DEF ListsInv
<1>4. ASSUME NEW e, NEW v, NEW i, Place(e, v, i)'
      PROVE  ListWrite(queue[e][v][i])'
  <2>1. CASE Place(e, v, i) /\ queue'[e][v][i] = queue[e][v][i]
    <3>1. ListWrite(queue[e][v][i])
      BY <2>1 DEF ListsInv
    <3>. QED  BY <1>2, <2>1, <3>1 DEF ListWrite
  <2>. QED  BY <1>4, <2>1
<1>5. OwnLists'
  BY <1>1 DEF ListsInv, OwnLists
<1>6. BlockedStay'
  BY <1>1 DEF ListsInv, BlockedStay
<1>. QED  BY <1>3, <1>4, <1>5, <1>6 DEF ListsInv

LEMMA RestartedFacts ==
  ASSUME TypeOK, NEW d \in Devices
  PROVE  LET g == Restarted(d, forms)
         IN /\ g \in Seq(Forms) /\ DOMAIN g = DOMAIN forms
            /\ \A f \in DOMAIN forms :
                 /\ g[f].device = forms[f].device /\ g[f].name = forms[f].name
                 /\ g[f].docs = forms[f].docs /\ g[f].check = forms[f].check
                 /\ g[f].inTime = forms[f].inTime
                 /\ forms[f].device # d => g[f] = forms[f]
<1>. DEFINE g == Restarted(d, forms)
            one(f) == [forms[f] EXCEPT !.lost = TRUE, !.open = FALSE]
<1>1. g = [f \in DOMAIN forms |-> IF forms[f].device = d THEN one(f) ELSE forms[f]]
  BY DEF Restarted
<1>2. /\ DOMAIN forms = 1 .. Len(forms) /\ Len(forms) \in Nat
      /\ \A f \in DOMAIN forms : forms[f] \in Forms
  BY FormsTyped
<1>3. ASSUME NEW f \in DOMAIN forms
      PROVE  /\ one(f) \in Forms
             /\ one(f).device = forms[f].device /\ one(f).name = forms[f].name
             /\ one(f).docs = forms[f].docs /\ one(f).check = forms[f].check
             /\ one(f).inTime = forms[f].inTime
  BY <1>2, <1>3 DEF Forms
<1>. HIDE DEF one
<1>4. g \in [1 .. Len(forms) -> Forms]
  BY <1>1, <1>2, <1>3
<1>5. g \in Seq(Forms) /\ DOMAIN g = DOMAIN forms
  BY <1>2, <1>4
<1>6. \A f \in DOMAIN forms : IF forms[f].device = d THEN g[f] = one(f) ELSE g[f] = forms[f]
  BY <1>1
<1>. HIDE DEF g
<1>7. \A f \in DOMAIN forms :
        /\ g[f].device = forms[f].device /\ g[f].name = forms[f].name
        /\ g[f].docs = forms[f].docs /\ g[f].check = forms[f].check
        /\ g[f].inTime = forms[f].inTime
        /\ forms[f].device # d => g[f] = forms[f]
  BY <1>3, <1>6
<1>. QED  BY <1>5, <1>7 DEF g

\* The app of d starts again; a last request for an account may have gone out.
LEMMA RestartInv ==
  ASSUME IInv, NEW d \in Devices, NEW pending \in SUBSET SignUps,
         \A r \in pending : r \in signups \/ (r = SignUp(d) /\ HandsOn(stack[d])),
         Restart(d, pending), left' \in Budget,
         UNCHANGED <<server, queue, session, asked, stale, wiped>>
  PROVE  IInv'
<1>0. TypeOK /\ FormsInv /\ DocsInv /\ ListsInv
  BY DEF IInv
<1>1. /\ UNCHANGED <<accounts, maker, users, friends, stood, queue>>
      /\ blocks' \subseteq blocks /\ Grow
  BY DEF Restart, server, Grow
<1>2. /\ forms' \in Seq(Forms) /\ DOMAIN forms' = DOMAIN forms
      /\ \A f \in DOMAIN forms :
           /\ forms'[f].device = forms[f].device /\ forms'[f].name = forms[f].name
           /\ forms'[f].docs = forms[f].docs /\ forms'[f].check = forms[f].check
           /\ forms'[f].inTime = forms[f].inTime
           /\ forms[f].device # d => forms'[f] = forms[f]
  BY <1>0, RestartedFacts DEF Restart
<1>3. /\ stack' \in [Devices -> Seq(Screens)] /\ typed' \in [Devices -> Nat]
      /\ Shaped(stack'[d]) /\ ~HandsOn(stack'[d])
      /\ \A e \in Devices \ {d} : stack'[e] = stack[e] /\ typed'[e] = typed[e]
  <2>1. <<"login">> \in Seq(Screens) /\ Len(<<"login">>) = 1 /\ <<"login">>[1] = "login"
    BY DEF Screens
  <2>2. Shaped(<<"login">>) /\ ~HandsOn(<<"login">>)
    <3>1. \A i \in 1 .. 1 : i = 1
      OBVIOUS
    <3>. QED  BY <2>1, <3>1, PathAt DEF Shaped, HandsOn
  <2>. QED  BY <1>0, <2>1, <2>2 DEF Restart, TypeOK
<1>4. HandsOn(stack[d]) =>
        typed[d] \in DOMAIN forms /\ forms[typed[d]].device = d /\ ~Used(typed[d])
  BY <1>0 DEF FormsInv, StackSound
<1>5. ASSUME NEW r \in signups'
      PROVE  /\ r \in SignUps
             /\ r \in signups \/ (r.form \in DOMAIN forms /\ ~Answered(r) /\ r.uid = Nobody)
             /\ \/ \E q \in signups : q.form = r.form
                \/ HandsOn(stack[d]) /\ typed[d] = r.form
  <2>0. SignUp(d).form = typed[d] /\ SignUp(d).uid = Nobody /\ SignUp(d).device = d
    BY DEF SignUp
  <2>1. CASE r \in pending /\ r.device # d
    BY <2>0, <2>1
  <2>2. CASE \E q \in pending : /\ q.device = d /\ q.state \in {"sent", "orphan"}
                                /\ r = [q EXCEPT !.state = "orphan"]
    <3>1. PICK q \in pending : /\ q.device = d /\ q.state \in {"sent", "orphan"}
                               /\ r = [q EXCEPT !.state = "orphan"]
      BY <2>2
    <3>2. /\ r \in SignUps /\ r.form = q.form /\ r.uid = q.uid /\ r.state = "orphan"
      BY <3>1 DEF SignUps
    <3>3. CASE q \in signups
      <4>1. q.form \in DOMAIN forms /\ q.uid = Nobody
        BY <1>0, <3>1, <3>3 DEF DocsInv, Answered
      <4>. QED  BY <3>2, <3>3, <4>1 DEF Answered
    <3>4. CASE q = SignUp(d) /\ HandsOn(stack[d])
      BY <1>4, <2>0, <3>2, <3>4 DEF Answered
    <3>. QED  BY <3>1, <3>3, <3>4
  <2>. QED  BY <2>1, <2>2 DEF Restart
<1>6. \A f : Used(f)' => Used(f) \/ (HandsOn(stack[d]) /\ typed[d] = f)
  BY <1>1, <1>5 DEF Used
<1>7. ASSUME NEW e \in Devices  PROVE StackSound(e)'
  <2>1. CASE e = d
    BY <1>3, <2>1 DEF StackSound
  <2>2. CASE e # d
    <3>1. stack'[e] = stack[e] /\ typed'[e] = typed[e] /\ StackSound(e)
      BY <1>0, <1>3, <2>2 DEF FormsInv
    <3>2. Shaped(stack'[e])
      BY <3>1 DEF StackSound
    <3>3. ASSUME HandsOn(stack'[e])
          PROVE  /\ typed[e] \in DOMAIN forms'
                 /\ forms'[typed[e]] = forms[typed[e]]
                 /\ Used(typed[e])' => Used(typed[e])
      <4>1. typed[e] \in DOMAIN forms /\ forms[typed[e]].device = e
        BY <3>1, <3>3 DEF StackSound
      <4>. QED  BY <1>2, <1>4, <1>6, <2>2, <3>1, <4>1
    <3>. QED  BY <1>0, <3>1, <3>2, <3>3, StackKept
  <2>. QED  BY <2>1, <2>2
<1>8. ASSUME NEW f \in DOMAIN forms'  PROVE FormSound(f)'
  <2>1. f \in DOMAIN forms /\ SameForm(f)
    BY <1>2 DEF SameForm
  <2>2. \A e \in Devices : HandsOn(stack'[e]) /\ typed'[e] = f
                             => HandsOn(stack[e]) /\ typed[e] = f
    BY <1>3
  <2>. QED  BY <1>0, <1>1, <1>2, <1>6, <2>1, <2>2, FormKept
<1>9. TypeOK'
  <2>1. signups' \subseteq SignUps
    BY <1>5
  <2>2. logins' \subseteq Devices \X Uids /\ listed' \in [Devices -> Uids \cup {Nobody}]
    BY <1>0 DEF Restart, TypeOK
  <2>. QED  BY <1>0, <1>1, <1>2, <1>3, <2>1, <2>2 DEF TypeOK, server, Budget
<1>10. DocsInv'
  <2>1. \A e, v, i, u : UserAt(e, v, i, u)' =>
          UserAt(e, v, i, u) /\ queue'[e][v][i] = queue[e][v][i]
    BY <1>1 DEF UserAt, Place
  <2>. QED  BY <1>0, <1>1, <1>2, <1>5, <2>1, DocsFewer
<1>11. ListsInv'
  BY <1>0, <1>1, ListsKept
<1>. QED  BY <1>7, <1>8, <1>9, <1>10, <1>11 DEF IInv, FormsInv

LEMMA FinalHandsOn ==
  ASSUME IInv, NEW d \in Devices, Top(d) = "final"
  PROVE  /\ HandsOn(stack[d]) /\ SignUp(d) \in SignUps
         /\ SignUp(d).form = typed[d] /\ SignUp(d).uid = Nobody
         /\ SignUp(d).state = "sent" /\ typed[d] \in DOMAIN forms /\ typed[d] \in Nat
<1>1. stack[d] \in Seq(Screens) /\ Shaped(stack[d]) /\ typed[d] \in Nat
  BY Typed DEF IInv, FormsInv, StackSound
<1>2. Len(stack[d]) = 5 /\ \A i \in 1 .. 4 : stack[d][i] = Path[i]
  <2>1. stack[d][Len(stack[d])] = "final"
    BY DEF Top
  <2>2. Len(stack[d]) = 5 /\ \A i \in 1 .. Len(stack[d]) - 1 : stack[d][i] = Path[i]
    BY <1>1, <2>1, TopAt
  <2>. QED  BY <2>2
<1>3. HandsOn(stack[d])
  BY <1>2, PathAt DEF HandsOn
<1>4. typed[d] \in DOMAIN forms
  BY <1>3 DEF IInv, FormsInv, StackSound
<1>. QED  BY <1>1, <1>3, <1>4 DEF SignUp, SignUps

LEMMA CrashInv ==
  ASSUME IInv, NEW d \in Devices,
         \/ CrashOnNoSession(d) \/ Kill(d)
         \/ \E r \in blocks : r.device = d /\ CrashOnBlocked(r)
  PROVE  IInv'
<1>0. TypeOK /\ signups \subseteq SignUps
  BY DEF IInv, TypeOK
<1>1. CASE CrashOnNoSession(d)
  <2>1. left' \in Budget
    BY <1>0, <1>1, BudgetLess DEF CrashOnNoSession
  <2>2. HandsOn(stack[d]) /\ SignUp(d) \in SignUps
    BY <1>1, FinalHandsOn DEF CrashOnNoSession
  <2>3. signups \cup {SignUp(d)} \in SUBSET SignUps /\ signups \in SUBSET SignUps
    BY <1>0, <2>2
  <2>. QED  BY <1>1, <2>1, <2>2, <2>3, RestartInv DEF CrashOnNoSession
<1>2. CASE Kill(d)
  <2>1. left' \in Budget
    BY <1>0, <1>2, BudgetLess DEF Kill
  <2>. QED  BY <1>0, <1>2, <2>1, RestartInv DEF Kill
<1>3. CASE \E r \in blocks : r.device = d /\ CrashOnBlocked(r)
  <2>1. /\ left' \in Budget /\ Restart(d, signups)
        /\ UNCHANGED <<server, queue, session, asked, stale, wiped>>
    BY <1>0, <1>3, BudgetLess DEF CrashOnBlocked
  <2>. QED  BY <1>0, <2>1, RestartInv
<1>. QED  BY <1>1, <1>2, <1>3

\* The stack that is left when the forms are done with.
LEMMA LoginAlone ==
  <<"login">> \in Seq(Screens) /\ Shaped(<<"login">>) /\ ~HandsOn(<<"login">>)
<1>1. <<"login">> \in Seq(Screens) /\ Len(<<"login">>) = 1 /\ <<"login">>[1] = "login"
  BY DEF Screens
<1>2. \A i \in 1 .. 1 : i = 1
  OBVIOUS
<1>. QED  BY <1>1, <1>2, PathAt DEF Shaped, HandsOn

LEMMA CreateUserInv ==
  ASSUME IInv, NEW d \in Devices, CreateUser(d)
  PROVE  IInv'
<1>w. PICK w : w = Write("base", session[d], typed[d], Nobody)
  OBVIOUS
<1>r. PICK r : r = SignUp(d)
  OBVIOUS
<1>0. TypeOK /\ FormsInv /\ DocsInv /\ ListsInv
  BY DEF IInv
<1>1. /\ UNCHANGED <<accounts, maker, users, friends, stood, blocks, logins>>
      /\ UNCHANGED <<asked, stale, listed, session, typed, left>>
      /\ Grow
  BY DEF CreateUser, server, friendly, Grow
<1>2. /\ HandsOn(stack[d]) /\ r \in SignUps /\ r.form = typed[d] /\ r.uid = Nobody
      /\ ~Answered(r) /\ typed[d] \in DOMAIN forms /\ typed[d] \in Nat
  BY <1>r, FinalHandsOn DEF CreateUser, Answered
<1>3. /\ signups' = signups \cup {r} /\ Issue(d, w) /\ wiped' = wiped \cup {session[d]}
      /\ Show(d, <<"login">>) /\ session[d] # Nobody
  BY <1>w, <1>r DEF CreateUser
<1>4. session[d] \in Uids
  BY <1>0, <1>3, Typed DEF Owners
<1>5. w \in Writes /\ w.op = "base" /\ w.uid = session[d]
  BY <1>w, <1>2, <1>4 DEF Write, Writes
<1>6. /\ queue' \in [Devices -> [Owners -> Seq(Writes)]]
      /\ \A e, v, i : Place(e, v, i)' =>
           \/ Place(e, v, i) /\ queue'[e][v][i] = queue[e][v][i]
           \/ queue'[e][v][i] = w
  BY <1>0, <1>3, <1>5, IssueFacts
<1>7. /\ FormsInv' /\ stack' \in [Devices -> Seq(Screens)]
      /\ forms' \in Seq(Forms) /\ DOMAIN forms' = DOMAIN forms
  <2>1. \A f \in DOMAIN forms :
          Used(f)' => Used(f) \/ (f = typed[d] /\ HandsOn(stack[d]) /\ ~HandsOn(<<"login">>))
    BY <1>1, <1>2, <1>3, LoginAlone DEF Used
  <2>. QED  BY <1>0, <1>1, <1>3, <2>1, LoginAlone, ShowKept
<1>8. TypeOK'
  <2>1. wiped' \subseteq Uids /\ signups' \subseteq SignUps
    BY <1>0, <1>2, <1>3, <1>4 DEF TypeOK
  <2>. QED  BY <1>0, <1>1, <1>6, <1>7, <2>1 DEF TypeOK, Owners
<1>9. DocsInv'
  <2>1. \A e, v, i, u : UserAt(e, v, i, u)' =>
          UserAt(e, v, i, u) /\ queue'[e][v][i] = queue[e][v][i]
    BY <1>5, <1>6 DEF UserAt
  <2>. QED  BY <1>0, <1>1, <1>2, <1>3, <1>7, <2>1, DocsFewer
<1>10. ListsInv'
  <2>1. \A e, v, i : Place(e, v, i)' =>
          \/ Place(e, v, i) /\ queue'[e][v][i] = queue[e][v][i]
          \/ ListWrite(queue[e][v][i])'
    BY <1>3, <1>5, <1>6 DEF ListWrite
  <2>. QED  BY <1>0, <1>1, <1>3, <2>1, ListsMore
<1>. QED  BY <1>7, <1>8, <1>9, <1>10 DEF IInv

----------------------------------------------------------------------------
(* Auth.                                                                   *)

LEMMA MakeAccountInv ==
  ASSUME IInv, NEW r \in signups, MakeAccount(r)
  PROVE  IInv'
<1>0. TypeOK /\ FormsInv /\ DocsInv /\ ListsInv
  BY DEF IInv
<1>1. /\ UNCHANGED <<users, friends, stood, queue, session, stack, typed, forms>>
      /\ UNCHANGED <<logins, blocks, listed, asked, stale, wiped, left>>
      /\ Grow
  BY DEF MakeAccount, friendly, Grow
<1>2. r \in SignUps /\ ~Answered(r) /\ r.uid = Nobody /\ r.form \in DOMAIN forms /\ r.form \in Nat
  BY <1>0 DEF MakeAccount, TypeOK, SignUps, DocsInv, Answered
<1>3. ListsInv'
  BY <1>0, <1>1, ListsKept
<1>4. CASE signups' = signups \ {r} /\ UNCHANGED <<accounts, maker>>
  <2>1. TypeOK'
    BY <1>0, <1>1, <1>4 DEF TypeOK
  <2>2. \A f \in DOMAIN forms : Used(f)' => Used(f)
    BY <1>4 DEF Used
  <2>3. FormsInv'
    BY <1>0, <1>1, <2>2, FormsSame
  <2>4. DocsInv'
    <3>1. \A e, v, i, u : UserAt(e, v, i, u)' =>
            UserAt(e, v, i, u) /\ queue'[e][v][i] = queue[e][v][i]
      BY <1>1 DEF UserAt, Place
    <3>. QED  BY <1>0, <1>1, <1>4, <3>1, DocsFewer
  <2>. QED  BY <1>3, <2>1, <2>3, <2>4 DEF IInv
<1>5. ASSUME NEW u \in Uids \ accounts, NEW new,
             accounts' = accounts \cup {u}, maker' = [maker EXCEPT ![u] = r.form],
             signups' = (signups \ {r}) \cup new,
             \A n \in new : n = [r EXCEPT !.uid = u, !.state = "made"]
      PROVE  IInv'
  <2>1. \A n \in new : /\ n \in SignUps /\ n.form = r.form /\ n.uid = u /\ Answered(n)
                       /\ n = [r EXCEPT !.uid = u, !.state = "made"]
    BY <1>2, <1>5 DEF SignUps, Answered
  <2>2. maker'[u] = r.form /\ \A v \in Uids \ {u} : maker'[v] = maker[v]
    BY <1>0, <1>5 DEF TypeOK
  <2>3. TypeOK'
    <3>1. maker' \in [Uids -> Nat] /\ accounts' \subseteq Uids /\ signups' \subseteq SignUps
      BY <1>0, <1>2, <1>5, <2>1 DEF TypeOK
    <3>. QED  BY <1>0, <1>1, <3>1 DEF TypeOK
  <2>4. \A f \in DOMAIN forms : Used(f)' => Used(f)
    BY <1>5, <2>1, <2>2 DEF Used
  <2>5. FormsInv'
    BY <1>0, <1>1, <2>4, FormsSame
  <2>6. \A x, f : Awaits(x, f) => Awaits(x, f)' /\ x # u
    <3>1. accounts \subseteq Uids
      BY <1>0 DEF TypeOK
    <3>. QED  BY <1>1, <1>5, <2>2, <3>1 DEF Awaits
  <2>7. Awaits(u, r.form)'
    BY <1>0, <1>1, <1>2, <1>5, <2>2 DEF Awaits, DocsInv
  <2>8. \A q \in signups : q.uid # u
    BY <1>0, <1>5, <2>6, ConstantsAssumption DEF DocsInv
  <2>9. \A q \in signups' : q \in signups \/ q \in new
    BY <1>5
  <2>10. \A e, v, i, x : UserAt(e, v, i, x)' <=> UserAt(e, v, i, x)
    BY <1>1 DEF UserAt, Place
  <2>11. DocsInv'
    <3>1. \A x \in Uids : /\ x \notin accounts' => users'[x] = NoDoc
                          /\ maker'[x] = 0 \/ maker'[x] \in DOMAIN forms'
      BY <1>0, <1>1, <1>2, <1>5, <2>2 DEF DocsInv
    <3>2. \A q \in signups' : /\ q.form \in DOMAIN forms'
                              /\ Answered(q) => q.uid \in Uids /\ Awaits(q.uid, q.form)'
                              /\ ~Answered(q) => q.uid = Nobody
      BY <1>0, <1>1, <1>2, <2>1, <2>6, <2>7, <2>9 DEF DocsInv
    <3>3. \A p, q \in signups' : p.uid = q.uid /\ p.uid # Nobody => p = q
      BY <1>0, <2>1, <2>8, <2>9 DEF DocsInv
    <3>4. ASSUME NEW e, NEW v, NEW i, NEW x, UserAt(e, v, i, x)'
          PROVE  /\ Awaits(x, queue[e][v][i].form)'
                 /\ \A q \in signups' : q.uid # x
      <4>1. /\ Awaits(x, queue[e][v][i].form) /\ \A q \in signups : q.uid # x
        BY <1>0, <2>10, <3>4 DEF DocsInv
      <4>2. x # u /\ Awaits(x, queue[e][v][i].form)'
        BY <1>1, <2>6, <4>1
      <4>. QED  BY <2>1, <2>9, <4>1, <4>2
    <3>5. \A e, v, i, h, y, j, x : UserAt(e, v, i, x)' /\ UserAt(h, y, j, x)' =>
            e = h /\ v = y /\ i = j
      BY <1>0, <2>10 DEF DocsInv
    <3>. QED  BY <3>1, <3>2, <3>3, <3>4, <3>5 DEF DocsInv
  <2>. QED  BY <1>3, <2>3, <2>5, <2>11 DEF IInv
<1>. DEFINE made(u) == IF r.state = "orphan" THEN {}
                        ELSE {[r EXCEPT !.uid = u, !.state = "made"]}
<1>6. ASSUME NEW u \in Uids \ accounts,
             accounts' = accounts \cup {u}, maker' = [maker EXCEPT ![u] = r.form],
             signups' = (signups \ {r}) \cup made(u)
      PROVE  IInv'
  <2>1. PICK new : new = made(u)
    OBVIOUS
  <2>2. \A n \in new : n = [r EXCEPT !.uid = u, !.state = "made"]
    BY <2>1
  <2>3. signups' = (signups \ {r}) \cup new
    BY <1>6, <2>1
  <2>. QED  BY <1>5, <1>6, <2>2, <2>3
<1>7. \/ signups' = signups \ {r} /\ UNCHANGED <<accounts, maker>>
      \/ \E u \in Uids \ accounts :
           /\ accounts' = accounts \cup {u} /\ maker' = [maker EXCEPT ![u] = r.form]
           /\ signups' = (signups \ {r}) \cup made(u)
  BY DEF MakeAccount
<1>. HIDE DEF made
<1>. QED  BY <1>4, <1>6, <1>7

LEMMA SignInNewInv ==
  ASSUME IInv, NEW r \in signups, SignInNew(r)
  PROVE  IInv'
<1>n. PICK n : n = [r EXCEPT !.state = "signedIn"]
  OBVIOUS
<1>0. TypeOK /\ FormsInv /\ DocsInv /\ ListsInv
  BY DEF IInv
<1>1. /\ UNCHANGED <<accounts, maker, users, friends, stood, queue, stack, typed, forms>>
      /\ UNCHANGED <<logins, blocks, listed, asked, stale, wiped, left>>
      /\ Grow
  BY DEF SignInNew, server, friendly, Grow
<1>2. /\ r \in SignUps /\ Answered(r) /\ r.uid \in Uids /\ r.uid # Nobody
      /\ r.device \in Devices
  BY <1>0, ConstantsAssumption DEF SignInNew, TypeOK, SignUps, DocsInv, Answered
<1>3. n \in SignUps /\ n.form = r.form /\ n.uid = r.uid /\ Answered(n)
  BY <1>n, <1>2 DEF SignUps, Answered
<1>4. signups' = (signups \ {r}) \cup {n} /\ session' = [session EXCEPT ![r.device] = r.uid]
  BY <1>n DEF SignInNew
<1>5. TypeOK'
  <2>1. signups' \subseteq SignUps /\ session' \in [Devices -> Uids \cup {Nobody}]
    BY <1>0, <1>2, <1>3, <1>4 DEF TypeOK
  <2>. QED  BY <1>0, <1>1, <2>1 DEF TypeOK
<1>6. FormsInv'
  <2>1. \A f \in DOMAIN forms : Used(f)' => Used(f)
    BY <1>1, <1>3, <1>4 DEF Used
  <2>. QED  BY <1>0, <1>1, <2>1, FormsSame
<1>7. DocsInv'
  <2>1. \A x, f : Awaits(x, f)' <=> Awaits(x, f)
    BY <1>1 DEF Awaits
  <2>2. \A e, v, i, x : UserAt(e, v, i, x)' <=> UserAt(e, v, i, x)
    BY <1>1 DEF UserAt, Place
  <2>3. \A x \in Uids : /\ x \notin accounts' => users'[x] = NoDoc
                        /\ maker'[x] = 0 \/ maker'[x] \in DOMAIN forms'
    BY <1>0, <1>1 DEF DocsInv
  <2>4. \A q \in signups' : /\ q.form \in DOMAIN forms'
                            /\ Answered(q) => q.uid \in Uids /\ Awaits(q.uid, q.form)'
                            /\ ~Answered(q) => q.uid = Nobody
    BY <1>0, <1>1, <1>2, <1>3, <1>4, <2>1 DEF DocsInv
  <2>5. \A p, q \in signups' : p.uid = q.uid /\ p.uid # Nobody => p = q
    BY <1>0, <1>2, <1>3, <1>4 DEF DocsInv
  <2>6. ASSUME NEW e, NEW v, NEW i, NEW x, UserAt(e, v, i, x)'
        PROVE  /\ Awaits(x, queue[e][v][i].form)'
               /\ \A q \in signups' : q.uid # x
    <3>1. /\ Awaits(x, queue[e][v][i].form) /\ \A q \in signups : q.uid # x
      BY <1>0, <2>2, <2>6 DEF DocsInv
    <3>. QED  BY <1>1, <1>3, <1>4, <2>1, <3>1
  <2>7. \A e, v, i, h, y, j, x : UserAt(e, v, i, x)' /\ UserAt(h, y, j, x)' =>
          e = h /\ v = y /\ i = j
    BY <1>0, <2>2 DEF DocsInv
  <2>. QED  BY <2>3, <2>4, <2>5, <2>6, <2>7 DEF DocsInv
<1>8. ListsInv'
  BY <1>0, <1>1, ListsKept
<1>. QED  BY <1>5, <1>6, <1>7, <1>8 DEF IInv

LEMMA UserCreatedInv ==
  ASSUME IInv, NEW r \in signups, UserCreated(r)
  PROVE  IInv'
<1>w. PICK w : w = Write("user", r.uid, r.form, Nobody)
  OBVIOUS
<1>0. TypeOK /\ FormsInv /\ DocsInv /\ ListsInv
  BY DEF IInv
<1>1. /\ UNCHANGED <<accounts, maker, users, friends, stood, session, stack, typed, forms>>
      /\ UNCHANGED <<logins, blocks, listed, asked, stale, wiped, left>>
      /\ Grow
  BY DEF UserCreated, server, friendly, Grow
<1>2. /\ r \in SignUps /\ Answered(r) /\ r.uid \in Uids /\ r.uid # Nobody
      /\ r.device \in Devices /\ r.form \in Nat /\ Awaits(r.uid, r.form)
  BY <1>0, ConstantsAssumption DEF UserCreated, TypeOK, SignUps, DocsInv, Answered
<1>3. signups' = signups \ {r} /\ Issue(r.device, w)
  BY <1>w DEF UserCreated, ResultUser
<1>4. /\ w \in Writes /\ w.op = "user" /\ w.uid = r.uid /\ w.form = r.form
  BY <1>w, <1>2 DEF Write, Writes
<1>5. /\ queue' \in [Devices -> [Owners -> Seq(Writes)]]
      /\ \A e, v, i : Place(e, v, i)' =>
           \/ Place(e, v, i) /\ queue'[e][v][i] = queue[e][v][i]
           \/ /\ e = r.device /\ v = session[r.device]
              /\ i = Len(queue[r.device][v]) + 1 /\ queue'[e][v][i] = w
  BY <1>0, <1>2, <1>3, <1>4, IssueFacts
<1>6. TypeOK'
  <2>1. signups' \subseteq SignUps
    BY <1>0, <1>3 DEF TypeOK
  <2>. QED  BY <1>0, <1>1, <1>5, <2>1 DEF TypeOK, Owners
<1>7. FormsInv'
  <2>1. \A f \in DOMAIN forms : Used(f)' => Used(f)
    BY <1>1, <1>3 DEF Used
  <2>. QED  BY <1>0, <1>1, <2>1, FormsSame
<1>8. DocsInv'
  <2>1. \A x, f : Awaits(x, f)' <=> Awaits(x, f)
    BY <1>1 DEF Awaits
  <2>2. \A e, v, i, x : UserAt(e, v, i, x)' =>
          \/ UserAt(e, v, i, x) /\ queue'[e][v][i] = queue[e][v][i]
          \/ /\ x = r.uid /\ queue'[e][v][i] = w
             /\ e = r.device /\ v = session[r.device]
             /\ i = Len(queue[r.device][v]) + 1
    BY <1>4, <1>5 DEF UserAt
  <2>3. \A x \in Uids : /\ x \notin accounts' => users'[x] = NoDoc
                        /\ maker'[x] = 0 \/ maker'[x] \in DOMAIN forms'
    BY <1>0, <1>1 DEF DocsInv
  <2>4. \A q \in signups' : /\ q.form \in DOMAIN forms'
                            /\ Answered(q) => q.uid \in Uids /\ Awaits(q.uid, q.form)'
                            /\ ~Answered(q) => q.uid = Nobody
    BY <1>0, <1>1, <1>3, <2>1 DEF DocsInv
  <2>5. \A p, q \in signups' : p.uid = q.uid /\ p.uid # Nobody => p = q
    BY <1>0, <1>3 DEF DocsInv
  <2>6. ASSUME NEW e, NEW v, NEW i, NEW x, UserAt(e, v, i, x)'
        PROVE  /\ Awaits(x, queue[e][v][i].form)'
               /\ \A q \in signups' : q.uid # x
    <3>1. CASE UserAt(e, v, i, x) /\ queue'[e][v][i] = queue[e][v][i]
      <4>1. /\ Awaits(x, queue[e][v][i].form) /\ \A q \in signups : q.uid # x
        BY <1>0, <3>1 DEF DocsInv
      <4>. QED  BY <1>1, <1>3, <3>1, <4>1 DEF Awaits
    <3>2. CASE x = r.uid /\ queue'[e][v][i] = w
      <4>1. Awaits(x, queue[e][v][i].form)'
        BY <1>1, <1>2, <1>4, <3>2 DEF Awaits
      <4>2. \A q \in signups' : q.uid # x
        BY <1>0, <1>2, <1>3, <3>2 DEF DocsInv
      <4>. QED  BY <4>1, <4>2
    <3>. QED  BY <2>2, <2>6, <3>1, <3>2
  <2>7. \A e, v, i : ~UserAt(e, v, i, r.uid)
    BY <1>0 DEF DocsInv
  <2>8. \A e, v, i, h, y, j, x : UserAt(e, v, i, x)' /\ UserAt(h, y, j, x)' =>
          e = h /\ v = y /\ i = j
    BY <1>0, <2>2, <2>7 DEF DocsInv
  <2>. QED  BY <2>3, <2>4, <2>5, <2>6, <2>8 DEF DocsInv
<1>9. ListsInv'
  <2>1. \A e, v, i : Place(e, v, i)' =>
          \/ Place(e, v, i) /\ queue'[e][v][i] = queue[e][v][i]
          \/ ListWrite(queue[e][v][i])'
    BY <1>4, <1>5 DEF ListWrite
  <2>. QED  BY <1>0, <1>1, <2>1, ListsMore
<1>. QED  BY <1>6, <1>7, <1>8, <1>9 DEF IInv

LEMMA SessionInv ==
  ASSUME IInv, NEW d \in Devices,
         SignOut(d) \/ \E u \in Uids : AskLogin(d, u) \/ SignIn(d, u)
  PROVE  IInv'
<1>0. TypeOK /\ FormsInv /\ DocsInv /\ ListsInv
  BY DEF IInv
<1>1. CASE \E u \in Uids : AskLogin(d, u)
  <2>1. /\ UNCHANGED <<accounts, maker, users, friends, stood, queue, session, stack>>
        /\ UNCHANGED <<typed, forms, signups, blocks, listed, asked, stale, wiped>>
        /\ Grow
    BY <1>1 DEF AskLogin, server, friendly, Grow
  <2>2. left' \in Budget /\ logins' \subseteq Devices \X Uids
    <3>1. PICK u \in Uids : AskLogin(d, u)
      BY <1>1
    <3>2. left' \in Budget
      BY <1>0, <3>1, BudgetLess DEF AskLogin
    <3>3. logins' \subseteq Devices \X Uids
      BY <1>0, <3>1 DEF AskLogin, TypeOK
    <3>. QED  BY <3>2, <3>3
  <2>3. TypeOK'
    BY <1>0, <2>1, <2>2 DEF TypeOK, Budget
  <2>4. \A f \in DOMAIN forms : Used(f)' => Used(f)
    BY <2>1, UsedSame
  <2>. QED  BY <1>0, <2>1, <2>3, <2>4, FormsSame, DocsKept, ListsKept DEF IInv
<1>2. ASSUME NEW s \in Seq(Screens), Shaped(s), HandsOn(s) => HandsOn(stack[d]), Show(d, s),
             session' \in [Devices -> Uids \cup {Nobody}], logins' \subseteq logins,
             UNCHANGED <<server, queue, typed, signups, blocks, friendly, wiped, left>>
      PROVE  IInv'
  <2>1. /\ UNCHANGED <<accounts, maker, users, friends, stood, queue, typed, left>>
        /\ UNCHANGED <<signups, blocks, listed, asked, stale, wiped>>
        /\ Grow
    BY <1>2 DEF server, friendly, Grow
  <2>2. \A f \in DOMAIN forms : Used(f)' => Used(f)
    BY <2>1, UsedSame
  <2>3. /\ FormsInv' /\ stack' \in [Devices -> Seq(Screens)]
        /\ forms' \in Seq(Forms) /\ DOMAIN forms' = DOMAIN forms
    BY <1>0, <1>2, <2>1, <2>2, ShowKept
  <2>4. TypeOK'
    BY <1>0, <1>2, <2>1, <2>3 DEF TypeOK
  <2>. QED  BY <1>0, <2>1, <2>3, <2>4, DocsKept, ListsKept DEF IInv
<1>3. CASE SignOut(d)
  <2>1. session' \in [Devices -> Uids \cup {Nobody}]
    BY <1>0, <1>3 DEF SignOut, TypeOK
  <2>. QED  BY <1>2, <1>3, <2>1, LoginAlone DEF SignOut, requests
<1>4. CASE \E u \in Uids : SignIn(d, u)
  <2>1. session' \in [Devices -> Uids \cup {Nobody}] /\ logins' \subseteq logins
    BY <1>0, <1>4 DEF SignIn, TypeOK
  <2>. DEFINE p == Popped(stack[d])
  <2>2. stack[d] \in Seq(Screens) /\ Shaped(stack[d])
    BY <1>0, Typed DEF FormsInv, StackSound
  <2>3. /\ p \in Seq(Screens) /\ Shaped(p) /\ Len(p) < 5
        /\ \A i \in 1 .. Len(p) : p[i] = Path[i]
        /\ HandsOn(p) => HandsOn(stack[d])
    BY <2>2, PoppedAt
  <2>. HIDE DEF p
  <2>4. /\ Append(p, "feed") \in Seq(Screens) /\ Len(Append(p, "feed")) = Len(p) + 1
        /\ Append(p, "feed")[Len(p) + 1] = "feed"
        /\ \A i \in 1 .. Len(p) : Append(p, "feed")[i] = p[i]
    <3>1. "feed" \in Screens
      BY DEF Screens
    <3>. QED  BY <2>3, <3>1, AppendAt
  <2>5. Shaped(Append(p, "feed"))
    <3>1. Len(p) \in 1 .. 5 /\ Len(p) < 5
      BY <2>3 DEF Shaped
    <3>2. Len(p) + 1 \in 1 .. 5 /\ Len(p) + 1 > 1
      BY <3>1
    <3>3. \A i \in 1 .. Len(p) + 1 : i = Len(p) + 1 \/ i \in 1 .. Len(p)
      BY <3>1
    <3>. QED  BY <2>3, <2>4, <3>2, <3>3 DEF Shaped
  <2>6. HandsOn(Append(p, "feed")) => HandsOn(stack[d])
    <3>1. ASSUME HandsOn(Append(p, "feed"))  PROVE HandsOn(p)
      <4>1. Len(p) + 1 >= 3 /\ Append(p, "feed")[3] = "email" /\ Len(p) \in Nat
        BY <2>3, <2>4, <3>1 DEF HandsOn
      <4>2. Len(p) + 1 # 3
        BY <2>4, <4>1
      <4>3. 3 \in 1 .. Len(p)
        BY <4>1, <4>2
      <4>. QED  BY <2>4, <4>1, <4>3 DEF HandsOn
    <3>. QED  BY <2>3, <3>1
  <2>7. /\ Show(d, Append(p, "feed"))
        /\ UNCHANGED <<server, queue, typed, signups, blocks, friendly, wiped, left>>
    BY <1>4 DEF SignIn, p
  <2>. QED  BY <1>2, <2>1, <2>4, <2>5, <2>6, <2>7
<1>. QED  BY <1>1, <1>3, <1>4

----------------------------------------------------------------------------
(* FriendsListModelController.                                             *)

\* The owner is the one who is signed in, or is known to be written for another.
LEMMA UseListsFacts ==
  ASSUME TypeOK, NEW d \in Devices, UseLists(d)
  PROVE  /\ session[d] \in Uids /\ ListOwner(d) \in Uids /\ left' \in Budget
         /\ listed' \in [Devices -> Uids \cup {Nobody}]
         /\ stale \subseteq stale' /\ stale' \subseteq Uids
         /\ ListOwner(d) = session[d] \/ ListOwner(d) \in stale'
<1>1. session[d] \in Uids /\ listed[d] \in Uids \cup {Nobody}
  BY Typed DEF UseLists, Owners
<1>2. ListOwner(d) \in Uids
  BY <1>1 DEF ListOwner
<1>3. left' \in Budget
  BY BudgetLess DEF UseLists
<1>4. listed' \in [Devices -> Uids \cup {Nobody}]
  BY <1>2 DEF UseLists, TypeOK
<1>5. /\ stale \subseteq stale' /\ stale' \subseteq Uids
      /\ ListOwner(d) = session[d] \/ ListOwner(d) \in stale'
  BY <1>2 DEF UseLists, TypeOK
<1>. QED  BY <1>1, <1>2, <1>3, <1>4, <1>5

\* Steps that touch nothing but the requests for lists, and the queue.
LEMMA ListStep ==
  ASSUME IInv, queue' \in [Devices -> [Owners -> Seq(Writes)]], left' \in Budget,
         listed' \in [Devices -> Uids \cup {Nobody}],
         stale \subseteq stale', stale' \subseteq Uids,
         asked \subseteq asked', asked' \subseteq Uids \X Uids,
         blocks' \subseteq Blocks,
         UNCHANGED <<server, session, stack, typed, forms, signups, logins, wiped>>,
         \A e, v, i : Place(e, v, i)' =>
           \/ Place(e, v, i) /\ queue'[e][v][i] = queue[e][v][i]
           \/ queue'[e][v][i].op # "user" /\ ListWrite(queue[e][v][i])',
         \A r \in blocks' :
           r \in blocks \/ (r.target # Nobody => Asked(r.uid, r.target)')
  PROVE  IInv'
<1>0. TypeOK /\ FormsInv /\ DocsInv /\ ListsInv
  BY DEF IInv
<1>1. /\ UNCHANGED <<accounts, maker, users, friends, stood, session, stack, typed>>
      /\ UNCHANGED <<forms, signups, logins, wiped>>
      /\ Grow
  BY DEF server, Grow
<1>2. TypeOK'
  BY <1>0, <1>1 DEF TypeOK, Budget, Owners
<1>3. FormsInv'
  <2>1. \A f \in DOMAIN forms : Used(f)' => Used(f)
    BY <1>1, UsedSame
  <2>. QED  BY <1>0, <1>1, <2>1, FormsSame
<1>4. DocsInv'
  <2>1. \A e, v, i, u : UserAt(e, v, i, u)' =>
          UserAt(e, v, i, u) /\ queue'[e][v][i] = queue[e][v][i]
    BY DEF UserAt
  <2>. QED  BY <1>0, <1>1, <2>1, DocsFewer
<1>5. ListsInv'
  BY <1>0, <1>1, ListsMore
<1>. QED  BY <1>2, <1>3, <1>4, <1>5 DEF IInv

LEMMA AddFriendInv ==
  ASSUME IInv, NEW d \in Devices, AddFriend(d)
  PROVE  IInv'
<1>u. PICK u : u = ListOwner(d)
  OBVIOUS
<1>w. PICK w : w = Write("add", u, 0, Nobody)
  OBVIOUS
<1>0. TypeOK /\ UseLists(d)
  BY DEF IInv, AddFriend
<1>1. /\ u \in Uids /\ left' \in Budget /\ listed' \in [Devices -> Uids \cup {Nobody}]
      /\ stale \subseteq stale' /\ stale' \subseteq Uids
  BY <1>0, <1>u, UseListsFacts
<1>2. w \in Writes /\ w.op = "add"
  BY <1>w, <1>1 DEF Write, Writes
<1>3. Issue(d, w)
  BY <1>u, <1>w DEF AddFriend
<1>4. /\ queue' \in [Devices -> [Owners -> Seq(Writes)]]
      /\ \A e, v, i : Place(e, v, i)' =>
           \/ Place(e, v, i) /\ queue'[e][v][i] = queue[e][v][i]
           \/ queue'[e][v][i] = w
  BY <1>0, <1>2, <1>3, IssueFacts
<1>5. \A e, v, i : Place(e, v, i)' =>
        \/ Place(e, v, i) /\ queue'[e][v][i] = queue[e][v][i]
        \/ queue'[e][v][i].op # "user" /\ ListWrite(queue[e][v][i])'
  BY <1>2, <1>4 DEF ListWrite
<1>6. /\ blocks' \subseteq Blocks
      /\ \A r \in blocks' : r \in blocks \/ (r.target # Nobody => Asked(r.uid, r.target)')
  BY <1>0, <1>1, <1>u DEF AddFriend, TypeOK, Blocks
<1>7. /\ UNCHANGED <<server, session, stack, typed, forms, signups, logins, wiped>>
      /\ asked \subseteq asked' /\ asked' \subseteq Uids \X Uids
  BY <1>0 DEF AddFriend, TypeOK
<1>. QED  BY <1>1, <1>4, <1>5, <1>6, <1>7, ListStep

LEMMA BlockInv ==
  ASSUME IInv, NEW d \in Devices, NEW t \in Uids, Block(d, t)
  PROVE  IInv'
<1>u. PICK u : u = ListOwner(d)
  OBVIOUS
<1>0. TypeOK /\ UseLists(d)
  BY DEF IInv, Block
<1>1. /\ u \in Uids /\ session[d] \in Uids
      /\ left' \in Budget /\ listed' \in [Devices -> Uids \cup {Nobody}]
      /\ stale \subseteq stale' /\ stale' \subseteq Uids
      /\ u = session[d] \/ u \in stale'
  BY <1>0, <1>u, UseListsFacts
<1>2. asked' = asked \cup {<<session[d], t>>} /\ asked' \subseteq Uids \X Uids
  BY <1>0, <1>1 DEF Block, TypeOK
<1>3. blocks' = blocks \cup {[device |-> d, uid |-> u, target |-> t]}
  BY <1>u DEF Block
<1>4. blocks' \subseteq Blocks
  BY <1>0, <1>1, <1>3 DEF TypeOK, Blocks
<1>5. \A r \in blocks' : r \in blocks \/ (r.target # Nobody => Asked(r.uid, r.target)')
  BY <1>1, <1>2, <1>3 DEF Asked
<1>6. /\ UNCHANGED <<server, session, stack, typed, forms, signups, logins, wiped>>
      /\ queue' = queue
  BY DEF Block
<1>7. /\ queue' \in [Devices -> [Owners -> Seq(Writes)]]
      /\ \A e, v, i : Place(e, v, i)' =>
           Place(e, v, i) /\ queue'[e][v][i] = queue[e][v][i]
  BY <1>0, <1>6 DEF TypeOK, Owners, Place
<1>. QED  BY <1>1, <1>2, <1>4, <1>5, <1>6, <1>7, ListStep

LEMMA FetchedInv ==
  ASSUME IInv, NEW r \in blocks, BlockFetched(r) \/ CheckFetched(r)
  PROVE  IInv'
<1>0. TypeOK /\ ListsInv
  BY DEF IInv
<1>1. /\ r \in Blocks /\ r.device \in Devices /\ r.uid \in Uids /\ r.target \in Uids \cup {Nobody}
      /\ r.target # Nobody => Asked(r.uid, r.target)
  BY <1>0 DEF TypeOK, Blocks, ListsInv
<1>2. /\ UNCHANGED <<server, session, stack, typed, forms, signups, logins, wiped>>
      /\ UNCHANGED <<left, listed, asked, stale>>
      /\ blocks' = blocks \ {r}
  BY DEF BlockFetched, CheckFetched, friendly
<1>3. /\ left' \in Budget /\ listed' \in [Devices -> Uids \cup {Nobody}]
      /\ stale' \subseteq Uids /\ asked' \subseteq Uids \X Uids /\ blocks' \subseteq Blocks
  BY <1>0, <1>2 DEF TypeOK, Budget
<1>4. CASE queue' = queue
  <2>1. /\ queue' \in [Devices -> [Owners -> Seq(Writes)]]
        /\ \A e, v, i : Place(e, v, i)' =>
             Place(e, v, i) /\ queue'[e][v][i] = queue[e][v][i]
    BY <1>0, <1>4 DEF TypeOK, Owners, Place
  <2>. QED  BY <1>2, <1>3, <2>1, ListStep
<1>5. CASE r.target # Nobody /\ Issue(r.device, Write("block", r.uid, 0, r.target))
  <2>w. PICK w : w = Write("block", r.uid, 0, r.target)
    OBVIOUS
  <2>1. w \in Writes /\ w.op = "block" /\ w.uid = r.uid /\ w.target = r.target
    BY <1>1, <2>w DEF Write, Writes
  <2>2. /\ queue' \in [Devices -> [Owners -> Seq(Writes)]]
        /\ \A e, v, i : Place(e, v, i)' =>
             \/ Place(e, v, i) /\ queue'[e][v][i] = queue[e][v][i]
             \/ queue'[e][v][i] = w
    BY <1>0, <1>1, <1>5, <2>w, <2>1, IssueFacts
  <2>3. w.target \in Uids /\ Asked(w.uid, w.target)'
    BY <1>1, <1>2, <1>5, <2>1 DEF Asked
  <2>4. \A e, v, i : Place(e, v, i)' =>
          \/ Place(e, v, i) /\ queue'[e][v][i] = queue[e][v][i]
          \/ queue'[e][v][i].op # "user" /\ ListWrite(queue[e][v][i])'
    BY <2>1, <2>2, <2>3 DEF ListWrite
  <2>. QED  BY <1>2, <1>3, <2>2, <2>4, ListStep
<1>. QED  BY <1>4, <1>5 DEF BlockFetched, CheckFetched, ListOf

----------------------------------------------------------------------------
(* The server.                                                             *)

\* What a write at the front of a queue does to the user documents.
LEMMA ServedDocs ==
  ASSUME IInv, NEW d \in Devices, NEW op, CanServe(d, op), Served(d),
         UNCHANGED <<accounts, maker>>,
         NEW w, w = NextWrite(d),
         \A u \in Uids : users'[u] = users[u]
                         \/ (op = "user" /\ u = w.uid /\ users'[u] # NoDoc)
  PROVE  /\ DocsInv' /\ Grow /\ w \in Writes
         /\ op = "user" => Awaits(w.uid, w.form)
<1>0. TypeOK /\ DocsInv
  BY DEF IInv
<1>1. /\ queue' \in [Devices -> [Owners -> Seq(Writes)]]
      /\ Place(d, session[d], 1) /\ queue[d][session[d]][1] = w /\ w \in Writes
      /\ \A e, v, i : Place(e, v, i)' =>
           IF e = d /\ v = session[d]
             THEN /\ Place(e, v, i + 1) /\ queue'[e][v][i] = queue[e][v][i + 1]
                  /\ i \in Nat /\ i + 1 # 1
             ELSE Place(e, v, i) /\ queue'[e][v][i] = queue[e][v][i]
  BY <1>0, ServedFacts DEF CanServe
<1>2. /\ accounts' = accounts /\ maker' = maker /\ signups' = signups /\ forms' = forms
  BY DEF Served, requests
<1>3. op = w.op /\ w.uid \in Uids
  BY <1>1 DEF CanServe, Writes
<1>4. op = "user" => UserAt(d, session[d], 1, w.uid)
  BY <1>1, <1>3 DEF UserAt
<1>5. op = "user" => Awaits(w.uid, w.form) /\ \A r \in signups : r.uid # w.uid
  BY <1>0, <1>1, <1>4 DEF DocsInv
<1>6. Grow
  BY <1>5 DEF Grow, Awaits
<1>7. ASSUME NEW u \in Uids, NEW f, Awaits(u, f), ~(op = "user" /\ u = w.uid)
      PROVE  Awaits(u, f)'
  BY <1>2, <1>7 DEF Awaits
<1>8. accounts \subseteq Uids
  BY <1>0 DEF TypeOK
<1>9. DocsInv'
  <2>1. ASSUME NEW u \in Uids
        PROVE  /\ u \notin accounts' => users'[u] = NoDoc
               /\ maker'[u] = 0 \/ maker'[u] \in DOMAIN forms'
    BY <1>0, <1>2, <1>5 DEF DocsInv, Awaits
  <2>2. ASSUME NEW r \in signups'
        PROVE  /\ r.form \in DOMAIN forms'
               /\ Answered(r) => r.uid \in Uids /\ Awaits(r.uid, r.form)'
               /\ ~Answered(r) => r.uid = Nobody
    BY <1>0, <1>2, <1>5, <1>7, <2>2 DEF DocsInv
  <2>3. \A p, q \in signups' : p.uid = q.uid /\ p.uid # Nobody => p = q
    BY <1>0, <1>2 DEF DocsInv
  <2>4. ASSUME NEW e, NEW v, NEW i, NEW u, UserAt(e, v, i, u)'
        PROVE  \E j : /\ UserAt(e, v, j, u) /\ queue'[e][v][i] = queue[e][v][j]
                      /\ j = IF e = d /\ v = session[d] THEN i + 1 ELSE i
                      /\ e = d /\ v = session[d] => i \in Nat
                      /\ op = "user" => u # w.uid
    <3>1. Place(e, v, i)' /\ queue'[e][v][i].op = "user" /\ queue'[e][v][i].uid = u
      BY <2>4 DEF UserAt
    <3>j. PICK j : j = IF e = d /\ v = session[d] THEN i + 1 ELSE i
      OBVIOUS
    <3>2. /\ Place(e, v, j) /\ queue'[e][v][i] = queue[e][v][j]
          /\ e = d /\ v = session[d] => i \in Nat /\ j # 1
      BY <1>1, <3>1, <3>j
    <3>3. UserAt(e, v, j, u)
      BY <3>1, <3>2 DEF UserAt
    <3>4. op = "user" => u # w.uid
      <4>1. ASSUME op = "user", u = w.uid  PROVE FALSE
        <5>1. e = d /\ v = session[d] /\ j = 1
          BY <1>0, <1>4, <3>3, <4>1 DEF DocsInv
        <5>. QED  BY <3>2, <5>1
      <4>. QED  BY <4>1
    <3>. QED  BY <3>j, <3>2, <3>3, <3>4
  <2>5. ASSUME NEW e, NEW v, NEW i, NEW u, UserAt(e, v, i, u)'
        PROVE  /\ Awaits(u, queue[e][v][i].form)'
               /\ \A r \in signups' : r.uid # u
    <3>1. PICK j : /\ UserAt(e, v, j, u) /\ queue'[e][v][i] = queue[e][v][j]
                   /\ op = "user" => u # w.uid
      BY <2>4, <2>5
    <3>2. Awaits(u, queue[e][v][j].form) /\ \A r \in signups : r.uid # u
      BY <1>0, <3>1 DEF DocsInv
    <3>3. u \in Uids
      BY <1>8, <3>2 DEF Awaits
    <3>4. Awaits(u, queue[e][v][i].form)'
      BY <1>2, <3>1, <3>2, <3>3 DEF Awaits
    <3>. QED  BY <1>2, <3>2, <3>4
  <2>6. ASSUME NEW e, NEW v, NEW i, NEW h, NEW x, NEW j, NEW u,
               UserAt(e, v, i, u)', UserAt(h, x, j, u)'
        PROVE  e = h /\ v = x /\ i = j
    <3>1. PICK k : /\ UserAt(e, v, k, u)
                   /\ k = IF e = d /\ v = session[d] THEN i + 1 ELSE i
                   /\ e = d /\ v = session[d] => i \in Nat
      BY <2>4, <2>6
    <3>2. PICK l : /\ UserAt(h, x, l, u)
                   /\ l = IF h = d /\ x = session[d] THEN j + 1 ELSE j
                   /\ h = d /\ x = session[d] => j \in Nat
      BY <2>4, <2>6
    <3>3. e = h /\ v = x /\ k = l
      BY <1>0, <3>1, <3>2 DEF DocsInv
    <3>. QED  BY <3>1, <3>2, <3>3
  <2>. QED  BY <2>1, <2>2, <2>3, <2>5, <2>6 DEF DocsInv
<1>. QED  BY <1>1, <1>5, <1>6, <1>9

LEMMA ServeStep ==
  ASSUME IInv, NEW d \in Devices, NEW op, CanServe(d, op), Served(d),
         UNCHANGED <<accounts, maker>>, NEW w, w = NextWrite(d),
         \A u \in Uids : users'[u] = users[u]
                         \/ (op = "user" /\ u = w.uid /\ users'[u] # NoDoc),
         users' \in [Uids -> Names \cup {NoDoc}],
         friends' \in [Uids -> [blocked : SUBSET Uids, added : BOOLEAN] \cup {NoDoc}],
         stood' \subseteq Uids \X Uids, OwnLists', BlockedStay'
  PROVE  IInv'
<1>0. TypeOK /\ FormsInv /\ DocsInv /\ ListsInv
  BY DEF IInv
<1>1. /\ UNCHANGED <<session, stack, typed, forms, signups, logins, blocks, listed>>
      /\ UNCHANGED <<asked, stale, wiped, left>>
  BY DEF Served, requests, friendly
<1>2. /\ queue' \in [Devices -> [Owners -> Seq(Writes)]]
      /\ \A e, v, i : Place(e, v, i)' =>
           IF e = d /\ v = session[d]
             THEN Place(e, v, i + 1) /\ queue'[e][v][i] = queue[e][v][i + 1]
             ELSE Place(e, v, i) /\ queue'[e][v][i] = queue[e][v][i]
  BY <1>0, ServedFacts DEF CanServe
<1>3. DocsInv' /\ Grow
  BY ServedDocs
<1>4. TypeOK'
  BY <1>0, <1>1, <1>2 DEF TypeOK, Owners
<1>5. FormsInv'
  <2>1. \A f \in DOMAIN forms : Used(f)' => Used(f)
    BY <1>1, UsedSame
  <2>. QED  BY <1>0, <1>1, <1>3, <2>1, FormsSame
<1>6. ListsInv'
  <2>1. \A z : ListWrite(z) => ListWrite(z)'
    BY <1>1 DEF ListWrite, Asked
  <2>2. ASSUME NEW e, NEW v, NEW i, Place(e, v, i)'
        PROVE  ListWrite(queue[e][v][i])'
    <3>1. PICK j : Place(e, v, j) /\ queue'[e][v][i] = queue[e][v][j]
      BY <1>2, <2>2
    <3>2. ListWrite(queue[e][v][j])
      BY <1>0, <3>1 DEF ListsInv
    <3>3. PICK z : z = queue[e][v][j]
      OBVIOUS
    <3>4. ListWrite(z)'
      BY <2>1, <3>2, <3>3
    <3>. QED  BY <3>1, <3>3, <3>4 DEF ListWrite
  <2>3. \A r \in blocks' : r.target # Nobody => Asked(r.uid, r.target)'
    BY <1>0, <1>1 DEF ListsInv, Asked
  <2>. QED  BY <2>2, <2>3 DEF ListsInv
<1>. QED  BY <1>3, <1>4, <1>5, <1>6 DEF IInv

LEMMA ServeInv ==
  ASSUME IInv, NEW d \in Devices, Serve(d)
  PROVE  IInv'
<1>w. PICK w : w = NextWrite(d)
  OBVIOUS
<1>0. TypeOK /\ ListsInv /\ OwnLists /\ BlockedStay
  BY DEF IInv, ListsInv
<1>1. Served(d) /\ UNCHANGED <<accounts, maker, asked, stale, wiped>>
  BY DEF Serve, ServeUser, ServeBase, ServeAdd, ServeBlock, Served, friendly
<1>2. queue[d][session[d]] # <<>>
  BY DEF Serve, ServeUser, ServeBase, ServeAdd, ServeBlock, CanServe
<1>3. w \in Writes /\ w.uid \in Uids /\ ListWrite(w)
  <2>1. w \in Writes /\ Place(d, session[d], 1) /\ queue[d][session[d]][1] = w
    BY <1>0, <1>1, <1>2, <1>w, ServedFacts
  <2>. QED  BY <1>0, <2>1 DEF ListsInv, Writes
<1>4. /\ users \in [Uids -> Names \cup {NoDoc}]
      /\ friends \in [Uids -> [blocked : SUBSET Uids, added : BOOLEAN] \cup {NoDoc}]
      /\ stood \subseteq Uids \X Uids /\ forms \in Seq(Forms)
      /\ NoDoc \notin Names /\ NoDoc \notin [blocked : SUBSET Uids, added : BOOLEAN]
  BY <1>0, ConstantsAssumption DEF TypeOK, Names
<1>5. CASE ServeUser(d)
  <2>1. CanServe(d, "user") /\ UNCHANGED <<friends, stood>>
    BY <1>5 DEF ServeUser
  <2>2. users' = [users EXCEPT ![w.uid] = forms[w.form].name]
    BY <1>5, <1>w DEF ServeUser
  <2>3. w.form \in DOMAIN forms
    <3>1. w.op = "user" /\ Place(d, session[d], 1) /\ queue[d][session[d]][1] = w
      BY <1>0, <1>1, <1>2, <1>w, <2>1, ServedFacts DEF CanServe
    <3>2. UserAt(d, session[d], 1, w.uid)
      BY <3>1 DEF UserAt
    <3>. QED  BY <3>1, <3>2 DEF IInv, DocsInv, Awaits
  <2>4. forms[w.form].name \in Names
    BY <1>0, <2>3, FormsTyped
  <2>5. /\ users' \in [Uids -> Names \cup {NoDoc}]
        /\ \A u \in Uids : users'[u] = users[u] \/ (u = w.uid /\ users'[u] # NoDoc)
    BY <1>3, <1>4, <2>2, <2>4
  <2>6. OwnLists' /\ BlockedStay'
    BY <1>0, <1>1, <2>1 DEF OwnLists, BlockedStay
  <2>. QED  BY <1>1, <1>4, <1>w, <2>1, <2>5, <2>6, ServeStep
<1>6. CASE ServeBase(d)
  <2>1. CanServe(d, "base") /\ UNCHANGED <<users, stood>>
    BY <1>6 DEF ServeBase
  <2>2. friends' = [friends EXCEPT ![w.uid] = [blocked |-> {}, added |-> FALSE]]
    BY <1>6, <1>w DEF ServeBase
  <2>3. w.uid \in wiped
    BY <1>3, <1>w, <2>1 DEF CanServe, ListWrite
  <2>4. friends' \in [Uids -> [blocked : SUBSET Uids, added : BOOLEAN] \cup {NoDoc}]
    BY <1>3, <1>4, <2>2
  <2>5. /\ friends'[w.uid] = [blocked |-> {}, added |-> FALSE]
        /\ \A u \in Uids \ {w.uid} : friends'[u] = friends[u]
    BY <1>3, <1>4, <2>2
  <2>6. OwnLists'
    BY <1>0, <1>1, <2>5 DEF OwnLists
  <2>7. BlockedStay'
    BY <1>0, <1>1, <1>4, <2>1, <2>3, <2>5 DEF BlockedStay
  <2>. QED  BY <1>1, <1>4, <1>w, <2>1, <2>4, <2>6, <2>7, ServeStep
<1>7. CASE ServeAdd(d)
  <2>1. CanServe(d, "add") /\ UNCHANGED <<users, stood>>
    BY <1>7 DEF ServeAdd
  <2>2. friends' = IF friends[w.uid] = NoDoc THEN friends
                     ELSE [friends EXCEPT ![w.uid] = [friends[w.uid] EXCEPT !.added = TRUE]]
    BY <1>7, <1>w DEF ServeAdd
  <2>3. /\ friends' \in [Uids -> [blocked : SUBSET Uids, added : BOOLEAN] \cup {NoDoc}]
        /\ \A u \in Uids : friends[u] = NoDoc => friends'[u] = NoDoc
        /\ \A u \in Uids : friends[u] # NoDoc =>
             friends'[u] # NoDoc /\ friends'[u].blocked = friends[u].blocked
    <3>1. CASE friends[w.uid] = NoDoc
      BY <1>4, <2>2, <3>1
    <3>2. CASE friends[w.uid] # NoDoc
      <4>1. friends[w.uid] \in [blocked : SUBSET Uids, added : BOOLEAN]
        BY <1>3, <1>4, <3>2
      <4>2. PICK n : n = [friends[w.uid] EXCEPT !.added = TRUE]
        OBVIOUS
      <4>3. /\ n \in [blocked : SUBSET Uids, added : BOOLEAN]
            /\ n.blocked = friends[w.uid].blocked
        BY <4>1, <4>2
      <4>4. friends' = [friends EXCEPT ![w.uid] = n]
        BY <2>2, <3>2, <4>2
      <4>5. friends' \in [Uids -> [blocked : SUBSET Uids, added : BOOLEAN] \cup {NoDoc}]
        BY <1>4, <4>3, <4>4
      <4>6. friends'[w.uid] = n /\ \A u \in Uids \ {w.uid} : friends'[u] = friends[u]
        BY <1>3, <1>4, <4>4
      <4>7. n # NoDoc
        BY <1>4, <4>3
      <4>. QED  BY <3>2, <4>3, <4>5, <4>6, <4>7
    <3>. QED  BY <3>1, <3>2
  <2>4. OwnLists'
    BY <1>0, <1>1, <2>3 DEF OwnLists
  <2>5. BlockedStay'
    BY <1>0, <1>1, <1>4, <2>1, <2>3 DEF BlockedStay
  <2>. QED  BY <1>1, <1>4, <1>w, <2>1, <2>3, <2>4, <2>5, ServeStep
<1>8. CASE ServeBlock(d)
  <2>1. CanServe(d, "block") /\ users' = users
    BY <1>8 DEF ServeBlock
  <2>2. w.target \in Uids /\ Asked(w.uid, w.target)
    BY <1>3, <1>w, <2>1 DEF CanServe, ListWrite
  <2>3. CASE friends[w.uid] = NoDoc
    <3>1. friends' = friends /\ stood' = stood
      BY <1>8, <1>w, <2>3 DEF ServeBlock
    <3>2. OwnLists' /\ BlockedStay'
      BY <1>0, <1>1, <3>1 DEF OwnLists, BlockedStay
    <3>. QED  BY <1>1, <1>4, <1>w, <2>1, <3>1, <3>2, ServeStep
  <2>4. CASE friends[w.uid] # NoDoc
    <3>1. friends[w.uid] \in [blocked : SUBSET Uids, added : BOOLEAN]
      BY <1>3, <1>4, <2>4
    <3>2. PICK n : n = [friends[w.uid] EXCEPT !.blocked = Union(@, w.target)]
      OBVIOUS
    <3>3. friends' = [friends EXCEPT ![w.uid] = n] /\ stood' = stood \cup {<<w.uid, w.target>>}
      BY <1>8, <1>w, <2>4, <3>2 DEF ServeBlock
    <3>4. /\ n \in [blocked : SUBSET Uids, added : BOOLEAN]
          /\ n.blocked = friends[w.uid].blocked \cup {w.target}
      BY <2>2, <3>1, <3>2 DEF Union
    <3>5. /\ friends' \in [Uids -> [blocked : SUBSET Uids, added : BOOLEAN] \cup {NoDoc}]
          /\ friends'[w.uid] = n /\ n # NoDoc
          /\ \A u \in Uids \ {w.uid} : friends'[u] = friends[u]
      BY <1>3, <1>4, <3>3, <3>4
    <3>6. stood' \subseteq Uids \X Uids
      BY <1>3, <1>4, <2>2, <3>3
    <3>7. OwnLists'
      <4>. SUFFICES ASSUME NEW u \in Uids \ stale', friends'[u] # NoDoc,
                           NEW t \in friends'[u].blocked
                    PROVE  <<u, t>> \in asked'
        BY DEF OwnLists
      <4>1. CASE u = w.uid
        <5>1. t \in friends[w.uid].blocked \/ t = w.target
          BY <3>4, <3>5, <4>1
        <5>. QED  BY <1>0, <1>1, <2>2, <2>4, <4>1, <5>1 DEF OwnLists, Asked
      <4>2. CASE u # w.uid
        BY <1>0, <1>1, <3>5, <4>2 DEF OwnLists
      <4>. QED  BY <4>1, <4>2
    <3>8. BlockedStay'
      <4>. SUFFICES ASSUME NEW e \in stood', e[1] \notin wiped'
                    PROVE  friends'[e[1]] # NoDoc /\ e[2] \in friends'[e[1]].blocked
        BY DEF BlockedStay
      <4>1. CASE e = <<w.uid, w.target>>
        BY <3>4, <3>5, <4>1
      <4>2. CASE e \in stood
        <5>1. e[1] \in Uids /\ friends[e[1]] # NoDoc /\ e[2] \in friends[e[1]].blocked
          BY <1>0, <1>1, <1>4, <4>2 DEF BlockedStay
        <5>. QED  BY <3>4, <3>5, <5>1
      <4>. QED  BY <3>3, <4>1, <4>2
    <3>. QED  BY <1>1, <1>4, <1>w, <2>1, <3>5, <3>6, <3>7, <3>8, ServeStep
  <2>. QED  BY <2>3, <2>4
<1>. QED  BY <1>5, <1>6, <1>7, <1>8 DEF Serve

----------------------------------------------------------------------------
LEMMA InitInv == Init => IInv
<1>. SUFFICES ASSUME Init  PROVE IInv
  OBVIOUS
<1>1. left \in Budget /\ left.members \subseteq Uids /\ left.devices \subseteq Devices
  BY BudgetsAssumption DEF Init, Budget
<1>2. /\ stack = [d \in Devices |-> <<"login">>] /\ forms = <<>> /\ signups = {}
      /\ queue = [d \in Devices |-> [u \in Owners |-> <<>>]]
      /\ maker = [u \in Uids |-> 0] /\ blocks = {} /\ stood = {}
      /\ accounts = left.members
  BY DEF Init, Owners
<1>3. PICK name \in [left.members -> [word : Words, blank : left.blanks]] :
        users = [u \in Uids |-> IF u \in left.members THEN name[u] ELSE NoDoc]
  BY DEF Init
<1>4. users \in [Uids -> Names \cup {NoDoc}] /\ \A u \in Uids \ accounts : users[u] = NoDoc
  <2>1. left.blanks \subseteq BOOLEAN
    BY <1>1 DEF Budget
  <2>2. \A u \in left.members : name[u] \in Names
    BY <1>3, <2>1 DEF Names
  <2>. QED  BY <1>2, <1>3, <2>2
<1>5. TypeOK
  <2>1. /\ queue \in [Devices -> [Uids \cup {Nobody} -> Seq(Writes)]]
        /\ stack \in [Devices -> Seq(Screens)] /\ forms \in Seq(Forms)
    BY <1>2, LoginAlone DEF Owners
  <2>2. friends \in [Uids -> [blocked : SUBSET Uids, added : BOOLEAN] \cup {NoDoc}]
    BY DEF Init
  <2>3. /\ session \in [Devices -> Uids \cup {Nobody}] /\ typed \in [Devices -> Nat]
        /\ listed \in [Devices -> Uids \cup {Nobody}] /\ logins = {}
        /\ asked = {} /\ stale = {} /\ wiped = {}
    BY <1>1 DEF Init
  <2>. QED  BY <1>1, <1>2, <1>4, <2>1, <2>2, <2>3 DEF TypeOK, Budget
<1>6. FormsInv
  BY <1>2, LoginAlone DEF FormsInv, StackSound
<1>7. \A d, v, i : ~Place(d, v, i)
  BY <1>2 DEF Place
<1>8. DocsInv
  BY <1>2, <1>4, <1>7 DEF DocsInv, UserAt
<1>9. ListsInv
  <2>1. OwnLists
    BY DEF Init, OwnLists
  <2>. QED  BY <1>2, <1>7, <2>1 DEF ListsInv, BlockedStay
<1>. QED  BY <1>5, <1>6, <1>8, <1>9 DEF IInv

LEMMA NextInv ==
  ASSUME IInv, [Next]_vars
  PROVE  IInv'
<1>0. left.devices \subseteq Devices
  BY DEF IInv, TypeOK
<1>1. ASSUME NEW d \in Devices, ToPersonal(d) \/ ToPassword(d) \/ ToFinal(d) \/ GoBack(d)
      PROVE  IInv'
  BY <1>1, NavigateInv
<1>2. ASSUME NEW d \in Devices, NEW n \in Names, ToEmail(d, n)  PROVE IInv'
  BY <1>2, ToEmailInv
<1>3. ASSUME NEW d \in Devices, CrashOnNoSession(d) \/ Kill(d)  PROVE IInv'
  BY <1>3, CrashInv
<1>4. ASSUME NEW d \in Devices, CreateUser(d)  PROVE IInv'
  BY <1>4, CreateUserInv
<1>5. ASSUME NEW d \in Devices, NEW u \in Uids, AskLogin(d, u) \/ SignIn(d, u)  PROVE IInv'
  BY <1>5, SessionInv
<1>6. ASSUME NEW d \in Devices, SignOut(d)  PROVE IInv'
  BY <1>6, SessionInv
<1>7. ASSUME NEW d \in Devices, AddFriend(d)  PROVE IInv'
  BY <1>7, AddFriendInv
<1>8. ASSUME NEW d \in Devices, NEW u \in Uids, Block(d, u)  PROVE IInv'
  BY <1>8, BlockInv
<1>9. ASSUME NEW d \in Devices, Serve(d)  PROVE IInv'
  BY <1>9, ServeInv
<1>10. ASSUME NEW f \in DOMAIN forms, LookAtNames(f) \/ AnswerCheck(f)  PROVE IInv'
  BY <1>10, LookAtNamesInv, AnswerCheckInv
<1>11. CASE CreateSome
  BY <1>11, MakeAccountInv, SignInNewInv, UserCreatedInv DEF CreateSome
<1>12. ASSUME NEW r \in blocks, BlockFetched(r) \/ CheckFetched(r) \/ CrashOnBlocked(r)
       PROVE  IInv'
  <2>1. CASE CrashOnBlocked(r)
    <3>1. r.device \in Devices
      BY DEF IInv, TypeOK, Blocks
    <3>. QED  BY <2>1, <3>1, CrashInv
  <2>. QED  BY <1>12, <2>1, FetchedInv
<1>13. CASE UNCHANGED vars
  <2>1. TypeOK /\ FormsInv /\ DocsInv /\ ListsInv
    BY DEF IInv
  <2>2. /\ UNCHANGED <<accounts, maker, users, friends, stood, queue, session, stack>>
        /\ UNCHANGED <<typed, forms, signups, logins, blocks, listed, asked, stale>>
        /\ UNCHANGED <<wiped, left>>
    BY <1>13 DEF vars, server, requests, friendly
  <2>3. TypeOK'
    BY <2>1, <2>2 DEF TypeOK
  <2>4. Grow /\ \A f \in DOMAIN forms : Used(f)' => Used(f)
    BY <2>2, UsedSame DEF Grow
  <2>. QED  BY <2>1, <2>2, <2>3, <2>4, FormsSame, DocsKept, ListsKept DEF IInv
<1>. QED  BY <1>0, <1>1, <1>2, <1>3, <1>4, <1>5, <1>6, <1>7, <1>8, <1>9, <1>10, <1>11,
             <1>12, <1>13 DEF Next

\* User documents are written by the server only, each for an account that awaits it.
LEMMA OneDocument ==
  ASSUME IInv, [Next]_vars, NEW u \in Uids, users'[u] # users[u]
  PROVE  users[u] = NoDoc /\ maker[u] # 0 /\ users'[u] = forms[maker[u]].name
<1>1. ASSUME NEW d \in Devices, ServeUser(d)
      PROVE  users[u] = NoDoc /\ maker[u] # 0 /\ users'[u] = forms[maker[u]].name
  <2>w. PICK w : w = NextWrite(d)
    OBVIOUS
  <2>1. /\ TypeOK /\ CanServe(d, "user") /\ Served(d) /\ UNCHANGED <<accounts, maker>>
        /\ users' = [users EXCEPT ![w.uid] = forms[w.form].name]
    BY <1>1, <2>w DEF ServeUser, IInv
  <2>2. u = w.uid
    BY <2>1 DEF TypeOK
  <2>3. users \in [Uids -> Names \cup {NoDoc}] /\ NoDoc \notin Names
    BY <2>1, ConstantsAssumption DEF TypeOK, Names
  <2>4. w.op = "user" /\ Place(d, session[d], 1) /\ queue[d][session[d]][1] = w
    BY <2>1, <2>w, ServedFacts DEF CanServe
  <2>5. UserAt(d, session[d], 1, u)
    BY <2>2, <2>4 DEF UserAt
  <2>6. Awaits(u, w.form)
    BY <2>4, <2>5 DEF IInv, DocsInv
  <2>7. users'[u] = forms[w.form].name
    BY <2>1, <2>2, <2>3
  <2>8. w.form # 0
    BY <2>1, <2>6, FormsTyped DEF Awaits
  <2>. QED  BY <2>6, <2>7, <2>8 DEF Awaits
<1>2. ASSUME ~\E d \in Devices : ServeUser(d)
      PROVE  users' = users
  <2>1. left.devices \subseteq Devices
    BY DEF IInv, TypeOK
  <2>. QED  BY <1>2, <2>1
      DEF Next, vars, server, CreateSome, Serve, ServeBase, ServeAdd, ServeBlock,
          ToPersonal, ToEmail, ToPassword, ToFinal, GoBack, CrashOnNoSession,
          CreateUser, AskLogin, SignIn, Block, SignOut, Kill, AddFriend, LookAtNames,
          AnswerCheck, MakeAccount, SignInNew, UserCreated, BlockFetched,
          CheckFetched, CrashOnBlocked
<1>. QED  BY <1>1, <1>2

----------------------------------------------------------------------------
(* Theorems.                                                               *)

\* Every variable keeps to its type, and each write and request names a form that was
\* filled in (createUser, signInUser, blockUser and what Firestore makes of them).
THEOREM TypeCorrect == Spec => []TypeOK
<1>1. IInv => TypeOK
  BY DEF IInv
<1>. QED  BY <1>1, InitInv, NextInv, PTL DEF Spec

\* A name that was taken when it was looked up makes no account if the answer finds
\* the next form in front (usernameIsAvaliable and the popViewController of its closure).
THEOREM RefusedInTime == Spec => []TakenIsRefused
<1>1. ASSUME IInv  PROVE TakenIsRefused
  <2>1. ASSUME NEW u \in Uids, maker[u] # 0, forms[maker[u]].inTime,
               NEW v \in forms[maker[u]].docs
        PROVE  ~(users[v].word = forms[maker[u]].name.word /\ ~users[v].blank)
    <3>1. maker[u] \in DOMAIN forms /\ Used(maker[u])
      BY <1>1, <2>1 DEF IInv, DocsInv, Used
    <3>2. ~TakenByNow(maker[u])
      BY <1>1, <2>1, <3>1 DEF IInv, FormsInv, FormSound
    <3>. QED  BY <2>1, <3>2 DEF TakenByNow, Same
  <2>. QED  BY <2>1 DEF TakenIsRefused
<1>. QED  BY <1>1, InitInv, NextInv, PTL DEF Spec

\* A user document is written once, for the account that its sign-up made, with the
\* name typed for it, whoever is signed in by then (the closure of createUser).
THEOREM DocumentIsOwn == Spec => OwnDocument
<1>. DEFINE Own == \A u \in Uids : users'[u] # users[u] =>
                     /\ users[u] = NoDoc
                     /\ maker[u] # 0
                     /\ users'[u] = forms[maker[u]].name
<1>1. IInv /\ [Next]_vars => Own
  BY OneDocument
<1>2. IInv /\ [Next]_vars => [Own]_vars
  BY <1>1
<1>. QED  BY <1>2, InitInv, NextInv, PTL DEF Spec, OwnDocument

\* Who is blocked stays blocked, whatever the devices of one user write, unless someone
\* signs up where that user is signed in (FieldValue.arrayUnion and the setData of
\* createUser).
THEOREM BlocksStand == Spec => []BlockedStay
<1>1. IInv => BlockedStay
  BY DEF IInv, ListsInv
<1>. QED  BY <1>1, InitInv, NextInv, PTL DEF Spec

\* A list holds only users whom its owner blocked, unless an instance went on writing in
\* the owner's name for another user (loggedInUserID of FriendsListModelController).
THEOREM ListsAreOwn == Spec => []OwnLists
<1>1. IInv => OwnLists
  BY DEF IInv, ListsInv
<1>. QED  BY <1>1, InitInv, NextInv, PTL DEF Spec

----------------------------------------------------------------------------
(* No document is forgotten on its way.                                    *)

\* A sign-up belongs to the device whose form it was sent with; one whose closure is
\* gone was sent before its app was ended.
SignUpsInv ==
  \A r \in signups :
    /\ forms[r.form].device = r.device
    /\ r.state = "orphan" => forms[r.form].lost

WayInv == SignUpsInv /\ DocumentComing

Forgiven(u) == maker[u] # 0 /\ forms[maker[u]].lost

\* What was filled in stays so, and an app that was ended does not come back.
FormsStay ==
  /\ DOMAIN forms \subseteq DOMAIN forms'
  /\ \A f \in DOMAIN forms : /\ forms'[f].device = forms[f].device
                             /\ forms[f].lost => forms'[f].lost

WritesStay ==
  \A d, v, i : Place(d, v, i) => Place(d, v, i)' /\ queue'[d][v][i] = queue[d][v][i]

LEMMA CarriedIs ==
  \A u : Carried(u) <=> (\E r \in signups : r.uid = u) \/ \E d, v, i : UserAt(d, v, i, u)
BY DEF Carried, UserAt, Place, Owners

LEMMA ClosedStays ==
  ASSUME NEW d, NEW s, NEW f \in Seq(Forms)
  PROVE  /\ DOMAIN Closed(d, f, s) = DOMAIN f
         /\ \A i \in DOMAIN f : /\ Closed(d, f, s)[i].device = f[i].device
                                /\ f[i].lost => Closed(d, f, s)[i].lost
<1>1. Closed(d, f, s) = [i \in DOMAIN f |-> IF f[i].device = d
        THEN [f[i] EXCEPT !.open = @ /\ Holds(s, "personal")] ELSE f[i]]
  BY DEF Closed
<1>2. ASSUME NEW i \in DOMAIN f
      PROVE  /\ Closed(d, f, s)[i].device = f[i].device
             /\ f[i].lost => Closed(d, f, s)[i].lost
  <2>1. f[i] \in Forms
    BY <1>2
  <2>2. CASE f[i].device = d
    <3>1. Closed(d, f, s)[i] = [f[i] EXCEPT !.open = f[i].open /\ Holds(s, "personal")]
      BY <1>1, <2>2
    <3>. QED  BY <2>1, <3>1 DEF Forms
  <2>3. CASE f[i].device # d
    BY <1>1, <2>3
  <2>. QED  BY <2>2, <2>3
<1>. QED  BY <1>1, <1>2

LEMMA ShowStays ==
  ASSUME TypeOK, NEW d, NEW s, Show(d, s)
  PROVE  FormsStay
BY FormsTyped, ClosedStays DEF Show, FormsStay

LEMMA RestartStays ==
  ASSUME TypeOK, NEW d, forms' = Restarted(d, forms)
  PROVE  /\ FormsStay
         /\ \A f \in DOMAIN forms : forms[f].device = d => forms'[f].lost
<1>1. forms' = [i \in DOMAIN forms |-> IF forms[i].device = d
        THEN [forms[i] EXCEPT !.lost = TRUE, !.open = FALSE] ELSE forms[i]]
  BY DEF Restarted
<1>2. ASSUME NEW f \in DOMAIN forms
      PROVE  /\ forms'[f].device = forms[f].device
             /\ forms[f].lost \/ forms[f].device = d => forms'[f].lost
  <2>1. forms[f] \in Forms
    BY <1>2, FormsTyped
  <2>2. CASE forms[f].device = d
    <3>1. forms'[f] = [forms[f] EXCEPT !.lost = TRUE, !.open = FALSE]
      BY <1>1, <2>2
    <3>. QED  BY <2>1, <3>1 DEF Forms
  <2>3. CASE forms[f].device # d
    BY <1>1, <2>3
  <2>. QED  BY <2>2, <2>3
<1>. QED  BY <1>1, <1>2 DEF FormsStay

LEMMA ToEmailStays ==
  ASSUME TypeOK, NEW d, NEW n, ToEmail(d, n)
  PROVE  FormsStay
<1>1. PICK x : forms' = Append(forms, x)
  BY DEF ToEmail
<1>2. DOMAIN forms \subseteq DOMAIN forms' /\ \A f \in DOMAIN forms : forms'[f] = forms[f]
  BY <1>1, FormsTyped
<1>. QED  BY <1>2 DEF FormsStay

LEMMA LookAtNamesStays ==
  ASSUME TypeOK, NEW f \in DOMAIN forms, LookAtNames(f)
  PROVE  FormsStay
<1>1. PICK docs, check : forms' = [forms EXCEPT ![f].docs = docs, ![f].check = check]
  BY DEF LookAtNames
<1>2. forms[f] \in Forms /\ forms \in Seq(Forms)
  BY FormsTyped
<1>3. PICK x : x = [forms[f] EXCEPT !.docs = docs, !.check = check]
  OBVIOUS
<1>4. x.device = forms[f].device /\ x.lost = forms[f].lost
  BY <1>2, <1>3 DEF Forms
<1>5. forms' = [forms EXCEPT ![f] = x]
  BY <1>1, <1>2, <1>3
<1>. QED  BY <1>2, <1>4, <1>5 DEF FormsStay

LEMMA AnswerCheckStays ==
  ASSUME TypeOK, NEW f \in DOMAIN forms, AnswerCheck(f)
  PROVE  FormsStay
<1>1. PICK s, t : forms' = Closed(forms[f].device, [forms EXCEPT ![f].check = "over",
                                                      ![f].inTime = t], s)
                  /\ t \in BOOLEAN
  <2>. DEFINE now == Top(forms[f].device) = "email" /\ typed[forms[f].device] = f
  <2>1. now \in BOOLEAN
    OBVIOUS
  <2>2. \E s : forms' = Closed(forms[f].device, [forms EXCEPT ![f].check = "over",
                                                      ![f].inTime = now], s)
    BY DEF AnswerCheck
  <2>. HIDE DEF now
  <2>. QED  BY <2>1, <2>2
<1>2. forms[f] \in Forms /\ forms \in Seq(Forms)
  BY FormsTyped
<1>3. PICK x : x = [forms[f] EXCEPT !.check = "over", !.inTime = t]
  OBVIOUS
<1>4. x.device = forms[f].device /\ x.lost = forms[f].lost /\ x \in Forms
  BY <1>1, <1>2, <1>3 DEF Forms
<1>5. PICK g : g = [forms EXCEPT ![f] = x]
  OBVIOUS
<1>6. g = [forms EXCEPT ![f].check = "over", ![f].inTime = t]
  BY <1>2, <1>3, <1>5
<1>7. /\ DOMAIN g = DOMAIN forms
      /\ g[f] = x /\ \A i \in DOMAIN forms \ {f} : g[i] = forms[i]
  BY <1>2, <1>5
<1>8. \A i \in DOMAIN forms : /\ g[i] \in Forms /\ g[i].device = forms[i].device
                              /\ g[i].lost = forms[i].lost
  BY <1>4, <1>7, FormsTyped
<1>9. g \in Seq(Forms)
  <2>1. g \in [1 .. Len(forms) -> Forms] /\ Len(forms) \in Nat
    BY <1>5, <1>7, <1>8, FormsTyped
  <2>. QED  BY <2>1
<1>10. forms' = Closed(forms[f].device, g, s)
  BY <1>1, <1>6
<1>. QED  BY <1>7, <1>8, <1>9, <1>10, ClosedStays DEF FormsStay

LEMMA IssueStays ==
  ASSUME TypeOK, NEW d \in Devices, NEW w \in Writes, Issue(d, w)
  PROVE  /\ WritesStay
         /\ \E v, i : Place(d, v, i)' /\ queue'[d][v][i] = w
<1>u. PICK u : u = session[d]
  OBVIOUS
<1>1. /\ queue \in [Devices -> [Owners -> Seq(Writes)]] /\ u \in Owners
      /\ session[d] = u
  BY <1>u, Typed DEF TypeOK, Owners
<1>2. queue' = [queue EXCEPT ![d][u] = Append(queue[d][u], w)]
  BY <1>1 DEF Issue
<1>k. PICK k : k = Len(queue[d][u])
  OBVIOUS
<1>3. /\ DOMAIN queue'[d][u] = 1 .. k + 1 /\ DOMAIN queue[d][u] = 1 .. k /\ k \in Nat
      /\ queue'[d][u][k + 1] = w
      /\ \A i \in 1 .. k : queue'[d][u][i] = queue[d][u][i]
  <2>1. queue'[d][u] = Append(queue[d][u], w) /\ queue[d][u] \in Seq(Writes)
    BY <1>1, <1>2
  <2>. QED  BY <1>k, <2>1
<1>4. \A e \in Devices, v \in Owners : e # d \/ v # u => queue'[e][v] = queue[e][v]
  BY <1>1, <1>2
<1>5. ASSUME NEW e, NEW v, NEW i, Place(e, v, i)
      PROVE  Place(e, v, i)' /\ queue'[e][v][i] = queue[e][v][i]
  <2>1. CASE e = d /\ v = u
    BY <1>3, <1>5, <2>1 DEF Place
  <2>2. CASE e # d \/ v # u
    BY <1>4, <1>5, <2>2 DEF Place
  <2>. QED  BY <2>1, <2>2
<1>6. Place(d, u, k + 1)'
  BY <1>1, <1>3 DEF Place
<1>7. WritesStay
  BY <1>5 DEF WritesStay
<1>8. \E i : Place(d, u, i)' /\ queue'[d][u][i] = w
  BY <1>3, <1>6
<1>. QED  BY <1>1, <1>7, <1>8

\* The forms only grow.
LEMMA FormsGoOn ==
  ASSUME IInv, [Next]_vars
  PROVE  FormsStay
<1>1. TypeOK
  BY DEF IInv
<1>2. CASE forms' = forms
  BY <1>2 DEF FormsStay
<1>3. ASSUME NEW d, \/ ToPersonal(d) \/ ToPassword(d) \/ ToFinal(d) \/ GoBack(d)
                    \/ CreateUser(d) \/ SignOut(d) \/ \E u \in Uids : SignIn(d, u)
      PROVE  FormsStay
  BY <1>1, <1>3, ShowStays
      DEF ToPersonal, ToPassword, ToFinal, GoBack, CreateUser, SignOut, SignIn
<1>4. ASSUME NEW d, CrashOnNoSession(d) \/ Kill(d)  PROVE FormsStay
  BY <1>1, <1>4, RestartStays DEF CrashOnNoSession, Kill, Restart
<1>5. ASSUME NEW r, CrashOnBlocked(r)  PROVE FormsStay
  BY <1>1, <1>5, RestartStays DEF CrashOnBlocked, Restart
<1>6. ASSUME NEW d, AddFriend(d) \/ Serve(d) \/ \E u \in Uids : AskLogin(d, u) \/ Block(d, u)
      PROVE  forms' = forms
  BY <1>6 DEF AddFriend, Block, AskLogin, Serve, ServeUser, ServeBase, ServeAdd,
              ServeBlock, Served
<1>7. CreateSome => forms' = forms
  BY DEF CreateSome, MakeAccount, SignInNew, UserCreated
<1>8. ASSUME NEW r, BlockFetched(r) \/ CheckFetched(r)  PROVE forms' = forms
  BY <1>8 DEF BlockFetched, CheckFetched
<1>9. UNCHANGED vars => forms' = forms
  BY DEF vars
<1>. QED  BY <1>1, <1>2, <1>3, <1>4, <1>5, <1>6, <1>7, <1>8, <1>9, ToEmailStays,
             LookAtNamesStays, AnswerCheckStays DEF Next

LEMMA SignUpsKept ==
  ASSUME IInv, SignUpsInv, FormsStay,
         \A r \in signups' :
           \/ r \in signups
           \/ /\ r.form \in DOMAIN forms /\ forms[r.form].device = r.device
              /\ r.state = "orphan" => forms'[r.form].lost
  PROVE  SignUpsInv'
BY DEF SignUpsInv, FormsStay, IInv, DocsInv

\* An account that there was already: it is still on its way, or has come.
LEMMA WayKept ==
  ASSUME IInv, DocumentComing, FormsStay, Grow,
         \A u \in accounts' : \/ u \in accounts /\ maker'[u] = maker[u]
                              \/ Carried(u)' \/ Forgiven(u)',
         \A u \in accounts : Carried(u) =>
           \/ Carried(u)' \/ Forgiven(u)' \/ users'[u] # NoDoc
  PROVE  DocumentComing'
<1>. SUFFICES ASSUME NEW u \in accounts', users'[u] = NoDoc
              PROVE  Carried(u)' \/ Forgiven(u)'
  BY DEF DocumentComing, Forgiven
<1>1. CASE u \in accounts /\ maker'[u] = maker[u]
  <2>1. u \in Uids /\ users[u] = NoDoc
    BY <1>1 DEF IInv, TypeOK, Grow
  <2>2. Carried(u) \/ Forgiven(u)
    BY <1>1, <2>1 DEF DocumentComing, Forgiven
  <2>3. Forgiven(u) => Forgiven(u)'
    BY <1>1, <2>1 DEF Forgiven, FormsStay, IInv, DocsInv
  <2>. QED  BY <1>1, <2>2, <2>3
<1>. QED  BY <1>1

LEMMA StaysCarried ==
  ASSUME NEW u, Carried(u), WritesStay, \A r \in signups : r.uid = u => r \in signups'
  PROVE  Carried(u)'
<1>1. CASE \E r \in signups : r.uid = u
  BY <1>1 DEF Carried
<1>2. ASSUME NEW d, NEW v, NEW i, UserAt(d, v, i, u)  PROVE Carried(u)'
  <2>1. Place(d, v, i)' /\ queue'[d][v][i] = queue[d][v][i]
    BY <1>2 DEF UserAt, WritesStay
  <2>. QED  BY <1>2, <2>1 DEF UserAt, Carried, Place, Owners
<1>. QED  BY <1>1, <1>2, CarriedIs

\* Steps that neither make accounts nor end anything.
LEMMA QuietWay ==
  ASSUME IInv, WayInv, FormsStay, Grow, UNCHANGED <<accounts, maker>>, WritesStay,
         signups \subseteq signups',
         \A r \in signups' \ signups :
           /\ r.form \in DOMAIN forms /\ forms[r.form].device = r.device
           /\ r.state # "orphan"
  PROVE  WayInv'
<1>1. SignUpsInv'
  BY SignUpsKept DEF WayInv
<1>2. \A u \in accounts : Carried(u) => Carried(u)'
  BY StaysCarried
<1>. QED  BY <1>1, <1>2, WayKept DEF WayInv

LEMMA CreateUserWay ==
  ASSUME IInv, WayInv, FormsStay, Grow, NEW d \in Devices, CreateUser(d)
  PROVE  WayInv'
<1>1. TypeOK
  BY DEF IInv
<1>2. /\ HandsOn(stack[d]) /\ SignUp(d).form = typed[d] /\ SignUp(d).state = "sent"
      /\ typed[d] \in DOMAIN forms /\ SignUp(d).device = d /\ typed[d] \in Nat
  BY FinalHandsOn DEF CreateUser, SignUp
<1>3. forms[typed[d]].device = d
  BY <1>2 DEF IInv, FormsInv, StackSound
<1>4. Write("base", session[d], typed[d], Nobody) \in Writes
  BY <1>1, <1>2, Typed DEF Write, Writes, CreateUser, Owners
<1>5. WritesStay
  BY <1>1, <1>4, IssueStays DEF CreateUser
<1>6. signups' = signups \cup {SignUp(d)} /\ UNCHANGED <<accounts, maker>>
  BY DEF CreateUser, server
<1>. QED  BY <1>2, <1>3, <1>5, <1>6, QuietWay

LEMMA RestartWay ==
  ASSUME IInv, WayInv, FormsStay, Grow, NEW d \in Devices, NEW pending,
         \A r \in pending : r \in signups \/ (r = SignUp(d) /\ Top(d) = "final"),
         signups \subseteq pending, Restart(d, pending),
         UNCHANGED <<server, queue, session, asked, stale, wiped>>
  PROVE  WayInv'
<1>1. TypeOK /\ UNCHANGED <<accounts, maker, queue, users>>
  BY DEF IInv, server
<1>2. \A f \in DOMAIN forms : forms[f].device = d => forms'[f].lost
  BY <1>1, RestartStays DEF Restart
<1>3. ASSUME NEW r \in pending
      PROVE  /\ r.form \in DOMAIN forms /\ forms[r.form].device = r.device
             /\ r \in SignUps
  <2>1. CASE r \in signups
    BY <2>1, <1>1 DEF IInv, DocsInv, WayInv, SignUpsInv, TypeOK
  <2>2. CASE r = SignUp(d) /\ Top(d) = "final"
    <3>1. /\ r.form = typed[d] /\ typed[d] \in DOMAIN forms /\ HandsOn(stack[d])
          /\ r \in SignUps
      BY <2>2, FinalHandsOn
    <3>2. forms[typed[d]].device = d /\ r.device = d
      BY <2>2, <3>1 DEF IInv, FormsInv, StackSound, SignUp
    <3>. QED  BY <3>1, <3>2
  <2>. QED  BY <2>1, <2>2
<1>4. ASSUME NEW r \in signups'
      PROVE  \/ r \in signups
             \/ /\ r.form \in DOMAIN forms /\ forms[r.form].device = r.device
                /\ r.state = "orphan" => forms'[r.form].lost
  <2>1. CASE r \in pending /\ r.device # d
    <3>1. r \in signups
      BY <2>1 DEF SignUp
    <3>. QED  BY <3>1
  <2>2. ASSUME NEW q \in pending, q.device = d, r = [q EXCEPT !.state = "orphan"]
        PROVE  /\ r.form \in DOMAIN forms /\ forms[r.form].device = r.device
               /\ r.state = "orphan" => forms'[r.form].lost
    <3>1. r.form = q.form /\ r.device = d
      BY <1>3, <2>2 DEF SignUps
    <3>. QED  BY <1>2, <1>3, <2>2, <3>1
  <2>. QED  BY <2>1, <2>2 DEF Restart
<1>5. SignUpsInv'
  BY <1>4, SignUpsKept DEF WayInv
<1>6. WritesStay
  BY <1>1 DEF WritesStay, Place
<1>7. ASSUME NEW u \in accounts, Carried(u)
      PROVE  Carried(u)' \/ Forgiven(u)'
  <2>1. u \in Uids
    BY <1>1 DEF TypeOK
  <2>2. CASE \A r \in signups : r.uid = u => r \in signups'
    BY <1>6, <1>7, <2>2, StaysCarried
  <2>3. ASSUME NEW r \in signups, r.uid = u, r \notin signups'
        PROVE  Forgiven(u)'
    <3>1. r.device = d
      BY <2>3 DEF Restart
    <3>2. Awaits(u, r.form)
      BY <2>1, <2>3, ConstantsAssumption DEF IInv, DocsInv
    <3>3. forms[r.form].device = d
      BY <2>3, <3>1 DEF WayInv, SignUpsInv
    <3>4. r.form \in DOMAIN forms /\ r.form # 0 /\ maker'[u] = r.form
      BY <1>1, <3>2, FormsTyped DEF Awaits
    <3>. QED  BY <1>2, <3>3, <3>4 DEF Forgiven
  <2>. QED  BY <2>2, <2>3
<1>. QED  BY <1>1, <1>5, <1>7, WayKept DEF WayInv

LEMMA MakeAccountWay ==
  ASSUME IInv, WayInv, FormsStay, Grow, NEW r \in signups, MakeAccount(r)
  PROVE  WayInv'
<1>1. /\ TypeOK /\ r \in SignUps /\ r.uid = Nobody /\ r.form \in DOMAIN forms
      /\ forms[r.form].device = r.device
      /\ UNCHANGED <<forms, queue, users>>
  BY DEF IInv, TypeOK, DocsInv, Answered, MakeAccount, WayInv, SignUpsInv
<1>2. WritesStay
  BY <1>1 DEF WritesStay, Place
<1>3. ASSUME NEW u \in accounts, Carried(u), signups \ {r} \subseteq signups'
      PROVE  Carried(u)'
  <2>1. \A q \in signups : q.uid = u => q \in signups'
    BY <1>1, <1>3, ConstantsAssumption DEF TypeOK
  <2>. QED  BY <1>2, <1>3, <2>1, StaysCarried
<1>4. CASE signups' = signups \ {r} /\ UNCHANGED <<accounts, maker>>
  <2>1. SignUpsInv'
    BY <1>4, SignUpsKept DEF WayInv
  <2>. QED  BY <1>3, <1>4, <2>1, WayKept DEF WayInv
<1>5. ASSUME NEW u \in Uids \ accounts, accounts' = accounts \cup {u},
             maker' = [maker EXCEPT ![u] = r.form],
             signups' = (signups \ {r}) \cup
               (IF r.state = "orphan" THEN {}
                  ELSE {[r EXCEPT !.uid = u, !.state = "made"]})
      PROVE  WayInv'
  <2>1. maker'[u] = r.form /\ \A v \in Uids \ {u} : maker'[v] = maker[v]
    BY <1>1, <1>5 DEF TypeOK
  <2>2. PICK n : n = [r EXCEPT !.uid = u, !.state = "made"]
    OBVIOUS
  <2>3. n.form = r.form /\ n.device = r.device /\ n.uid = u /\ n.state = "made"
    BY <1>1, <2>2 DEF SignUps
  <2>4. SignUpsInv'
    BY <1>1, <1>5, <2>2, <2>3, SignUpsKept DEF WayInv
  <2>5. Carried(u)' \/ Forgiven(u)'
    <3>1. CASE r.state = "orphan"
      <4>1. forms'[r.form].lost /\ r.form # 0
        BY <1>1, <3>1, FormsTyped DEF WayInv, SignUpsInv
      <4>. QED  BY <2>1, <4>1 DEF Forgiven
    <3>2. CASE r.state # "orphan"
      BY <1>5, <2>2, <2>3, <3>2 DEF Carried
    <3>. QED  BY <3>1, <3>2
  <2>6. \A v \in accounts' : \/ v \in accounts /\ maker'[v] = maker[v]
                             \/ Carried(v)' \/ Forgiven(v)'
    BY <1>1, <1>5, <2>1, <2>5 DEF TypeOK
  <2>. QED  BY <1>3, <1>5, <2>4, <2>6, WayKept DEF WayInv
<1>. QED  BY <1>4, <1>5 DEF MakeAccount

LEMMA SignInNewWay ==
  ASSUME IInv, WayInv, FormsStay, Grow, NEW r \in signups, SignInNew(r)
  PROVE  WayInv'
<1>1. /\ TypeOK /\ r \in SignUps /\ r.form \in DOMAIN forms
      /\ forms[r.form].device = r.device
      /\ UNCHANGED <<forms, queue, users, accounts, maker>>
  BY DEF IInv, TypeOK, DocsInv, SignInNew, WayInv, SignUpsInv, server
<1>2. WritesStay
  BY <1>1 DEF WritesStay, Place
<1>3. PICK n : n = [r EXCEPT !.state = "signedIn"]
  OBVIOUS
<1>4. /\ n.form = r.form /\ n.device = r.device /\ n.uid = r.uid /\ n.state = "signedIn"
      /\ signups' = (signups \ {r}) \cup {n}
  BY <1>1, <1>3 DEF SignUps, SignInNew
<1>5. SignUpsInv'
  BY <1>1, <1>4, SignUpsKept DEF WayInv
<1>6. ASSUME NEW u \in accounts, Carried(u)  PROVE Carried(u)'
  <2>1. CASE r.uid = u
    BY <1>4, <2>1 DEF Carried
  <2>2. CASE r.uid # u
    BY <1>2, <1>4, <1>6, <2>2, StaysCarried
  <2>. QED  BY <2>1, <2>2
<1>. QED  BY <1>1, <1>5, <1>6, WayKept DEF WayInv

\* The closure hands the document over to a queue.
LEMMA UserCreatedWay ==
  ASSUME IInv, WayInv, FormsStay, Grow, NEW r \in signups, UserCreated(r)
  PROVE  WayInv'
<1>1. /\ TypeOK /\ r \in SignUps /\ r.uid \in Uids /\ signups' = signups \ {r}
      /\ UNCHANGED <<forms, users, accounts, maker>>
  BY DEF IInv, TypeOK, DocsInv, Answered, UserCreated, server
<1>2. PICK w : w = Write("user", r.uid, r.form, Nobody)
  OBVIOUS
<1>3. w \in Writes /\ w.op = "user" /\ w.uid = r.uid
  BY <1>1, <1>2 DEF Write, Writes, SignUps
<1>4. Issue(r.device, w) /\ r.device \in Devices
  BY <1>1, <1>2 DEF UserCreated, ResultUser, SignUps
<1>5. WritesStay /\ \E v, i : Place(r.device, v, i)' /\ queue'[r.device][v][i] = w
  BY <1>1, <1>3, <1>4, IssueStays
<1>6. SignUpsInv'
  BY <1>1, SignUpsKept DEF WayInv
<1>7. ASSUME NEW u \in accounts, Carried(u)  PROVE Carried(u)'
  <2>1. CASE r.uid = u
    <3>1. \E d, v, i : UserAt(d, v, i, u)'
      BY <1>3, <1>5, <2>1 DEF UserAt
    <3>. QED  BY <3>1 DEF UserAt, Place, Owners, Carried
  <2>2. CASE r.uid # u
    BY <1>1, <1>5, <1>7, <2>2, StaysCarried
  <2>. QED  BY <2>1, <2>2
<1>. QED  BY <1>1, <1>6, <1>7, WayKept DEF WayInv

\* Only the first write of a queue goes, and a document goes to its user.
LEMMA ServeWay ==
  ASSUME IInv, WayInv, FormsStay, Grow, NEW d \in Devices, Serve(d)
  PROVE  WayInv'
<1>1. TypeOK /\ Served(d) /\ UNCHANGED <<accounts, maker, signups, session>>
  BY DEF IInv, Serve, ServeUser, ServeBase, ServeAdd, ServeBlock, Served, requests
<1>2. queue[d][session[d]] # <<>>
  BY DEF Serve, ServeUser, ServeBase, ServeAdd, ServeBlock, CanServe
<1>v. PICK s : s = session[d]
  OBVIOUS
<1>3. /\ queue \in [Devices -> [Owners -> Seq(Writes)]] /\ s \in Owners
      /\ queue[d][s] \in Seq(Writes) /\ queue[d][s] # <<>>
      /\ queue' = [queue EXCEPT ![d][s] = Tail(queue[d][s])]
  BY <1>1, <1>2, <1>v, Typed DEF TypeOK, Served, Owners
<1>4. /\ queue'[d][s] = Tail(queue[d][s])
      /\ \A e \in Devices, v \in Owners : e # d \/ v # s => queue'[e][v] = queue[e][v]
  BY <1>3
<1>5. /\ \A i \in DOMAIN queue[d][s] : i # 1 =>
           i - 1 \in DOMAIN queue'[d][s] /\ queue'[d][s][i - 1] = queue[d][s][i]
      /\ queue[d][s][1] = NextWrite(d)
  <2>1. queue[d][s][1] = NextWrite(d)
    BY <1>3, <1>v DEF NextWrite
  <2>2. /\ DOMAIN queue[d][s] = 1 .. Len(queue[d][s]) /\ Len(queue[d][s]) \in Nat
        /\ DOMAIN Tail(queue[d][s]) = 1 .. Len(queue[d][s]) - 1
        /\ \A i \in 1 .. Len(queue[d][s]) - 1 : Tail(queue[d][s])[i] = queue[d][s][i + 1]
    BY <1>3
  <2>3. ASSUME NEW i \in DOMAIN queue[d][s], i # 1
        PROVE  i - 1 \in DOMAIN queue'[d][s] /\ queue'[d][s][i - 1] = queue[d][s][i]
    <3>1. i - 1 \in 1 .. Len(queue[d][s]) - 1 /\ (i - 1) + 1 = i
      BY <2>2, <2>3
    <3>. QED  BY <1>4, <2>2, <3>1
  <2>. QED  BY <2>1, <2>3
<1>6. ASSUME NextWrite(d).op = "user"
      PROVE  NextWrite(d).uid \in Uids => users'[NextWrite(d).uid] # NoDoc
  <2>w. PICK w : w = NextWrite(d)
    OBVIOUS
  <2>1. users' = [users EXCEPT ![w.uid] = forms[w.form].name]
    BY <1>6, <2>w DEF Serve, ServeUser, ServeBase, ServeAdd, ServeBlock, CanServe
  <2>2. Place(d, s, 1) /\ queue[d][s][1] = w
    BY <1>1, <1>2, <1>v, <2>w, ServedFacts
  <2>3. w.form \in DOMAIN forms
    BY <1>6, <2>w, <2>2 DEF UserAt, IInv, DocsInv, Awaits
  <2>4. forms[w.form].name \in Names
    BY <1>1, <2>3, FormsTyped
  <2>5. NoDoc \notin Names /\ users \in [Uids -> Names \cup {NoDoc}]
    BY <1>1, ConstantsAssumption DEF Names, TypeOK
  <2>6. ASSUME w.uid \in Uids  PROVE users'[w.uid] # NoDoc
    BY <2>1, <2>4, <2>5, <2>6
  <2>. QED  BY <2>w, <2>6
<1>7. ASSUME NEW u \in accounts, Carried(u)  PROVE Carried(u)' \/ users'[u] # NoDoc
  <2>1. CASE \E r \in signups : r.uid = u
    BY <1>1, <2>1 DEF Carried
  <2>2. ASSUME NEW e, NEW v, NEW i, UserAt(e, v, i, u)
        PROVE  Carried(u)' \/ users'[u] # NoDoc
    <3>1. CASE e # d \/ v # s
      <4>1. UserAt(e, v, i, u)'
        BY <1>4, <2>2, <3>1 DEF UserAt, Place
      <4>. QED  BY <4>1 DEF UserAt, Place, Owners, Carried
    <3>2. CASE e = d /\ v = s /\ i # 1
      <4>1. UserAt(d, s, i - 1, u)'
        BY <1>3, <1>5, <2>2, <3>2 DEF UserAt, Place
      <4>. QED  BY <4>1 DEF UserAt, Place, Owners, Carried
    <3>3. CASE e = d /\ v = s /\ i = 1
      <4>1. NextWrite(d).op = "user" /\ NextWrite(d).uid = u /\ u \in Uids
        BY <1>1, <1>5, <2>2, <3>3 DEF UserAt, TypeOK
      <4>. QED  BY <1>6, <4>1
    <3>. QED  BY <3>1, <3>2, <3>3
  <2>. QED  BY <1>7, <2>1, <2>2, CarriedIs
<1>8. SignUpsInv'
  BY <1>1, SignUpsKept DEF WayInv
<1>. QED  BY <1>1, <1>7, <1>8, WayKept DEF WayInv

\* What FriendsListModelController writes goes to the end of a queue.
LEMMA ListWritesStay ==
  ASSUME IInv, \/ \E d \in Devices : AddFriend(d)
               \/ \E r \in blocks : BlockFetched(r)
  PROVE  WritesStay
<1>1. TypeOK
  BY DEF IInv
<1>2. ASSUME NEW d \in Devices, AddFriend(d)  PROVE WritesStay
  <2>1. ListOwner(d) \in Uids /\ UseLists(d)
    BY <1>1, <1>2, UseListsFacts DEF AddFriend
  <2>2. Write("add", ListOwner(d), 0, Nobody) \in Writes
    BY <2>1 DEF Write, Writes
  <2>. QED  BY <1>1, <1>2, <2>2, IssueStays DEF AddFriend
<1>3. ASSUME NEW r \in blocks, BlockFetched(r)  PROVE WritesStay
  <2>1. r \in Blocks
    BY <1>1 DEF TypeOK
  <2>2. Write("block", ListOf(r), 0, r.target) \in Writes /\ r.device \in Devices
    BY <2>1 DEF Write, Writes, ListOf, Blocks
  <2>3. CASE UNCHANGED queue
    BY <2>3 DEF WritesStay, Place
  <2>. QED  BY <1>1, <1>3, <2>2, <2>3, IssueStays DEF BlockFetched
<1>. QED  BY <1>2, <1>3

LEMMA WayStep ==
  ASSUME IInv, WayInv, [Next]_vars
  PROVE  WayInv'
<1>1. FormsStay
  BY FormsGoOn
<1>2. Grow
  BY OneDocument DEF Grow
<1>3. left.devices \subseteq Devices
  BY DEF IInv, TypeOK
<1>4. UNCHANGED queue => WritesStay
  BY DEF WritesStay, Place
<1>5. ASSUME UNCHANGED <<accounts, maker, signups>>, WritesStay
      PROVE  WayInv'
  BY <1>1, <1>2, <1>5, QuietWay
<1>6. ASSUME NEW d, \/ ToPersonal(d) \/ ToPassword(d) \/ ToFinal(d) \/ GoBack(d)
                    \/ SignOut(d) \/ \E n \in Names : ToEmail(d, n)
                    \/ \E u \in Uids : AskLogin(d, u) \/ SignIn(d, u) \/ Block(d, u)
      PROVE  WayInv'
  BY <1>4, <1>5, <1>6 DEF ToPersonal, ToPassword, ToFinal, GoBack, SignOut, ToEmail,
                          AskLogin, SignIn, Block, server, requests
<1>7. ASSUME NEW d \in Devices, CrashOnNoSession(d) \/ Kill(d)  PROVE WayInv'
  <2>1. CASE Kill(d)
    BY <1>1, <1>2, <2>1, RestartWay DEF Kill
  <2>2. CASE CrashOnNoSession(d)
    <3>1. PICK pending \in {signups, signups \cup {SignUp(d)}} : Restart(d, pending)
      BY <2>2 DEF CrashOnNoSession
    <3>2. \A r \in pending : r \in signups \/ (r = SignUp(d) /\ Top(d) = "final")
      BY <2>2, <3>1 DEF CrashOnNoSession
    <3>3. UNCHANGED <<server, queue, session, asked, stale, wiped>>
      BY <2>2 DEF CrashOnNoSession
    <3>. QED  BY <1>1, <1>2, <3>1, <3>2, <3>3, RestartWay
  <2>. QED  BY <1>7, <2>1, <2>2
<1>8. ASSUME NEW r \in blocks, CrashOnBlocked(r)  PROVE WayInv'
  <2>1. r.device \in Devices
    BY DEF IInv, TypeOK, Blocks
  <2>. QED  BY <1>1, <1>2, <1>8, <2>1, RestartWay DEF CrashOnBlocked
<1>9. ASSUME NEW d \in Devices, AddFriend(d)  PROVE WayInv'
  BY <1>5, <1>9, ListWritesStay DEF AddFriend, server
<1>10. ASSUME NEW r \in blocks, BlockFetched(r)  PROVE WayInv'
  BY <1>5, <1>10, ListWritesStay DEF BlockFetched, server
<1>11. ASSUME NEW r \in blocks, CheckFetched(r)  PROVE WayInv'
  BY <1>4, <1>5, <1>11 DEF CheckFetched, server
<1>12. ASSUME NEW f, LookAtNames(f) \/ AnswerCheck(f)  PROVE WayInv'
  BY <1>4, <1>5, <1>12 DEF LookAtNames, AnswerCheck, server, requests
<1>13. CASE CreateSome
  BY <1>1, <1>2, <1>13, MakeAccountWay, SignInNewWay, UserCreatedWay DEF CreateSome
<1>14. CASE UNCHANGED vars
  BY <1>4, <1>5, <1>14 DEF vars, server, requests
<1>. QED  BY <1>1, <1>2, <1>3, <1>6, <1>7, <1>8, <1>9, <1>10, <1>11, <1>12, <1>13, <1>14,
             CreateUserWay, ServeWay DEF Next

\* No account is without its document unless that is on its way, or the app was ended
\* after the form was filled in (createUser, its closure and the queues of writes).
THEOREM DocumentComes == Spec => []DocumentComing
<1>1. Init => WayInv
  <2>. SUFFICES ASSUME Init  PROVE WayInv
    OBVIOUS
  <2>1. signups = {} /\ accounts = left.members /\ left.members \subseteq Uids
    BY BudgetsAssumption DEF Init
  <2>2. PICK name \in [left.members -> [word : Words, blank : left.blanks]] :
          users = [u \in Uids |-> IF u \in left.members THEN name[u] ELSE NoDoc]
    BY DEF Init
  <2>3. left.blanks \subseteq BOOLEAN
    BY BudgetsAssumption DEF Init
  <2>4. \A u \in accounts : name[u] \in Names /\ users[u] = name[u]
    BY <2>1, <2>2, <2>3 DEF Names
  <2>5. NoDoc \notin Names
    BY ConstantsAssumption DEF Names
  <2>. QED  BY <2>1, <2>4, <2>5 DEF WayInv, SignUpsInv, DocumentComing
<1>2. IInv /\ WayInv /\ [Next]_vars => IInv' /\ WayInv'
  BY NextInv, WayStep
<1>3. WayInv => DocumentComing
  BY DEF WayInv
<1>. QED  BY <1>1, <1>2, <1>3, InitInv, PTL DEF Spec
===============================================================================
