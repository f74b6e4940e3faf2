------------------------- MODULE PostScreensProofs -------------------------
(* Proofs about PostScreens, for any users, bounds and number of screens. *)
EXTENDS PostScreens, TLAPS

----------------------------------------------------------------------------
(* The inductive invariant: what the four invariants say of the screen in  *)
(* front is kept for every screen below it, with what is known of the      *)
(* statics and of the requests under way.                                  *)

\* What is drawn of a post, from the static.
Drawn(p, own, there) == p = own \/ (p = Blank /\ own \notin there)

PostSound(s, there, p) ==
  (s.kind = "post" /\ ~s.mixed) => Drawn(p, s.own, there) /\ Drawn(s.shown, s.own, there)

EditSound(s, e) == (s.kind = "edit" /\ ~s.mixed) => e = s.own

ProfileSound(s, u) ==
  s.kind = "profile" => /\ u # None
                        /\ s.user \in {None, Me}
                        /\ s.button => s.shown = Me

\* Every number of a screen or of the screen of a request has been given out.
Numbered(s, n) == s.id <= n

\* An author is asked for by a post screen, who is signed in by a profile.
Fits(s, r) ==
  s.id = r.screen => /\ r.kind = "author" => s.kind = "post"
                     /\ r.kind = "logged" => s.kind = "profile"

Sound(s) ==
  /\ s \in Screens
  /\ PostSound(s, docs, currentPost)
  /\ EditSound(s, editing)
  /\ ProfileSound(s, profileUser)
  /\ Numbered(s, opened)

IInv ==
  /\ TypeOK
  /\ stack[1].kind = "feed"
  /\ \A i \in DOMAIN stack : Sound(stack[i])
  /\ \A r \in requests : r.screen <= opened
  /\ \A i \in DOMAIN stack : \A r \in requests : Fits(stack[i], r)
  /\ ActsOnShown

----------------------------------------------------------------------------
(* Stacks of screens.                                                      *)

LEMMA Stacked ==
  ASSUME NEW n \in Nat, NEW S, NEW s \in [1 .. n -> S]
  PROVE  s \in Seq(S) /\ Len(s) = n /\ DOMAIN s = 1 .. n
  OBVIOUS

\* A screen is drawn with all the fields it had but those that are set.
LEMMA ScreenFields ==
  ASSUME NEW s \in Screens
  PROVE  /\ s.id \in Nat /\ s.kind \in {"feed", "post", "edit", "profile"}
         /\ s.own \in Contents /\ s.shown \in Contents /\ s.user \in Contents
         /\ s.button \in BOOLEAN /\ s.mixed \in BOOLEAN
  BY DEF Screens

LEMMA ScreenType ==
  ASSUME NEW n \in Nat, NEW kind \in {"feed", "post", "edit", "profile"},
         NEW own \in Contents, NEW shown \in Contents
  PROVE  /\ Screen(n, kind, own, shown) \in Screens
         /\ Screen(n, kind, own, shown).id = n
         /\ Screen(n, kind, own, shown).kind = kind
         /\ Screen(n, kind, own, shown).own = own
         /\ Screen(n, kind, own, shown).shown = shown
         /\ Screen(n, kind, own, shown).user = None
         /\ Screen(n, kind, own, shown).button = FALSE
         /\ Screen(n, kind, own, shown).mixed = FALSE
  BY DEF Screen, Screens, Contents

\* Marking a screen mixed changes nothing else.
LEMMA Marked ==
  ASSUME NEW s \in Screens
  PROVE  /\ [s EXCEPT !.mixed = TRUE] \in Screens
         /\ [s EXCEPT !.mixed = TRUE].id = s.id
         /\ [s EXCEPT !.mixed = TRUE].kind = s.kind
         /\ [s EXCEPT !.mixed = TRUE].own = s.own
         /\ [s EXCEPT !.mixed = TRUE].shown = s.shown
         /\ [s EXCEPT !.mixed = TRUE].user = s.user
         /\ [s EXCEPT !.mixed = TRUE].button = s.button
         /\ [s EXCEPT !.mixed = TRUE].mixed = TRUE
  BY DEF Screens

\* All that two screens have in common when one of them has been marked.
Alike(s, t) ==
  /\ s.id = t.id /\ s.kind = t.kind /\ s.own = t.own
  /\ s.shown = t.shown /\ s.user = t.user /\ s.button = t.button

LEMMA MixedStack ==
  ASSUME NEW s \in Seq(Screens), NEW p
  PROVE  /\ Mixed(s, p) \in Seq(Screens)
         /\ Len(Mixed(s, p)) = Len(s)
         /\ DOMAIN Mixed(s, p) = DOMAIN s
         /\ \A i \in DOMAIN s :
              /\ Alike(Mixed(s, p)[i], s[i])
              /\ ~Mixed(s, p)[i].mixed =>
                   ~s[i].mixed /\ (s[i].kind = "post" => s[i].own = p)
              /\ s[i].kind # "post" => Mixed(s, p)[i] = s[i]
<1>1. \A i \in DOMAIN s :
        /\ Mixed(s, p)[i] = IF s[i].kind = "post" /\ s[i].own # p
                              THEN [s[i] EXCEPT !.mixed = TRUE] ELSE s[i]
        /\ s[i] \in Screens
  BY DEF Mixed
<1>2. \A i \in DOMAIN s :
        /\ Mixed(s, p)[i] \in Screens
        /\ Alike(Mixed(s, p)[i], s[i])
        /\ ~Mixed(s, p)[i].mixed =>
             ~s[i].mixed /\ (s[i].kind = "post" => s[i].own = p)
        /\ s[i].kind # "post" => Mixed(s, p)[i] = s[i]
  <2>1. TAKE i \in DOMAIN s
  <2>2. CASE s[i].kind = "post" /\ s[i].own # p
    BY <1>1, <2>2, Marked DEF Alike
  <2>3. CASE ~(s[i].kind = "post" /\ s[i].own # p)
    BY <1>1, <2>3 DEF Alike
  <2>. QED  BY <2>2, <2>3
<1>3. Mixed(s, p) \in [1 .. Len(s) -> Screens]
  BY <1>2 DEF Mixed
<1>. QED  BY <1>2, <1>3, Stacked

LEMMA EditedStack ==
  ASSUME stack \in Seq(Screens)
  PROVE  /\ Edited \in Seq(Screens)
         /\ Len(Edited) = Len(stack)
         /\ DOMAIN Edited = DOMAIN stack
         /\ \A i \in DOMAIN stack :
              /\ Alike(Edited[i], stack[i])
              /\ ~Edited[i].mixed => ~stack[i].mixed /\ stack[i].kind # "edit"
              /\ stack[i].kind # "edit" => Edited[i] = stack[i]
<1>1. \A i \in DOMAIN stack :
        /\ Edited[i] = IF stack[i].kind = "edit"
                         THEN [stack[i] EXCEPT !.mixed = TRUE] ELSE stack[i]
        /\ stack[i] \in Screens
  BY DEF Edited
<1>2. \A i \in DOMAIN stack :
        /\ Edited[i] \in Screens
        /\ Alike(Edited[i], stack[i])
        /\ ~Edited[i].mixed => ~stack[i].mixed /\ stack[i].kind # "edit"
        /\ stack[i].kind # "edit" => Edited[i] = stack[i]
  <2>1. TAKE i \in DOMAIN stack
  <2>2. CASE stack[i].kind = "edit"
    BY <1>1, <2>2, Marked DEF Alike
  <2>3. CASE stack[i].kind # "edit"
    BY <1>1, <2>3 DEF Alike
  <2>. QED  BY <2>2, <2>3
<1>3. Edited \in [1 .. Len(stack) -> Screens]
  BY <1>2 DEF Edited
<1>. QED  BY <1>2, <1>3, Stacked

----------------------------------------------------------------------------
(* What IInv says of the stack, and what pushing and popping do to it.     *)

LEMMA StackFacts ==
  ASSUME IInv
  PROVE  /\ stack \in Seq(Screens) /\ Len(stack) \in Nat \ {0}
         /\ DOMAIN stack = 1 .. Len(stack) /\ Len(stack) \in DOMAIN stack
         /\ InFront \in Screens /\ Sound(InFront)
         /\ opened \in Nat /\ New \in Nat /\ New > opened
         /\ currentPost \in Contents /\ editing \in Contents /\ profileUser \in Contents
         /\ requests \subseteq Requests /\ docs \subseteq Users /\ crashes \in Nat
<1>1. stack \in Seq(Screens) /\ stack # <<>>
  BY DEF IInv, TypeOK
<1>2. Len(stack) \in Nat \ {0} /\ DOMAIN stack = 1 .. Len(stack)
  BY <1>1
<1>3. Len(stack) \in DOMAIN stack
  BY <1>2
<1>4. InFront \in Screens /\ Sound(InFront)
  BY <1>1, <1>3 DEF IInv, Sound, InFront
<1>. QED  BY <1>1, <1>2, <1>3, <1>4 DEF IInv, TypeOK, New

LEMMA Pushed ==
  ASSUME IInv, NEW base \in Seq(Screens), Len(base) = Len(stack),
         NEW x \in Screens, Push(base, x)
  PROVE  /\ opened' = opened + 1 /\ opened' \in Nat
         /\ stack' \in Seq(Screens) \ {<<>>}
         /\ Len(stack') = Len(stack) + 1
         /\ InFront' = x
         /\ DOMAIN stack' = DOMAIN stack \cup {Len(stack) + 1}
         /\ \A i \in DOMAIN stack : stack'[i] = base[i]
         /\ stack'[Len(stack) + 1] = x
<1>1. stack' = Append(base, x) /\ opened' = opened + 1
  BY DEF Push, New
<1>2. /\ stack' \in Seq(Screens) \ {<<>>}
      /\ Len(stack') = Len(stack) + 1
      /\ \A i \in 1 .. Len(stack) : stack'[i] = base[i]
      /\ stack'[Len(stack) + 1] = x
  BY <1>1, StackFacts
<1>3. DOMAIN stack' = 1 .. Len(stack) + 1 /\ DOMAIN stack = 1 .. Len(stack)
  BY <1>2, StackFacts
<1>. QED  BY <1>1, <1>2, <1>3, StackFacts DEF InFront

\* The requests of a new screen fit it, and no other request is of its number.
LEMMA PushedRequests ==
  ASSUME IInv, NEW base \in Seq(Screens), Len(base) = Len(stack),
         \A i \in DOMAIN stack : Alike(base[i], stack[i]),
         NEW x \in Screens, x.id = New, Push(base, x),
         NEW asks \in SUBSET Requests,
         \A r \in asks : r.screen = New /\ Fits(x, r),
         requests' \subseteq requests \cup asks
  PROVE  /\ requests' \subseteq Requests
         /\ \A r \in requests' : r.screen <= opened'
         /\ \A i \in DOMAIN stack' : \A r \in requests' : Fits(stack'[i], r)
<1>1. \A r \in requests : r \in Requests /\ r.screen \in Nat /\ r.screen <= opened
  BY StackFacts DEF IInv, Requests
<1>2. \A r \in requests' : r \in Requests /\ r.screen <= opened'
  <2>1. opened \in Nat /\ opened' = opened + 1 /\ New = opened + 1
    BY StackFacts, Pushed DEF New
  <2>. QED  BY <1>1, <2>1
<1>3. ASSUME NEW i \in DOMAIN stack, NEW r \in requests'
      PROVE  Fits(stack'[i], r)
  <2>1. stack'[i] = base[i] /\ Alike(base[i], stack[i])
    BY Pushed
  <2>2. CASE r \in requests
    BY <2>1, <2>2 DEF Alike, Fits, IInv
  <2>3. CASE r \in asks
    <3>1. stack[i].id \in Nat /\ stack[i].id <= opened
      BY StackFacts, ScreenFields DEF IInv, Sound, Numbered
    <3>2. stack'[i].id # r.screen
      BY <3>1, <2>1, <2>3, StackFacts DEF Alike
    <3>. QED  BY <3>2 DEF Fits
  <2>. QED  BY <2>2, <2>3
<1>4. ASSUME NEW r \in requests'
      PROVE  Fits(x, r)
  <2>1. CASE r \in requests
    <3>1. x.id # r.screen
      BY <1>1, <2>1, StackFacts
    <3>. QED  BY <3>1 DEF Fits
  <2>. QED  BY <2>1
<1>5. \A i \in DOMAIN stack' : \A r \in requests' : Fits(stack'[i], r)
  <2>0. TAKE i \in DOMAIN stack'
  <2>1. TAKE r \in requests'
  <2>2. CASE i \in DOMAIN stack
    BY <1>3, <2>2
  <2>3. CASE i = Len(stack) + 1
    BY <1>4, <2>3, Pushed
  <2>. QED  BY <2>2, <2>3, Pushed
<1>. QED  BY <1>2, <1>5

\* The screen that appears shows who the static is, with a button only for oneself.
LEMMA Appears ==
  ASSUME NEW s \in Screens, NEW u \in Contents
  PROVE  /\ Appearing(s, u) \in Screens
         /\ Appearing(s, u).id = s.id
         /\ Appearing(s, u).kind = s.kind
         /\ Appearing(s, u).own = s.own
         /\ Appearing(s, u).user = s.user
         /\ s.kind # "profile" => Appearing(s, u) = s
         /\ (s.kind = "profile" /\ u # None) =>
              /\ Appearing(s, u).shown = u
              /\ Appearing(s, u).button = (u = s.user)
<1>1. CASE s.kind = "profile" /\ u # None
  <2>1. Appearing(s, u) = [s EXCEPT !.shown = u, !.button = (u = s.user), !.mixed = FALSE]
    BY <1>1 DEF Appearing, MayPick
  <2>. QED  BY <1>1, <2>1, ScreenFields DEF Screens
<1>2. CASE ~(s.kind = "profile" /\ u # None)
  BY <1>2 DEF Appearing
<1>. QED  BY <1>1, <1>2

LEMMA Popped ==
  ASSUME IInv, Len(stack) > 1, Pop
  PROVE  /\ stack' \in Seq(Screens) \ {<<>>}
         /\ Len(stack') = Len(stack) - 1
         /\ DOMAIN stack' = 1 .. Len(stack) - 1
         /\ \A i \in DOMAIN stack' : i \in DOMAIN stack /\ stack[i] \in Screens
         /\ \A i \in DOMAIN stack' :
              stack'[i] = IF i = Len(stack) - 1 THEN Appearing(stack[i], profileUser)
                                                ELSE stack[i]
         /\ requests' \subseteq requests
<1>. DEFINE n == Len(stack) - 1
<1>1. n \in Nat \ {0} /\ DOMAIN stack = 1 .. n + 1 /\ n \in DOMAIN stack
  BY StackFacts
<1>2. \A i \in 1 .. n : i \in DOMAIN stack /\ stack[i] \in Screens
  BY <1>1, StackFacts
<1>3. stack' = [i \in 1 .. n |-> IF i = n THEN Appearing(stack[n], profileUser)
                                         ELSE stack[i]]
  BY DEF Pop
<1>4. stack' \in [1 .. n -> Screens]
  BY <1>1, <1>2, <1>3, Appears, StackFacts
<1>5. stack' \in Seq(Screens) /\ Len(stack') = n /\ DOMAIN stack' = 1 .. n
  BY <1>1, <1>4, Stacked
<1>6. stack' # <<>>
  BY <1>1, <1>5
<1>. QED  BY <1>1, <1>2, <1>3, <1>5, <1>6 DEF Pop

----------------------------------------------------------------------------
(* Each action keeps the invariant.                                        *)

LEMMA FeedSound ==
  /\ Feed \in Screens /\ Feed.id = 1 /\ Feed.kind = "feed"
  /\ <<Feed>> \in Seq(Screens) \ {<<>>}
  /\ Len(<<Feed>>) = 1 /\ DOMAIN <<Feed>> = {1} /\ <<Feed>>[1] = Feed
<1>1. Feed \in Screens /\ Feed.id = 1 /\ Feed.kind = "feed"
  BY DEF Feed, Screen, Screens, Contents
<1>. QED  BY <1>1

LEMMA InitInv == Init => IInv
<1>. SUFFICES ASSUME Init  PROVE IInv
  OBVIOUS
<1>. USE DEF Init
<1>1. TypeOK
  BY FeedSound, UsersAssumption DEF TypeOK, Contents
<1>2. \A i \in DOMAIN stack : Sound(stack[i])
  BY FeedSound DEF Sound, PostSound, EditSound, ProfileSound, Numbered
<1>3. ActsOnShown /\ stack[1].kind = "feed"
  BY FeedSound DEF ActsOnShown, InFront
<1>. QED  BY <1>1, <1>2, <1>3 DEF IInv

LEMMA OpenPostInv ==
  ASSUME IInv, NEW p \in Users, OpenPost(p)
  PROVE  IInv'
<1>. DEFINE base == Mixed(stack, p)
            x == Screen(New, "post", p, p)
            asks == {Ask("post", p, New), Ask("author", p, New)}
<1>1. /\ base \in Seq(Screens) /\ Len(base) = Len(stack)
      /\ \A i \in DOMAIN stack :
           /\ Alike(base[i], stack[i])
           /\ ~base[i].mixed => ~stack[i].mixed /\ (stack[i].kind = "post" => stack[i].own = p)
           /\ stack[i].kind # "post" => base[i] = stack[i]
  BY MixedStack, StackFacts
<1>2. /\ x \in Screens /\ x.id = New /\ x.kind = "post" /\ x.own = p /\ x.shown = p
      /\ x.mixed = FALSE
  BY StackFacts DEF Screen, Screens, Contents
<1>3. Push(base, x)
  BY DEF OpenPost, Tapped
<1>4. asks \in SUBSET Requests /\ \A r \in asks : r.screen = New /\ Fits(x, r)
  BY <1>2, StackFacts DEF Ask, Requests, Contents, Fits
<1>5. requests' \subseteq requests \cup asks
  BY DEF OpenPost, Tapped
<1>6. /\ requests' \subseteq Requests
      /\ \A r \in requests' : r.screen <= opened'
      /\ \A i \in DOMAIN stack' : \A r \in requests' : Fits(stack'[i], r)
  <2>. HIDE DEF base, x, asks
  <2>. QED  BY <1>1, <1>2, <1>3, <1>4, <1>5, PushedRequests
<1>7. /\ opened' = opened + 1 /\ opened' \in Nat
      /\ stack' \in Seq(Screens) \ {<<>>}
      /\ InFront' = x
      /\ DOMAIN stack' = DOMAIN stack \cup {Len(stack) + 1}
      /\ \A i \in DOMAIN stack : stack'[i] = base[i]
      /\ stack'[Len(stack) + 1] = x
  <2>. HIDE DEF base, x, asks
  <2>. QED  BY <1>1, <1>2, <1>3, Pushed
<1>8. TypeOK'
  BY <1>6, <1>7, StackFacts DEF TypeOK, OpenPost, Contents
<1>9. ASSUME NEW i \in DOMAIN stack'  PROVE Sound(stack[i])'
  <2>. HIDE DEF base, x
  <2>1. CASE i \in DOMAIN stack
    <3>1. Sound(stack[i]) /\ stack'[i] = base[i] /\ base[i] \in Screens
      BY <1>1, <1>7, <2>1 DEF IInv
    <3>2. opened \in Nat /\ stack[i].id \in Nat
      BY <3>1, StackFacts, ScreenFields DEF Sound
    <3>. QED  BY <1>1, <1>7, <2>1, <3>1, <3>2
            DEF Sound, PostSound, EditSound, ProfileSound, Numbered, Drawn, Alike, OpenPost
  <2>2. CASE i = Len(stack) + 1
    BY <1>2, <1>7, <2>2, StackFacts
      DEF Sound, PostSound, EditSound, ProfileSound, Numbered, Drawn, OpenPost, New
  <2>. QED  BY <1>7, <2>1, <2>2
<1>10. ActsOnShown'
  BY <1>2, <1>7 DEF ActsOnShown
<1>11. stack'[1].kind = "feed"
  <2>1. 1 \in DOMAIN stack /\ stack[1].kind = "feed"
    BY StackFacts DEF IInv
  <2>2. stack'[1] = base[1] /\ Alike(base[1], stack[1])
    BY <1>1, <1>7, <2>1
  <2>. QED  BY <2>1, <2>2 DEF Alike
<1>. QED  BY <1>6, <1>8, <1>9, <1>10, <1>11 DEF IInv

LEMMA CrashInv ==
  ASSUME IInv, Crash
  PROVE  IInv'
<1>1. /\ stack' = <<Feed>> /\ opened' = New /\ requests' = {} /\ docs' = docs
      /\ currentPost' = None /\ editing' = None /\ profileUser' = None
      /\ crashes' = crashes + 1
  BY DEF Crash
<1>2. New \in Nat /\ New >= 1
  BY StackFacts DEF New
<1>3. TypeOK'
  BY <1>1, <1>2, FeedSound, StackFacts DEF TypeOK, Contents
<1>4. \A i \in DOMAIN stack' : Sound(stack[i])'
  BY <1>1, <1>2, FeedSound DEF Sound, PostSound, EditSound, ProfileSound, Numbered
<1>5. InFront' = Feed
  BY <1>1, FeedSound DEF InFront
<1>6. ActsOnShown'
  BY <1>5, FeedSound DEF ActsOnShown
<1>. QED  BY <1>1, <1>3, <1>4, <1>6, FeedSound DEF IInv

\* A profile is pushed over whatever is in front.
LEMMA PushProfileInv ==
  ASSUME IInv, NEW u \in Contents, u # None, profileUser' = u,
         NEW pending \in SUBSET requests, PushProfile(u, pending),
         UNCHANGED <<docs, currentPost, editing, crashes>>
  PROVE  IInv'
<1>. DEFINE x == Screen(New, "profile", u, u)
            asks == {Ask("logged", Me, New)}
<1>1. stack \in Seq(Screens) /\ \A i \in DOMAIN stack : Alike(stack[i], stack[i])
  BY StackFacts DEF Alike
<1>2. /\ x \in Screens /\ x.id = New /\ x.kind = "profile" /\ x.own = u /\ x.shown = u
      /\ x.user = None /\ x.button = FALSE
  BY StackFacts DEF Screen, Screens, Contents
<1>3. Push(stack, x)
  BY DEF PushProfile
<1>4. asks \in SUBSET Requests /\ \A r \in asks : r.screen = New /\ Fits(x, r)
  BY <1>2, StackFacts, UsersAssumption DEF Ask, Requests, Contents, Fits
<1>5. requests' \subseteq requests \cup asks
  BY DEF PushProfile
<1>6. /\ requests' \subseteq Requests
      /\ \A r \in requests' : r.screen <= opened'
      /\ \A i \in DOMAIN stack' : \A r \in requests' : Fits(stack'[i], r)
  <2>. HIDE DEF x, asks
  <2>. QED  BY <1>1, <1>2, <1>3, <1>4, <1>5, PushedRequests
<1>7. /\ opened' = opened + 1 /\ opened' \in Nat
      /\ stack' \in Seq(Screens) \ {<<>>}
      /\ InFront' = x
      /\ DOMAIN stack' = DOMAIN stack \cup {Len(stack) + 1}
      /\ \A i \in DOMAIN stack : stack'[i] = stack[i]
      /\ stack'[Len(stack) + 1] = x
  <2>. HIDE DEF x, asks
  <2>. QED  BY <1>1, <1>2, <1>3, Pushed
<1>8. TypeOK'
  BY <1>6, <1>7, StackFacts DEF TypeOK
<1>9. ASSUME NEW i \in DOMAIN stack'  PROVE Sound(stack[i])'
  <2>. HIDE DEF x
  <2>1. CASE i \in DOMAIN stack
    <3>1. Sound(stack[i]) /\ stack'[i] = stack[i]
      BY <1>7, <2>1 DEF IInv
    <3>2. opened \in Nat /\ stack[i].id \in Nat
      BY <3>1, StackFacts, ScreenFields DEF Sound
    <3>. QED  BY <1>7, <3>1, <3>2
            DEF Sound, PostSound, EditSound, ProfileSound, Numbered, Drawn
  <2>2. CASE i = Len(stack) + 1
    BY <1>2, <1>7, <2>2, StackFacts
      DEF Sound, PostSound, EditSound, ProfileSound, Numbered, New
  <2>. QED  BY <1>7, <2>1, <2>2
<1>10. ActsOnShown'
  BY <1>2, <1>7 DEF ActsOnShown
<1>11. stack'[1].kind = "feed"
  BY <1>7, StackFacts DEF IInv
<1>. QED  BY <1>6, <1>8, <1>9, <1>10, <1>11 DEF IInv

LEMMA OpenEditInv ==
  ASSUME IInv, OpenEdit
  PROVE  IInv'
<1>. DEFINE x == Screen(New, "edit", InFront.own, None)
<1>1. /\ Edited \in Seq(Screens) /\ Len(Edited) = Len(stack)
      /\ \A i \in DOMAIN stack :
           /\ Alike(Edited[i], stack[i])
           /\ ~Edited[i].mixed => ~stack[i].mixed /\ stack[i].kind # "edit"
           /\ stack[i].kind # "edit" => Edited[i] = stack[i]
  BY EditedStack, StackFacts
<1>2. InFront.own \in Contents
  BY StackFacts, ScreenFields
<1>3. /\ x \in Screens /\ x.id = New /\ x.kind = "edit" /\ x.own = InFront.own
  BY <1>2, StackFacts DEF Screen, Screens, Contents
<1>4. Push(Edited, x) /\ requests' \subseteq requests \cup {} /\ {} \in SUBSET Requests
  BY DEF OpenEdit
<1>5. /\ requests' \subseteq Requests
      /\ \A r \in requests' : r.screen <= opened'
      /\ \A i \in DOMAIN stack' : \A r \in requests' : Fits(stack'[i], r)
  <2>. HIDE DEF x
  <2>1. \A r \in {} : r.screen = New /\ Fits(x, r)
    OBVIOUS
  <2>. QED  BY <1>1, <1>3, <1>4, <2>1, PushedRequests
<1>6. /\ opened' = opened + 1 /\ opened' \in Nat
      /\ stack' \in Seq(Screens) \ {<<>>}
      /\ InFront' = x
      /\ DOMAIN stack' = DOMAIN stack \cup {Len(stack) + 1}
      /\ \A i \in DOMAIN stack : stack'[i] = Edited[i]
      /\ stack'[Len(stack) + 1] = x
  <2>. HIDE DEF x
  <2>. QED  BY <1>1, <1>3, <1>4, Pushed
<1>7. TypeOK'
  BY <1>2, <1>5, <1>6, StackFacts DEF TypeOK, OpenEdit, PostOf
<1>8. ASSUME NEW i \in DOMAIN stack'  PROVE Sound(stack[i])'
  <2>. HIDE DEF x
  <2>1. CASE i \in DOMAIN stack
    <3>1. Sound(stack[i]) /\ stack'[i] = Edited[i] /\ Edited[i] \in Screens
      BY <1>1, <1>6, <2>1 DEF IInv
    <3>2. opened \in Nat /\ stack[i].id \in Nat
      BY <3>1, StackFacts, ScreenFields DEF Sound
    <3>. QED  BY <1>1, <1>6, <2>1, <3>1, <3>2
            DEF Sound, PostSound, EditSound, ProfileSound, Numbered, Drawn, Alike, OpenEdit
  <2>2. CASE i = Len(stack) + 1
    BY <1>3, <1>6, <2>2, StackFacts
      DEF Sound, PostSound, EditSound, ProfileSound, Numbered, New, OpenEdit, PostOf
  <2>. QED  BY <1>6, <2>1, <2>2
<1>9. ActsOnShown'
  BY <1>3, <1>6 DEF ActsOnShown
<1>10. stack'[1].kind = "feed"
  BY <1>1, <1>6, StackFacts DEF Alike, IInv
<1>. QED  BY <1>5, <1>7, <1>8, <1>9, <1>10 DEF IInv

\* The screen in front is left, perhaps with a post deleted.
LEMMA PopInv ==
  ASSUME IInv, Len(stack) > 1, Pop, docs' \subseteq docs,
         UNCHANGED <<statics, opened, crashes>>
  PROVE  IInv'
<1>1. /\ stack' \in Seq(Screens) \ {<<>>}
      /\ Len(stack') = Len(stack) - 1
      /\ DOMAIN stack' = 1 .. Len(stack) - 1
      /\ \A i \in DOMAIN stack' : i \in DOMAIN stack /\ stack[i] \in Screens
      /\ \A i \in DOMAIN stack' :
           stack'[i] = IF i = Len(stack) - 1 THEN Appearing(stack[i], profileUser)
                                             ELSE stack[i]
      /\ requests' \subseteq requests
  BY Popped
<1>2. profileUser \in Contents /\ profileUser' = profileUser
  BY StackFacts DEF statics
<1>3. ASSUME NEW i \in DOMAIN stack'
      PROVE  /\ Sound(stack[i])'
             /\ stack'[i].id = stack[i].id /\ stack'[i].kind = stack[i].kind
             /\ i = Len(stack) - 1 /\ stack[i].kind = "profile"
                  => stack'[i].shown = profileUser
  <2>1. Sound(stack[i]) /\ stack[i] \in Screens
    BY <1>1 DEF IInv
  <2>2. CASE stack'[i] = stack[i] /\ ~(i = Len(stack) - 1 /\ stack[i].kind = "profile")
    BY <2>1, <2>2 DEF Sound, PostSound, EditSound, ProfileSound, Numbered, Drawn, statics
  <2>3. CASE i = Len(stack) - 1 /\ stack[i].kind = "profile"
    <3>1. stack'[i] = Appearing(stack[i], profileUser) /\ profileUser # None
      BY <1>1, <2>1, <2>3 DEF Sound, ProfileSound
    <3>2. /\ stack'[i] \in Screens /\ stack'[i].id = stack[i].id
          /\ stack'[i].kind = "profile" /\ stack'[i].user = stack[i].user
          /\ stack'[i].shown = profileUser
          /\ stack'[i].button = (profileUser = stack[i].user)
      BY <1>2, <2>1, <2>3, <3>1, Appears
    <3>. QED  BY <1>2, <2>1, <2>3, <3>1, <3>2
            DEF Sound, PostSound, EditSound, ProfileSound, Numbered, statics
  <2>4. stack'[i] = stack[i] \/ (i = Len(stack) - 1 /\ stack[i].kind = "profile")
    BY <1>1, <1>2, <2>1, Appears
  <2>. QED  BY <2>2, <2>3, <2>4
<1>4. TypeOK'
  BY <1>1, StackFacts DEF TypeOK, statics
<1>5. /\ \A r \in requests' : r.screen <= opened'
      /\ \A i \in DOMAIN stack' : \A r \in requests' : Fits(stack'[i], r)
  BY <1>1, <1>3 DEF Fits, IInv
<1>6. Len(stack) - 1 \in DOMAIN stack' /\ 1 \in DOMAIN stack'
  BY <1>1, StackFacts
<1>7. ActsOnShown'
  <2>1. InFront' = stack'[Len(stack) - 1]
    BY <1>1 DEF InFront
  <2>. QED  BY <1>2, <1>3, <1>6, <2>1 DEF ActsOnShown
<1>8. stack'[1].kind = "feed"
  BY <1>3, <1>6 DEF IInv
<1>. QED  BY <1>3, <1>4, <1>5, <1>7, <1>8 DEF IInv

\* A question who is signed in, from a screen there has been.
Mine(r) == r \in Requests /\ r.kind = "me" /\ r.screen <= opened

\* Nothing is opened or left: screens are drawn or marked, requests come and go.
LEMMA InPlace ==
  ASSUME IInv, stack' \in Seq(Screens), Len(stack') = Len(stack),
         \A i \in DOMAIN stack : stack'[i].id = stack[i].id /\ stack'[i].kind = stack[i].kind,
         opened' = opened, crashes' = crashes, docs' \subseteq docs,
         currentPost' \in Contents, editing' \in Contents, profileUser' \in Contents,
         \A r \in requests' : r \in requests \/ Mine(r),
         \A i \in DOMAIN stack : /\ PostSound(stack'[i], docs', currentPost')
                                /\ EditSound(stack'[i], editing')
                                /\ ProfileSound(stack'[i], profileUser'),
         ActsOnShown'
  PROVE  IInv'
<1>1. DOMAIN stack' = DOMAIN stack /\ stack' # <<>> /\ 1 \in DOMAIN stack
      /\ \A i \in DOMAIN stack : stack'[i] \in Screens
  BY StackFacts
<1>2. requests' \subseteq Requests /\ \A r \in requests' : r.screen <= opened'
  BY StackFacts DEF IInv, Mine
<1>3. TypeOK'
  BY <1>1, <1>2, StackFacts DEF TypeOK
<1>4. \A i \in DOMAIN stack' : Sound(stack[i])'
  BY <1>1 DEF Sound, Numbered, IInv
<1>5. ASSUME NEW i \in DOMAIN stack', NEW r \in requests'
      PROVE  Fits(stack'[i], r)
  <2>1. CASE r \in requests
    BY <1>1, <2>1 DEF Fits, IInv
  <2>2. CASE Mine(r)
    BY <2>2 DEF Fits, Mine
  <2>. QED  BY <2>1, <2>2
<1>6. stack'[1].kind = "feed"
  BY <1>1 DEF IInv
<1>. QED  BY <1>2, <1>3, <1>4, <1>5, <1>6 DEF IInv

\* The screens are as they were.
LEMMA Quiet ==
  ASSUME IInv, UNCHANGED <<statics, stack, opened, crashes>>, docs' \subseteq docs,
         \A r \in requests' : r \in requests \/ Mine(r)
  PROVE  IInv'
<1>1. ActsOnShown'
  BY DEF ActsOnShown, InFront, IInv, statics
<1>2. \A i \in DOMAIN stack : /\ PostSound(stack'[i], docs', currentPost')
                             /\ EditSound(stack'[i], editing')
                             /\ ProfileSound(stack'[i], profileUser')
  BY DEF Sound, PostSound, EditSound, ProfileSound, Drawn, IInv, statics
<1>. QED  BY <1>1, <1>2, InPlace, StackFacts DEF statics

\* One screen of the stack is replaced by another of its kind.
LEMMA Replaced ==
  ASSUME stack \in Seq(Screens), NEW i \in DOMAIN stack, NEW x \in Screens,
         DOMAIN stack' = DOMAIN stack, stack' = [j \in DOMAIN stack' |-> stack'[j]],
         stack'[i] = x, \A j \in DOMAIN stack : j # i => stack'[j] = stack[j]
  PROVE  stack' \in Seq(Screens) /\ Len(stack') = Len(stack)
<1>1. Len(stack) \in Nat /\ DOMAIN stack = 1 .. Len(stack)
      /\ \A j \in DOMAIN stack : stack[j] \in Screens
  OBVIOUS
<1>2. \A j \in 1 .. Len(stack) : stack'[j] \in Screens
  BY <1>1
<1>3. stack' \in [1 .. Len(stack) -> Screens]
  BY <1>1, <1>2
<1>4. \A f \in [1 .. Len(stack) -> Screens] : f \in Seq(Screens) /\ Len(f) = Len(stack)
  BY <1>1, Stacked
<1>. QED  BY <1>3, <1>4

LEMMA AnswerAuthorInv ==
  ASSUME IInv, NEW r \in requests, AnswerAuthor(r)
  PROVE  IInv'
<1>1. PICK i \in Places(r.screen) :
        stack' = [stack EXCEPT ![i].user = r.of, ![i].shown = currentPost]
  BY DEF AnswerAuthor
<1>2. i \in DOMAIN stack /\ stack[i].kind = "post" /\ stack[i] \in Screens /\ Sound(stack[i])
  BY <1>1 DEF Places, AnswerAuthor, IInv, Fits, Sound
<1>3. /\ DOMAIN stack' = DOMAIN stack
      /\ stack' = [j \in DOMAIN stack' |-> stack'[j]]
      /\ \A j \in DOMAIN stack : j # i => stack'[j] = stack[j]
      /\ stack'[i] = [stack[i] EXCEPT !.user = r.of, !.shown = currentPost]
  BY <1>1, <1>2, StackFacts
<1>4. r.of \in Contents /\ currentPost \in Contents
  BY StackFacts DEF Requests
<1>5. /\ stack'[i] \in Screens
      /\ stack'[i].id = stack[i].id /\ stack'[i].kind = stack[i].kind
      /\ stack'[i].own = stack[i].own /\ stack'[i].mixed = stack[i].mixed
      /\ stack'[i].shown = currentPost
  BY <1>2, <1>3, <1>4 DEF Screens
<1>6. stack' \in Seq(Screens) /\ Len(stack') = Len(stack)
  BY <1>2, <1>3, <1>5, Replaced, StackFacts
<1>7. ASSUME NEW j \in DOMAIN stack
      PROVE  /\ PostSound(stack'[j], docs', currentPost')
             /\ EditSound(stack'[j], editing')
             /\ ProfileSound(stack'[j], profileUser')
             /\ stack'[j].id = stack[j].id /\ stack'[j].kind = stack[j].kind
  <2>1. Sound(stack[j])
    BY DEF IInv
  <2>2. CASE j = i
    BY <1>2, <1>5, <2>1, <2>2
      DEF Sound, PostSound, EditSound, ProfileSound, Drawn, AnswerAuthor, statics
  <2>3. CASE j # i
    BY <1>3, <2>1, <2>3
      DEF Sound, PostSound, EditSound, ProfileSound, Drawn, AnswerAuthor, statics
  <2>. QED  BY <2>2, <2>3
<1>8. ActsOnShown'
  <2>1. InFront' = stack'[Len(stack)] /\ Len(stack) \in DOMAIN stack
    BY <1>6, StackFacts DEF InFront
  <2>2. profileUser' = profileUser
    BY DEF AnswerAuthor, statics
  <2>3. CASE i = Len(stack)
    BY <1>2, <1>5, <2>1, <2>2, <2>3 DEF ActsOnShown, InFront, IInv
  <2>4. CASE i # Len(stack)
    BY <1>3, <2>1, <2>2, <2>4 DEF ActsOnShown, InFront, IInv
  <2>. QED  BY <2>3, <2>4
<1>9. /\ opened' = opened /\ crashes' = crashes /\ docs' \subseteq docs
      /\ currentPost' \in Contents /\ editing' \in Contents /\ profileUser' \in Contents
  BY StackFacts DEF AnswerAuthor, statics
<1>10. \A q \in requests' : q \in requests \/ Mine(q)
  BY DEF AnswerAuthor
<1>11. \A j \in DOMAIN stack : /\ PostSound(stack'[j], docs', currentPost')
                              /\ EditSound(stack'[j], editing')
                              /\ ProfileSound(stack'[j], profileUser')
  BY <1>7
<1>12. \A j \in DOMAIN stack : stack'[j].id = stack[j].id /\ stack'[j].kind = stack[j].kind
  BY <1>7
<1>. QED  BY <1>6, <1>8, <1>9, <1>10, <1>11, <1>12, InPlace

LEMMA RedrawInv ==
  ASSUME IInv, NEW i \in DOMAIN stack, Redraw(i)
  PROVE  IInv'
<1>1. stack' = [stack EXCEPT ![i].shown = currentPost]
  BY DEF Redraw
<1>2. stack[i].kind = "post" /\ stack[i] \in Screens /\ Sound(stack[i])
  BY DEF Redraw, IInv, Sound
<1>3. /\ DOMAIN stack' = DOMAIN stack
      /\ stack' = [j \in DOMAIN stack' |-> stack'[j]]
      /\ \A j \in DOMAIN stack : j # i => stack'[j] = stack[j]
      /\ stack'[i] = [stack[i] EXCEPT !.shown = currentPost]
  BY <1>1, <1>2, StackFacts
<1>4. currentPost \in Contents
  BY StackFacts
<1>5. /\ stack'[i] \in Screens
      /\ stack'[i].id = stack[i].id /\ stack'[i].kind = stack[i].kind
      /\ stack'[i].own = stack[i].own /\ stack'[i].mixed = stack[i].mixed
      /\ stack'[i].shown = currentPost
  BY <1>2, <1>3, <1>4 DEF Screens
<1>6. stack' \in Seq(Screens) /\ Len(stack') = Len(stack)
  BY <1>2, <1>3, <1>5, Replaced, StackFacts
<1>7. ASSUME NEW j \in DOMAIN stack
      PROVE  /\ PostSound(stack'[j], docs', currentPost')
             /\ EditSound(stack'[j], editing')
             /\ ProfileSound(stack'[j], profileUser')
             /\ stack'[j].id = stack[j].id /\ stack'[j].kind = stack[j].kind
  <2>1. Sound(stack[j])
    BY DEF IInv
  <2>2. CASE j = i
    BY <1>2, <1>5, <2>1, <2>2
      DEF Sound, PostSound, EditSound, ProfileSound, Drawn, Redraw, statics
  <2>3. CASE j # i
    BY <1>3, <2>1, <2>3
      DEF Sound, PostSound, EditSound, ProfileSound, Drawn, Redraw, statics
  <2>. QED  BY <2>2, <2>3
<1>8. ActsOnShown'
  <2>1. InFront' = stack'[Len(stack)] /\ Len(stack) \in DOMAIN stack
    BY <1>6, StackFacts DEF InFront
  <2>2. profileUser' = profileUser
    BY DEF Redraw, statics
  <2>3. CASE i = Len(stack)
    BY <1>2, <1>5, <2>1, <2>2, <2>3 DEF ActsOnShown, InFront, IInv
  <2>4. CASE i # Len(stack)
    BY <1>3, <2>1, <2>2, <2>4 DEF ActsOnShown, InFront, IInv
  <2>. QED  BY <2>3, <2>4
<1>9. /\ opened' = opened /\ crashes' = crashes /\ docs' \subseteq docs
      /\ currentPost' \in Contents /\ editing' \in Contents /\ profileUser' \in Contents
  BY StackFacts DEF Redraw, statics
<1>10. \A q \in requests' : q \in requests \/ Mine(q)
  BY DEF Redraw
<1>11. \A j \in DOMAIN stack : /\ PostSound(stack'[j], docs', currentPost')
                              /\ EditSound(stack'[j], editing')
                              /\ ProfileSound(stack'[j], profileUser')
  BY <1>7
<1>12. \A j \in DOMAIN stack : stack'[j].id = stack[j].id /\ stack'[j].kind = stack[j].kind
  BY <1>7
<1>. QED  BY <1>6, <1>8, <1>9, <1>10, <1>11, <1>12, InPlace

LEMMA AnswerLoggedInv ==
  ASSUME IInv, NEW r \in requests, AnswerLogged(r)
  PROVE  IInv'
<1>1. PICK i \in Places(r.screen) : stack' = [stack EXCEPT ![i].user = Me]
  BY DEF AnswerLogged
<1>2. i \in DOMAIN stack /\ stack[i].kind = "profile" /\ stack[i] \in Screens /\ Sound(stack[i])
  BY <1>1 DEF Places, AnswerLogged, IInv, Fits, Sound
<1>3. /\ DOMAIN stack' = DOMAIN stack
      /\ stack' = [j \in DOMAIN stack' |-> stack'[j]]
      /\ \A j \in DOMAIN stack : j # i => stack'[j] = stack[j]
      /\ stack'[i] = [stack[i] EXCEPT !.user = Me]
  BY <1>1, <1>2, StackFacts
<1>4. Me \in Contents
  BY UsersAssumption DEF Contents
<1>5. /\ stack'[i] \in Screens
      /\ stack'[i].id = stack[i].id /\ stack'[i].kind = stack[i].kind
      /\ stack'[i].shown = stack[i].shown /\ stack'[i].mixed = stack[i].mixed
      /\ stack'[i].button = stack[i].button /\ stack'[i].user = Me
  BY <1>2, <1>3, <1>4 DEF Screens
<1>6. stack' \in Seq(Screens) /\ Len(stack') = Len(stack)
  BY <1>2, <1>3, <1>5, Replaced, StackFacts
<1>7. ASSUME NEW j \in DOMAIN stack
      PROVE  /\ PostSound(stack'[j], docs', currentPost')
             /\ EditSound(stack'[j], editing')
             /\ ProfileSound(stack'[j], profileUser')
             /\ stack'[j].id = stack[j].id /\ stack'[j].kind = stack[j].kind
  <2>1. Sound(stack[j])
    BY DEF IInv
  <2>2. CASE j = i
    BY <1>2, <1>5, <2>1, <2>2
      DEF Sound, PostSound, EditSound, ProfileSound, AnswerLogged, statics
  <2>3. CASE j # i
    BY <1>3, <2>1, <2>3
      DEF Sound, PostSound, EditSound, ProfileSound, Drawn, AnswerLogged, statics
  <2>. QED  BY <2>2, <2>3
<1>8. ActsOnShown'
  <2>1. InFront' = stack'[Len(stack)] /\ Len(stack) \in DOMAIN stack
    BY <1>6, StackFacts DEF InFront
  <2>2. profileUser' = profileUser
    BY DEF AnswerLogged, statics
  <2>3. CASE i = Len(stack)
    BY <1>2, <1>5, <2>1, <2>2, <2>3 DEF ActsOnShown, InFront, IInv
  <2>4. CASE i # Len(stack)
    BY <1>3, <2>1, <2>2, <2>4 DEF ActsOnShown, InFront, IInv
  <2>. QED  BY <2>3, <2>4
<1>9. /\ opened' = opened /\ crashes' = crashes /\ docs' \subseteq docs
      /\ currentPost' \in Contents /\ editing' \in Contents /\ profileUser' \in Contents
  BY StackFacts DEF AnswerLogged, statics
<1>10. \A q \in requests' : q \in requests \/ Mine(q)
  BY DEF AnswerLogged
<1>11. \A j \in DOMAIN stack : /\ PostSound(stack'[j], docs', currentPost')
                              /\ EditSound(stack'[j], editing')
                              /\ ProfileSound(stack'[j], profileUser')
  BY <1>7
<1>12. \A j \in DOMAIN stack : stack'[j].id = stack[j].id /\ stack'[j].kind = stack[j].kind
  BY <1>7
<1>. QED  BY <1>6, <1>8, <1>9, <1>10, <1>11, <1>12, InPlace

LEMMA AnswerPostInv ==
  ASSUME IInv, NEW r \in requests, AnswerPost(r)
  PROVE  IInv'
<1>1. /\ stack' = Mixed(stack, r.of)
      /\ currentPost' = IF r.of \in docs THEN r.of ELSE Blank
      /\ opened' = opened /\ crashes' = crashes /\ docs' = docs
      /\ editing' = editing /\ profileUser' = profileUser
  BY DEF AnswerPost
<1>2. /\ stack' \in Seq(Screens) /\ Len(stack') = Len(stack)
      /\ \A i \in DOMAIN stack :
           /\ Alike(stack'[i], stack[i])
           /\ ~stack'[i].mixed => ~stack[i].mixed /\ (stack[i].kind = "post" => stack[i].own = r.of)
           /\ stack[i].kind # "post" => stack'[i] = stack[i]
  BY <1>1, MixedStack, StackFacts
<1>3. currentPost' \in Contents /\ editing' \in Contents /\ profileUser' \in Contents
  BY <1>1, StackFacts DEF Requests, Contents
<1>4. ASSUME NEW i \in DOMAIN stack
      PROVE  /\ PostSound(stack'[i], docs', currentPost')
             /\ EditSound(stack'[i], editing')
             /\ ProfileSound(stack'[i], profileUser')
  BY <1>1, <1>2 DEF Sound, PostSound, EditSound, ProfileSound, Drawn, Alike, IInv
<1>5. \A i \in DOMAIN stack : stack'[i].id = stack[i].id /\ stack'[i].kind = stack[i].kind
  BY <1>2 DEF Alike
<1>6. ActsOnShown'
  BY <1>1, <1>2, StackFacts DEF ActsOnShown, InFront, IInv, Alike
<1>7. \A q \in requests' : q \in requests \/ Mine(q)
  BY DEF AnswerPost
<1>8. docs' \subseteq docs /\ opened' = opened /\ crashes' = crashes
  BY <1>1
<1>. QED  BY <1>2, <1>3, <1>4, <1>5, <1>6, <1>7, <1>8, InPlace

LEMMA OpenMenuInv ==
  ASSUME IInv, OpenMenu
  PROVE  IInv'
<1>1. /\ stack' = Edited /\ requests' = requests
      /\ opened' = opened /\ crashes' = crashes /\ docs' = docs
      /\ currentPost' = currentPost /\ editing' = currentPost /\ profileUser' = profileUser
  BY DEF OpenMenu
<1>2. /\ stack' \in Seq(Screens) /\ Len(stack') = Len(stack)
      /\ \A i \in DOMAIN stack :
           /\ Alike(stack'[i], stack[i])
           /\ ~stack'[i].mixed => ~stack[i].mixed /\ stack[i].kind # "edit"
           /\ stack[i].kind # "edit" => stack'[i] = stack[i]
  BY <1>1, EditedStack, StackFacts
<1>3. currentPost' \in Contents /\ editing' \in Contents /\ profileUser' \in Contents
  BY <1>1, StackFacts
<1>4. ASSUME NEW i \in DOMAIN stack
      PROVE  /\ PostSound(stack'[i], docs', currentPost')
             /\ EditSound(stack'[i], editing')
             /\ ProfileSound(stack'[i], profileUser')
  BY <1>1, <1>2 DEF Sound, PostSound, EditSound, ProfileSound, Drawn, Alike, IInv
<1>5. \A i \in DOMAIN stack : stack'[i].id = stack[i].id /\ stack'[i].kind = stack[i].kind
  BY <1>2 DEF Alike
<1>6. ActsOnShown'
  BY <1>1, <1>2, StackFacts DEF ActsOnShown, InFront, IInv, Alike
<1>7. \A q \in requests' : q \in requests \/ Mine(q)
  BY <1>1
<1>8. docs' \subseteq docs /\ opened' = opened /\ crashes' = crashes
  BY <1>1
<1>. QED  BY <1>2, <1>3, <1>4, <1>5, <1>6, <1>7, <1>8, InPlace

LEMMA AnswerMeInv ==
  ASSUME IInv, NEW r \in requests, AnswerMe(r)
  PROVE  IInv'
<1>1. /\ profileUser' = Me /\ Me \in Contents /\ Me # None
      /\ crashes' = crashes /\ docs' = docs
      /\ currentPost' = currentPost /\ editing' = editing
  BY UsersAssumption DEF AnswerMe, Contents
<1>2. CASE Places(r.screen) # {}
  <2>1. PushProfile(Me, requests \ {r}) /\ requests \ {r} \in SUBSET requests
    BY <1>2 DEF AnswerMe
  <2>. QED  BY <1>1, <2>1, PushProfileInv
<1>3. CASE Places(r.screen) = {}
  <2>. DEFINE i == Len(stack)
  <2>1. /\ stack' = [stack EXCEPT ![i].mixed = @ \/ InFront.kind = "profile"]
        /\ requests' = requests \ {r} /\ opened' = opened
    BY <1>3 DEF AnswerMe
  <2>2. i \in DOMAIN stack /\ stack[i] \in Screens /\ stack[i] = InFront
    BY StackFacts DEF InFront
  <2>3. /\ DOMAIN stack' = DOMAIN stack
        /\ stack' = [j \in DOMAIN stack' |-> stack'[j]]
        /\ \A j \in DOMAIN stack : j # i => stack'[j] = stack[j]
        /\ stack'[i] = [stack[i] EXCEPT !.mixed = @ \/ InFront.kind = "profile"]
    BY <2>1, <2>2, StackFacts
  <2>4. stack[i].kind = "profile" =>
          /\ stack'[i] \in Screens /\ Alike(stack'[i], stack[i]) /\ stack'[i].mixed
    <3>1. SUFFICES ASSUME stack[i].kind = "profile"
                   PROVE  /\ stack'[i] \in Screens /\ Alike(stack'[i], stack[i])
                          /\ stack'[i].mixed
      OBVIOUS
    <3>2. stack'[i] = [stack[i] EXCEPT !.mixed = TRUE]
      BY <2>2, <2>3, <3>1
    <3>. QED  BY <2>2, <3>2, Marked DEF Alike
  <2>5. stack[i].kind # "profile" =>
          /\ stack'[i] \in Screens /\ Alike(stack'[i], stack[i])
          /\ stack'[i].mixed = stack[i].mixed
    <3>1. SUFFICES ASSUME stack[i].kind # "profile"
                   PROVE  /\ stack'[i] \in Screens /\ Alike(stack'[i], stack[i])
                          /\ stack'[i].mixed = stack[i].mixed
      OBVIOUS
    <3>2. stack'[i] = [stack[i] EXCEPT !.mixed = @]
      BY <2>2, <2>3, <3>1, ScreenFields
    <3>. QED  BY <2>2, <3>2 DEF Screens, Alike
  <2>. HIDE DEF i
  <2>6. stack' \in Seq(Screens) /\ Len(stack') = Len(stack)
    BY <2>2, <2>3, <2>4, <2>5, Replaced, StackFacts
  <2>7. ASSUME NEW j \in DOMAIN stack
        PROVE  /\ PostSound(stack'[j], docs', currentPost')
               /\ EditSound(stack'[j], editing')
               /\ ProfileSound(stack'[j], profileUser')
    <3>1. Sound(stack[j])
      BY DEF IInv
    <3>2. CASE j # i
      BY <1>1, <2>3, <3>1, <3>2 DEF Sound, PostSound, EditSound, ProfileSound, Drawn
    <3>3. CASE j = i /\ stack[i].kind = "profile"
      BY <1>1, <2>4, <3>1, <3>3 DEF Sound, PostSound, EditSound, ProfileSound, Alike
    <3>4. CASE j = i /\ stack[i].kind # "profile"
      BY <1>1, <2>5, <3>1, <3>4 DEF Sound, PostSound, EditSound, ProfileSound, Drawn, Alike
    <3>. QED  BY <3>2, <3>3, <3>4
  <2>8. \A j \in DOMAIN stack : stack'[j].id = stack[j].id /\ stack'[j].kind = stack[j].kind
    BY <2>3, <2>4, <2>5 DEF Alike
  <2>9. ActsOnShown'
    <3>1. InFront' = stack'[i]
      BY <2>6 DEF InFront, i
    <3>. QED  BY <2>4, <2>5, <3>1 DEF ActsOnShown, Alike
  <2>10. \A q \in requests' : q \in requests \/ Mine(q)
    BY <2>1
  <2>11. /\ docs' \subseteq docs /\ opened' = opened /\ crashes' = crashes
         /\ currentPost' \in Contents /\ editing' \in Contents /\ profileUser' \in Contents
    BY <1>1, <2>1, StackFacts
  <2>. QED  BY <2>6, <2>7, <2>8, <2>9, <2>10, <2>11, InPlace
<1>. QED  BY <1>2, <1>3

\* Every step keeps the invariant.
LEMMA NextInv == IInv /\ [Next]_vars => IInv'
<1>. SUFFICES ASSUME IInv, [Next]_vars  PROVE IInv'
  OBVIOUS
<1>1. ASSUME NEW p \in Users, OpenPost(p)  PROVE IInv'
  BY <1>1, OpenPostInv
<1>2. ASSUME NEW p \in Users, DeleteElsewhere(p)  PROVE IInv'
  <2>1. /\ UNCHANGED <<statics, stack, opened, crashes>> /\ docs' \subseteq docs
        /\ requests' = requests
    BY <1>2 DEF DeleteElsewhere
  <2>. QED  BY <2>1, Quiet
<1>3. CASE CrashOnBlank \/ CrashOnNoAuthor \/ CrashOnNoOne
  BY <1>3, CrashInv DEF CrashOnBlank, CrashOnNoAuthor, CrashOnNoOne
<1>4. CASE OpenAuthor
  <2>1. /\ InFront.user \in Contents /\ InFront.user # None
        /\ profileUser' = InFront.user /\ PushProfile(InFront.user, requests)
        /\ UNCHANGED <<docs, currentPost, editing, crashes>>
    BY <1>4, StackFacts, ScreenFields DEF OpenAuthor
  <2>2. requests \in SUBSET requests
    OBVIOUS
  <2>. QED  BY <2>1, <2>2, PushProfileInv
<1>5. CASE OpenMine
  <2>1. /\ profileUser \in Contents /\ profileUser # None
        /\ profileUser' = profileUser /\ PushProfile(profileUser, requests)
        /\ UNCHANGED <<docs, currentPost, editing, crashes>>
    BY <1>5, StackFacts DEF OpenMine, statics
  <2>2. requests \in SUBSET requests
    OBVIOUS
  <2>. QED  BY <2>1, <2>2, PushProfileInv
<1>6. CASE AskMe
  <2>1. UNCHANGED <<statics, stack, opened, crashes>> /\ docs' \subseteq docs
    BY <1>6 DEF AskMe
  <2>2. Mine(Ask("me", Me, InFront.id))
    BY StackFacts, ScreenFields, UsersAssumption
      DEF Mine, Ask, Requests, Contents, Sound, Numbered
  <2>3. requests' = requests \cup {Ask("me", Me, InFront.id)}
    BY <1>6 DEF AskMe
  <2>4. \A q \in requests' : q \in requests \/ Mine(q)
    BY <2>2, <2>3
  <2>. QED  BY <2>1, <2>4, Quiet
<1>7. CASE Back
  <2>1. /\ Len(stack) > 1 /\ Pop /\ docs' \subseteq docs
        /\ UNCHANGED <<statics, opened, crashes>>
    BY <1>7 DEF Back
  <2>. QED  BY <2>1, PopInv
<1>8. ASSUME NEW r \in requests,
             AnswerPost(r) \/ AnswerAuthor(r) \/ AnswerMe(r) \/ AnswerLogged(r)
      PROVE  IInv'
  BY <1>8, AnswerPostInv, AnswerAuthorInv, AnswerMeInv, AnswerLoggedInv
<1>9. ASSUME NEW r \in requests, Fail(r)  PROVE IInv'
  <2>1. /\ UNCHANGED <<statics, stack, opened, crashes>> /\ docs' \subseteq docs
        /\ requests' \subseteq requests
    BY <1>9 DEF Fail
  <2>. QED  BY <2>1, Quiet
<1>10. ASSUME NEW i \in DOMAIN stack, Redraw(i)  PROVE IInv'
  BY <1>10, RedrawInv
<1>11. Len(stack) > 1 \/ InFront.kind = "feed"
  BY StackFacts DEF IInv, InFront
<1>12. CASE DeletePost
  <2>1. /\ Len(stack) > 1 /\ Pop /\ docs' \subseteq docs
        /\ UNCHANGED <<statics, opened, crashes>>
    BY <1>11, <1>12 DEF DeletePost
  <2>. QED  BY <2>1, PopInv
<1>13. CASE SaveEdit
  <2>1. /\ Len(stack) > 1 /\ Pop /\ docs' \subseteq docs
        /\ UNCHANGED <<statics, opened, crashes>>
    BY <1>11, <1>13 DEF SaveEdit
  <2>. QED  BY <2>1, PopInv
<1>14. CASE OpenMenu \/ OpenEdit
  BY <1>14, OpenMenuInv, OpenEditInv
<1>15. CASE UNCHANGED vars
  <2>1. UNCHANGED <<statics, stack, opened, crashes>> /\ docs' \subseteq docs
        /\ requests' \subseteq requests
    BY <1>15 DEF vars
  <2>. QED  BY <2>1, Quiet
<1>. QED  BY <1>1, <1>2, <1>3, <1>4, <1>5, <1>6, <1>7, <1>8, <1>9, <1>10, <1>12, <1>13,
             <1>14, <1>15 DEF Next

----------------------------------------------------------------------------
(* The theorems.                                                           *)

\* The inductive invariant holds throughout, for any users and any bounds.
THEOREM Inductive == Spec => []IInv
  BY InitInv, NextInv, PTL DEF Spec

\* Every variable keeps to its type; the stack of screens is never empty.
THEOREM TypeCorrect == Spec => []TypeOK
<1>1. IInv => TypeOK
  BY DEF IInv
<1>. QED  BY <1>1, Inductive, PTL

\* However many screens there are, in any place of the stack, a post screen that no
\* other post was opened over, and no answer for another came to, draws its own post.
THEOREM OwnPost == Spec => []ShowsOwn
<1>1. IInv => ShowsOwn
  BY DEF IInv, Sound, PostSound, Drawn, ShowsOwn
<1>. QED  BY <1>1, Inductive, PTL

\* An edit saves to the post it was opened for, unless the menu of a post screen
\* pushed later has set the static in the meantime.
THEOREM EditsItsPost == Spec => []EditsOpened
<1>1. IInv => EditsOpened
  BY StackFacts DEF Sound, EditSound, EditsOpened
<1>. QED  BY <1>1, Inductive, PTL

\* Block and Add Friend take the user shown, unless a late My Profile has come.
THEOREM ActsOnWhoIsShown == Spec => []ActsOnShown
<1>1. IInv => ActsOnShown
  BY DEF IInv
<1>. QED  BY <1>1, Inductive, PTL

\* A picture can be picked only on one's own profile.
THEOREM OwnPicture == Spec => []PictureIsMine
<1>1. IInv => PictureIsMine
  BY StackFacts DEF Sound, ProfileSound, PictureIsMine
<1>. QED  BY <1>1, Inductive, PTL
=============================================================================
