---------------------------- MODULE PostScreens ----------------------------
(***************************************************************************)
(* The screens of posts and profiles, and the statics they share.          *)
(*                                                                         *)
(* A post screen keeps the ID of its post, but draws from the static       *)
(* currentPost, which whoever opens a post sets, and every answer of       *)
(* fetchPost sets again, also for a screen already left.  In the same way  *)
(* a profile screen draws from the static profileUser when it appears, and *)
(* its buttons act on that static.                                         *)
(*                                                                         *)
(* createPost gives the post of a user the ID of the user: a user has one  *)
(* post at most, and here they have one name.                              *)
(*                                                                         *)
(* A screen asks for data as it is pushed; nothing else runs on the main   *)
(* thread between the tap that pushes it and its viewDidLoad.              *)
(***************************************************************************)
EXTENDS Naturals, Sequences, FiniteSets

CONSTANTS
  Users,
  Me,          \* who is signed in
  None,        \* nil
  Blank,       \* the post that fetchPost makes of a missing document
  MaxScreens,  \* bound: screens opened, counting the feed of each start
  MaxCrashes   \* bound: exceptions

ASSUME UsersAssumption ==
  /\ Me \in Users
  /\ None \notin Users
  /\ Blank \notin Users \cup {None}

ASSUME BoundsAssumption == MaxScreens \in Nat /\ MaxCrashes \in Nat

VARIABLES
  docs,         \* server: the posts
  currentPost,  \* static of PostViewController
  editing,      \* static postID of EditPostViewController
  profileUser,  \* static of ProfileViewController
  stack,        \* the screens on the navigation stack
  opened,       \* how many there have been
  requests,     \* fetches under way
  crashes

statics == <<currentPost, editing, profileUser>>
vars == <<docs, statics, stack, opened, requests, crashes>>

----------------------------------------------------------------------------
Contents == Users \cup {None, Blank}

\* own: the post, or the user whose posts are listed.  shown: the post drawn, or the
\* user named.  user: postUser, or loggedInUser.  button: a picture may be picked.
\* mixed: history, the static was set for another screen since it was for this one.
Screens == [id : Nat, kind : {"feed", "post", "edit", "profile"}, own : Contents,
            shown : Contents, user : Contents, button : BOOLEAN, mixed : BOOLEAN]

Screen(n, kind, own, shown) ==
  [id |-> n, kind |-> kind, own |-> own, shown |-> shown, user |-> None,
   button |-> FALSE, mixed |-> FALSE]

Feed == Screen(1, "feed", None, None)

Requests == [kind : {"post", "author", "me", "logged"}, of : Contents, screen : Nat]

Ask(kind, u, n) == [kind |-> kind, of |-> u, screen |-> n]

InFront == stack[Len(stack)]

New == opened + 1

Places(n) == {i \in DOMAIN stack : stack[i].id = n}

Push(s, x) ==
  /\ opened < MaxScreens
  /\ opened' = New
  /\ stack' = Append(s, x)

\* Fault: the screen is not drawn again.
AsLeft(s, user) == s

\* Fault: the button is there once it is known who is signed in.
Known(user, loggedIn) == loggedIn # None

MayPick(user, loggedIn) == user = loggedIn

\* viewWillAppear of a profile draws it again, from the static.
Appearing(s, user) ==
  IF s.kind = "profile" /\ user # None
    THEN [s EXCEPT !.shown = user, !.button = MayPick(user, s.user), !.mixed = FALSE]
    ELSE s

\* Of the requests of a screen left, those that set a static still matter.
Pop ==
  LET n == Len(stack) - 1
  IN /\ stack' = [i \in 1 .. n |-> IF i = n THEN Appearing(stack[n], profileUser)
                                           ELSE stack[i]]
     /\ requests' = {r \in requests : r.screen = InFront.id => r.kind \in {"post", "me"}}

\* History: post screens of another post than p, now that the static is p.
Mixed(s, p) ==
  [i \in DOMAIN s |-> IF s[i].kind = "post" /\ s[i].own # p
                        THEN [s[i] EXCEPT !.mixed = TRUE] ELSE s[i]]

\* History: edit screens lower down, now that the static is another.
Edited == [i \in DOMAIN stack |->
  IF stack[i].kind = "edit" THEN [stack[i] EXCEPT !.mixed = TRUE] ELSE stack[i]]

----------------------------------------------------------------------------
Init ==
  /\ docs = Users
  /\ currentPost = None
  /\ editing = None
  /\ profileUser = None
  /\ stack = <<Feed>>
  /\ opened = 1
  /\ requests = {}
  /\ crashes = 0

----------------------------------------------------------------------------
(* Opening screens.                                                        *)

\* A row may hold a post deleted since, or one that was deleted while it was
\* fetched and has no ID.
Rows ==
  (IF InFront.kind = "feed" THEN Users
     ELSE IF InFront.kind = "profile" THEN {InFront.own} ELSE {})
  \cup (IF InFront.kind \in {"feed", "profile"} /\ docs # Users THEN {Blank} ELSE {})

\* Fault: viewDidLoad reads the static before the tap has set it.
Former(p) == currentPost

Tapped(p) == p

OpenPost(p) ==
  /\ p \in Rows \ {Blank}
  /\ currentPost' = p
  /\ Push(Mixed(stack, p), Screen(New, "post", Tapped(p), p))
  /\ requests' = requests \cup {Ask("post", Tapped(p), New), Ask("author", p, New)}
  /\ UNCHANGED <<docs, editing, profileUser, crashes>>

\* The app starts again.
Crash ==
  /\ crashes < MaxCrashes
  /\ crashes' = crashes + 1
  /\ currentPost' = None
  /\ editing' = None
  /\ profileUser' = None
  /\ stack' = <<Feed>>
  /\ opened' = New
  /\ requests' = {}
  /\ UNCHANGED docs

\* The author of a post without an ID has none either: document("") raises.
CrashOnBlank ==
  /\ Blank \in Rows
  /\ Crash

\* A profile is drawn before it knows who is signed in.
PushProfile(u, pending) ==
  /\ Push(stack, Screen(New, "profile", u, u))
  /\ requests' = pending \cup {Ask("logged", Me, New)}

OpenAuthor ==
  /\ InFront.kind = "post"
  /\ InFront.user # None
  /\ profileUser' = InFront.user
  /\ PushProfile(InFront.user, requests)
  /\ UNCHANGED <<docs, currentPost, editing, crashes>>

\* fetchPosts unwraps the static, which is nil until the author has come.
CrashOnNoAuthor ==
  /\ InFront.kind = "post"
  /\ InFront.user = None
  /\ Crash

\* From the feed, My Profile shows whoever was looked at last.
OpenMine ==
  /\ InFront.kind = "feed"
  /\ profileUser # None
  /\ PushProfile(profileUser, requests)
  /\ UNCHANGED <<docs, statics, crashes>>

CrashOnNoOne ==
  /\ InFront.kind = "feed"
  /\ profileUser = None
  /\ Crash

\* From a post, My Profile asks who that is.
AskMe ==
  /\ InFront.kind = "post"
  /\ requests' = requests \cup {Ask("me", Me, InFront.id)}
  /\ UNCHANGED <<docs, statics, stack, opened, crashes>>

Back ==
  /\ Len(stack) > 1
  /\ Pop
  /\ UNCHANGED <<docs, statics, opened, crashes>>

----------------------------------------------------------------------------
(* Answers.                                                                *)

AnswerPost(r) ==
  /\ r.kind = "post"
  /\ requests' = requests \ {r}
  /\ currentPost' = IF r.of \in docs THEN r.of ELSE Blank
  /\ stack' = Mixed(stack, r.of)
  /\ UNCHANGED <<docs, editing, profileUser, opened, crashes>>

AnswerAuthor(r) ==
  /\ r.kind = "author"
  /\ requests' = requests \ {r}
  /\ \E i \in Places(r.screen) :
       stack' = [stack EXCEPT ![i].user = r.of, ![i].shown = currentPost]
  /\ UNCHANGED <<docs, statics, opened, crashes>>

\* Comments come, or the picture of the author, which is then fetched again.
Redraw(i) ==
  /\ stack[i].kind = "post"
  /\ stack' = [stack EXCEPT ![i].shown = currentPost]
  /\ UNCHANGED <<docs, statics, opened, requests, crashes>>

\* The profile is pushed over whatever is in front by then, unless the screen it was
\* asked from has been left.
AnswerMe(r) ==
  /\ r.kind = "me"
  /\ profileUser' = Me
  /\ IF Places(r.screen) # {}
       THEN PushProfile(Me, requests \ {r})
       ELSE /\ stack' = [stack EXCEPT ![Len(stack)].mixed =
                           @ \/ InFront.kind = "profile"]
            /\ requests' = requests \ {r}
            /\ UNCHANGED opened
  /\ UNCHANGED <<docs, currentPost, editing, crashes>>

AnswerLogged(r) ==
  /\ r.kind = "logged"
  /\ requests' = requests \ {r}
  /\ \E i \in Places(r.screen) : stack' = [stack EXCEPT ![i].user = Me]
  /\ UNCHANGED <<docs, statics, opened, crashes>>

\* An error, or a user document that is missing: nobody is told.
Fail(r) ==
  /\ requests' = requests \ {r}
  /\ UNCHANGED <<docs, statics, stack, opened, crashes>>

----------------------------------------------------------------------------
(* What the user does on a screen, and on another device.                  *)

DeletePost ==
  /\ InFront.kind = "post"
  /\ docs' = docs \ {InFront.own}
  /\ Pop
  /\ UNCHANGED <<statics, opened, crashes>>

DeleteElsewhere(p) ==
  /\ p \in docs
  /\ docs' = docs \ {p}
  /\ UNCHANGED <<statics, stack, opened, requests, crashes>>

\* Fault: Edit leaves the static as the menu has set it.
AsMenuLeft(s) == currentPost

PostOf(s) == s.own

\* The menu sets the static to the current post, whatever is then chosen.
OpenMenu ==
  /\ InFront.kind = "post"
  /\ editing' = currentPost
  /\ stack' = Edited
  /\ UNCHANGED <<docs, currentPost, profileUser, opened, requests, crashes>>

\* Edit sets it to the post of the screen.
OpenEdit ==
  /\ InFront.kind = "post"
  /\ editing' = PostOf(InFront)
  /\ Push(Edited, Screen(New, "edit", InFront.own, None))
  /\ UNCHANGED <<docs, currentPost, profileUser, requests, crashes>>

\* The post named by the static is updated.
SaveEdit ==
  /\ InFront.kind = "edit"
  /\ Pop
  /\ UNCHANGED <<docs, statics, opened, crashes>>

----------------------------------------------------------------------------
Next ==
  \/ \E p \in Users : OpenPost(p) \/ DeleteElsewhere(p)
  \/ CrashOnBlank
  \/ OpenAuthor
  \/ CrashOnNoAuthor
  \/ OpenMine
  \/ CrashOnNoOne
  \/ AskMe
  \/ Back
  \/ \E r \in requests :
       AnswerPost(r) \/ AnswerAuthor(r) \/ AnswerMe(r) \/ AnswerLogged(r)
         \/ Fail(r)
  \/ \E i \in DOMAIN stack : Redraw(i)
  \/ DeletePost
  \/ OpenMenu
  \/ OpenEdit
  \/ SaveEdit

Spec == Init /\ [][Next]_vars

----------------------------------------------------------------------------
(* Properties.                                                             *)

TypeOK ==
  /\ docs \subseteq Users
  /\ currentPost \in Contents
  /\ editing \in Contents
  /\ profileUser \in Contents
  /\ stack \in Seq(Screens) \ {<<>>}
  /\ opened \in Nat
  /\ requests \subseteq Requests
  /\ crashes \in Nat

\* A post screen draws its own post, or nothing once that is deleted, as long as no
\* other post has been opened over it and no answer for another screen has come
\* (updateViews draws the static currentPost).
ShowsOwn ==
  \A i \in DOMAIN stack :
    LET s == stack[i]
    IN (s.kind = "post" /\ ~s.mixed) =>
         s.shown = s.own \/ (s.shown = Blank /\ s.own \notin docs)

\* An edit screen saves to the post whose screen it was opened from, however that
\* menu and answers of other screens have set statics before, unless a profile came
\* over it late and the menu of another post was opened there
\* (EditPostViewController.postID, set twice by editPostBtn).
EditsOpened ==
  (InFront.kind = "edit" /\ ~InFront.mixed) => editing = InFront.own

\* Block and Add Friend take the user whose name is on the screen, however many
\* profiles and posts were opened and left, unless My Profile was asked for on a
\* post screen that was left before the answer came (blockBtn takes the static,
\* viewWillAppear draws it).
ActsOnShown ==
  (InFront.kind = "profile" /\ ~InFront.mixed) => profileUser = InFront.shown

\* A picture, which goes to whoever is signed in, can be picked only under one's own
\* name, although the button is set from two answers that come apart
\* (updateProfilePicture).
PictureIsMine ==
  (InFront.kind = "profile" /\ InFront.button) => InFront.shown = Me
=============================================================================
