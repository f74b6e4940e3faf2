------------------------------ MODULE Accounts ------------------------------
(***************************************************************************)
(* Signing up, signing in, and the two documents of a user.                *)
(*                                                                         *)
(* Signing up leads over four forms.  The first one starts a check of the  *)
(* user name and does not wait for it; the last one asks Auth for an       *)
(* account and, in the same breath, writes the friends list of whoever is  *)
(* signed in at that moment.  When Auth answers, the new user is signed in *)
(* and the user document is written.  Firestore keeps the writes of each   *)
(* signed-in user apart, and sends those of the present one.               *)
(*                                                                         *)
(* Signed in, a user may add and block others: FriendsListModelController  *)
(* writes the lists of the user who was signed in when it was first used.  *)
(***************************************************************************)
EXTENDS Naturals, Sequences, FiniteSets

CONSTANTS
  Devices,
  Uids,         \* the accounts there may be
  Words,        \* user names without the blanks around them, in small letters
  NoDoc,        \* there is no such document
  Nobody,       \* no one is signed in; a request without an account
  Budgets       \* bounds: the devices in use, the users who have both their documents
                \* from the beginning, whether names may have blanks around them, and
                \* how often the first form is filled in, someone signs in, Add Friend
                \* or Block is tapped, and an app is ended; a behaviour has one of these

ASSUME ConstantsAssumption ==
  /\ NoDoc \notin [word : Words, blank : BOOLEAN]
  /\ NoDoc \notin [blocked : SUBSET Uids, added : BOOLEAN]
  /\ Nobody \notin Uids
  /\ IsFiniteSet(Uids)

ASSUME BudgetsAssumption ==
  Budgets \subseteq [devices : SUBSET Devices, members : SUBSET Uids,
                     blanks : SUBSET BOOLEAN, forms : Nat, sessions : Nat,
                     lists : Nat, kills : Nat]

VARIABLES
  accounts,  \* Auth: the accounts there are
  maker,     \* history: the form that made each account, 0 for none
  users,     \* server: the user name in each users/{uid}
  friends,   \* server: each friends/{uid}
  queue,     \* per device and user: writes the server has not taken
  session,   \* per device: who is signed in
  stack,     \* per device: the screens
  typed,     \* per device: the form whose contents are handed on
  forms,     \* the forms filled in so far, with their checks
  signups,   \* createUser requests
  logins,    \* signInUser requests
  blocks,    \* requests of blockUser
  listed,    \* per device: loggedInUserID, once there is a FriendsListModelController
  asked,     \* history: <<u, t>>: signed in as u, someone tapped Block on t
  stale,     \* history: users whose lists were about to be written for another
  wiped,     \* history: users signed in at some createUser
  stood,     \* history: <<u, t>>: t has been in the blocked list of u
  left       \* what is left of the budget

server == <<accounts, maker, users, friends, stood>>
requests == <<signups, logins, blocks>>
friendly == <<listed, asked, stale>>
vars == <<server, queue, session, stack, typed, forms, requests, friendly,
          wiped, left>>

----------------------------------------------------------------------------
\* A name as it was typed: the word may have blanks around it.
Names == [word : Words, blank : BOOLEAN]

Screens == {"login", "personal", "email", "password", "final", "feed"}

\* check: how far usernameIsAvaliable has come.  open: the form is in the stack.
\* inTime: history, answered while the next form was in front; docs: history, the
\* users it looked at.  lost: history, the app was ended after it.
Forms == [device : Devices, name : Names, check : {"asked", "free", "taken", "over"},
          open : BOOLEAN, inTime : BOOLEAN, docs : SUBSET Uids, lost : BOOLEAN]

Writes == [op : {"user", "base", "add", "block"}, uid : Uids, form : Nat,
           target : Uids \cup {Nobody}]

Write(op, u, f, t) == [op |-> op, uid |-> u, form |-> f, target |-> t]

\* The write goes to the queue of the user who is signed in, or of no one.
Issue(d, w) == queue' = [queue EXCEPT ![d][session[d]] = Append(@, w)]

Top(d) == stack[d][Len(stack[d])]

Popped(s) == IF Len(s) > 1 THEN SubSeq(s, 1, Len(s) - 1) ELSE s

Holds(s, x) == \E i \in DOMAIN s : s[i] = x

\* Forms f of device d, once its stack is s.
Closed(d, f, s) ==
  [i \in DOMAIN f |-> IF f[i].device = d
     THEN [f[i] EXCEPT !.open = @ /\ Holds(s, "personal")] ELSE f[i]]

Show(d, s) ==
  /\ stack' = [stack EXCEPT ![d] = s]
  /\ forms' = Closed(d, forms, s)

SignUps == [device : Devices, form : Nat, uid : Uids \cup {Nobody},
            state : {"sent", "made", "signedIn", "orphan"}]

\* What is asked for a list: to block a target, or only to check it.
Blocks == [device : Devices, uid : Uids, target : Uids \cup {Nobody}]

----------------------------------------------------------------------------
Init ==
  /\ left \in Budgets
  /\ accounts = left.members
  /\ maker = [u \in Uids |-> 0]
  /\ \E name \in [left.members -> [word : Words, blank : left.blanks]] :
       users = [u \in Uids |-> IF u \in left.members THEN name[u] ELSE NoDoc]
  /\ friends = [u \in Uids |-> IF u \in left.members
                  THEN [blocked |-> {}, added |-> FALSE] ELSE NoDoc]
  /\ queue = [d \in Devices |-> [u \in Uids \cup {Nobody} |-> <<>>]]
  /\ session \in [Devices -> left.members \cup {Nobody}]
  /\ stack = [d \in Devices |-> <<"login">>]
  /\ typed = [d \in Devices |-> 0]
  /\ forms = <<>>
  /\ signups = {}
  /\ logins = {}
  /\ blocks = {}
  /\ listed = [d \in Devices |-> Nobody]
  /\ asked = {}
  /\ stale = {}
  /\ wiped = {}
  /\ stood = {}
  /\ \A d \in Devices \ left.devices : session[d] = Nobody

----------------------------------------------------------------------------
(* The forms.                                                              *)

ToPersonal(d) ==
  /\ Top(d) = "login"
  /\ left.forms > 0
  /\ Show(d, Append(stack[d], "personal"))
  /\ UNCHANGED <<server, queue, session, typed, requests, friendly, wiped, left>>

\* validatePersonalInformation starts the check and returns true at once.
ToEmail(d, n) ==
  /\ Top(d) = "personal"
  /\ n.blank \in left.blanks
  /\ left.forms > 0
  /\ left' = [left EXCEPT !.forms = @ - 1]
  /\ forms' = Append(forms, [device |-> d, name |-> n, check |-> "asked",
                             open |-> TRUE, inTime |-> FALSE, docs |-> {},
                             lost |-> FALSE])
  /\ typed' = [typed EXCEPT ![d] = Len(forms) + 1]
  /\ stack' = [stack EXCEPT ![d] = Append(@, "email")]
  /\ UNCHANGED <<server, queue, session, requests, friendly, wiped>>

ToPassword(d) ==
  /\ Top(d) = "email"
  /\ Show(d, Append(stack[d], "password"))
  /\ UNCHANGED <<server, queue, session, typed, requests, friendly, wiped, left>>

ToFinal(d) ==
  /\ Top(d) = "password"
  /\ Show(d, Append(stack[d], "final"))
  /\ UNCHANGED <<server, queue, session, typed, requests, friendly, wiped, left>>

GoBack(d) ==
  /\ Top(d) \in {"personal", "email", "password", "final"}
  /\ Show(d, Popped(stack[d]))
  /\ UNCHANGED <<server, queue, session, typed, requests, friendly, wiped, left>>

\* What is compared: the typed name without blanks, the stored one as it is.
Same(name, stored) == name.word = stored.word /\ ~stored.blank

\* usernameIsAvaliable reads all user documents.
LookAtNames(f) ==
  /\ forms[f].check = "asked"
  /\ ~forms[f].lost
  /\ LET seen == {u \in Uids : users[u] # NoDoc}
     IN forms' = [forms EXCEPT
          ![f].docs = seen,
          ![f].check = IF \E u \in seen : Same(forms[f].name, users[u])
                         THEN "taken" ELSE "free"]
  /\ UNCHANGED <<server, queue, session, stack, typed, requests, friendly, wiped,
                 left>>

\* Fault: a refusal only shows an alert.
StaysInFront(f, s) == s

\* A refusal pops the screen in front, if the form is still below it.
PopsInFront(f, s) ==
  IF forms[f].check = "taken" /\ forms[f].open THEN Popped(s) ELSE s

AnswerCheck(f) ==
  /\ forms[f].check \in {"free", "taken"}
  /\ ~forms[f].lost
  /\ LET d == forms[f].device
         s == PopsInFront(f, stack[d])
     IN /\ stack' = [stack EXCEPT ![d] = s]
        /\ forms' = Closed(d, [forms EXCEPT
             ![f].check = "over",
             ![f].inTime = Top(d) = "email" /\ typed[d] = f], s)
  /\ UNCHANGED <<server, queue, session, typed, requests, friendly, wiped, left>>

\* createUser without a session: Auth has been asked, perhaps, when uid! raises.
\* The app starts again at the login screen.
Restarted(d, f) ==
  [i \in DOMAIN f |-> IF f[i].device = d
     THEN [f[i] EXCEPT !.lost = TRUE, !.open = FALSE] ELSE f[i]]

Restart(d, pending) ==
  /\ stack' = [stack EXCEPT ![d] = <<"login">>]
  /\ typed' = [typed EXCEPT ![d] = 0]
  /\ forms' = Restarted(d, forms)
  /\ signups' = {[r EXCEPT !.state = "orphan"] :
                   r \in {q \in pending : q.device = d /\ q.state \in {"sent", "orphan"}}}
                \cup {r \in pending : r.device # d}
  /\ logins' = {r \in logins : r[1] # d}
  /\ blocks' = {r \in blocks : r.device # d}
  /\ listed' = [listed EXCEPT ![d] = Nobody]

SignUp(d) == [device |-> d, form |-> typed[d], uid |-> Nobody, state |-> "sent"]

CrashOnNoSession(d) ==
  /\ Top(d) = "final"
  /\ session[d] = Nobody
  /\ left.kills > 0
  /\ left' = [left EXCEPT !.kills = @ - 1]
  /\ \/ Restart(d, signups \cup {SignUp(d)})
     \/ Restart(d, signups)
  /\ UNCHANGED <<server, queue, session, asked, stale, wiped>>

\* The friends list it writes is that of whoever is signed in.
CreateUser(d) ==
  /\ Top(d) = "final"
  /\ session[d] # Nobody
  /\ signups' = signups \cup {SignUp(d)}
  /\ Issue(d, Write("base", session[d], typed[d], Nobody))
  /\ wiped' = wiped \cup {session[d]}
  /\ Show(d, <<"login">>)
  /\ UNCHANGED <<server, session, typed, logins, blocks, friendly, left>>

----------------------------------------------------------------------------
(* Auth.                                                                   *)

\* An account is made for the request, or the e-mail address is in use.
MakeAccount(r) ==
  /\ r.state \in {"sent", "orphan"}
  /\ \/ \E u \in Uids \ accounts :
          /\ accounts' = accounts \cup {u}
          /\ maker' = [maker EXCEPT ![u] = r.form]
          /\ signups' = (signups \ {r}) \cup
               (IF r.state = "orphan" THEN {}
                  ELSE {[r EXCEPT !.uid = u, !.state = "made"]})
     \/ /\ signups' = signups \ {r}
        /\ UNCHANGED <<accounts, maker>>
  /\ UNCHANGED <<users, friends, stood, queue, session, stack, typed, forms, logins,
                 blocks, friendly, wiped, left>>

\* The new user is signed in, whoever was so before.
SignInNew(r) ==
  /\ r.state = "made"
  /\ session' = [session EXCEPT ![r.device] = r.uid]
  /\ signups' = (signups \ {r}) \cup {[r EXCEPT !.state = "signedIn"]}
  /\ UNCHANGED <<server, queue, stack, typed, forms, logins, blocks, friendly,
                 wiped, left>>

\* Fault: the closure asks who is signed in instead of its result.
SignedInNow(r) == session[r.device]

ResultUser(r) == r.uid

\* The closure of createUser.
UserCreated(r) ==
  /\ r.state = "signedIn"
  /\ Issue(r.device, Write("user", ResultUser(r), r.form, Nobody))
  /\ signups' = signups \ {r}
  /\ UNCHANGED <<server, session, stack, typed, forms, logins, blocks, friendly,
                 wiped, left>>

AskLogin(d, u) ==
  /\ Top(d) = "login"
  /\ u \in accounts
  /\ left.sessions > 0
  /\ left' = [left EXCEPT !.sessions = @ - 1]
  /\ logins' = logins \cup {<<d, u>>}
  /\ UNCHANGED <<server, queue, session, stack, typed, forms, signups, blocks,
                 friendly, wiped>>

\* Whatever screen is in front by then gives way to the feed.
SignIn(d, u) ==
  /\ <<d, u>> \in logins
  /\ logins' = logins \ {<<d, u>>}
  /\ session' = [session EXCEPT ![d] = u]
  /\ Show(d, Append(Popped(stack[d]), "feed"))
  /\ UNCHANGED <<server, queue, typed, signups, blocks, friendly, wiped, left>>

SignOut(d) ==
  /\ Top(d) = "feed"
  /\ session' = [session EXCEPT ![d] = Nobody]
  /\ Show(d, <<"login">>)
  /\ UNCHANGED <<server, queue, typed, requests, friendly, wiped, left>>

\* The system ends the app; sessions and queued writes are kept.
Kill(d) ==
  /\ left.kills > 0
  /\ left' = [left EXCEPT !.kills = @ - 1]
  /\ Restart(d, signups)
  /\ UNCHANGED <<server, queue, session, asked, stale, wiped>>

----------------------------------------------------------------------------
(* FriendsListModelController.                                             *)

\* loggedInUserID: who was signed in when the one instance was made.
ListOwner(d) == IF listed[d] = Nobody THEN session[d] ELSE listed[d]

UseLists(d) ==
  /\ Top(d) = "feed"
  /\ session[d] # Nobody
  /\ left.lists > 0
  /\ left' = [left EXCEPT !.lists = @ - 1]
  /\ listed' = [listed EXCEPT ![d] = ListOwner(d)]
  /\ stale' = IF ListOwner(d) = session[d] THEN stale ELSE stale \cup {ListOwner(d)}

\* checkForBlockedUser only starts a request; the friend is added whatever it
\* will answer, and is the same constant for everyone.
AddFriend(d) ==
  /\ UseLists(d)
  /\ blocks' = blocks \cup {[device |-> d, uid |-> ListOwner(d), target |-> Nobody]}
  /\ Issue(d, Write("add", ListOwner(d), 0, Nobody))
  /\ UNCHANGED <<server, session, stack, typed, forms, signups, logins, asked, wiped>>

Block(d, t) ==
  /\ UseLists(d)
  /\ users[t] # NoDoc
  /\ blocks' = blocks \cup {[device |-> d, uid |-> ListOwner(d), target |-> t]}
  /\ asked' = asked \cup {<<session[d], t>>}
  /\ UNCHANGED <<server, queue, session, stack, typed, forms, signups, logins,
                 wiped>>

\* Fault: the list of whoever is signed in when fetchUserData answers.
ListNow(r) ==
  IF session[r.device] = Nobody THEN r.uid ELSE session[r.device]

ListOf(r) == r.uid

\* The closure of fetchUserData; without a user document there is none.
BlockFetched(r) ==
  /\ r.target # Nobody
  /\ IF users[r.uid] # NoDoc
       THEN Issue(r.device, Write("block", ListOf(r), 0, r.target))
       ELSE UNCHANGED queue
  /\ blocks' = blocks \ {r}
  /\ UNCHANGED <<server, session, stack, typed, forms, signups, logins, friendly,
                 wiped, left>>

\* The closure of fetchFriends in checkForBlockedUser looks for the owner of the
\* list, and means to show a storyboard that does not exist.
OwnerBlocked(r) == friends[r.uid] # NoDoc /\ r.uid \in friends[r.uid].blocked

CheckFetched(r) ==
  /\ r.target = Nobody
  /\ ~OwnerBlocked(r)
  /\ blocks' = blocks \ {r}
  /\ UNCHANGED <<server, queue, session, stack, typed, forms, signups, logins,
                 friendly, wiped, left>>

CrashOnBlocked(r) ==
  /\ r.target = Nobody
  /\ OwnerBlocked(r)
  /\ left.kills > 0
  /\ left' = [left EXCEPT !.kills = @ - 1]
  /\ Restart(r.device, signups)
  /\ UNCHANGED <<server, queue, session, asked, stale, wiped>>

----------------------------------------------------------------------------
(* The server takes the writes of the user who is signed in, in order.     *)

NextWrite(d) == Head(queue[d][session[d]])

CanServe(d, op) ==
  /\ queue[d][session[d]] # <<>>
  /\ NextWrite(d).op = op

Served(d) ==
  /\ queue' = [queue EXCEPT ![d][session[d]] = Tail(@)]
  /\ UNCHANGED <<session, stack, typed, forms, requests, friendly, wiped, left>>

ServeUser(d) ==
  /\ CanServe(d, "user")
  /\ LET w == NextWrite(d)
     IN users' = [users EXCEPT ![w.uid] = forms[w.form].name]
  /\ Served(d)
  /\ UNCHANGED <<accounts, maker, friends, stood>>

\* setData: the lists are empty again.
ServeBase(d) ==
  /\ CanServe(d, "base")
  /\ friends' = [friends EXCEPT
                   ![NextWrite(d).uid] = [blocked |-> {}, added |-> FALSE]]
  /\ Served(d)
  /\ UNCHANGED <<accounts, maker, users, stood>>

\* updateData does nothing to a missing document.
ServeAdd(d) ==
  /\ CanServe(d, "add")
  /\ LET u == NextWrite(d).uid
     IN friends' = IF friends[u] = NoDoc THEN friends
                     ELSE [friends EXCEPT ![u].added = TRUE]
  /\ Served(d)
  /\ UNCHANGED <<accounts, maker, users, stood>>

\* Fault: the list is written anew instead of united with one more.
OnlyNew(old, t) == {t}

Union(old, t) == old \cup {t}

ServeBlock(d) ==
  /\ CanServe(d, "block")
  /\ LET u == NextWrite(d).uid
         t == NextWrite(d).target
     IN IF friends[u] = NoDoc THEN UNCHANGED <<friends, stood>>
        ELSE /\ friends' = [friends EXCEPT ![u].blocked = Union(@, t)]
             /\ stood' = stood \cup {<<u, t>>}
  /\ Served(d)
  /\ UNCHANGED <<accounts, maker, users>>

Serve(d) == ServeUser(d) \/ ServeBase(d) \/ ServeAdd(d) \/ ServeBlock(d)

CreateSome == \E r \in signups : MakeAccount(r) \/ SignInNew(r) \/ UserCreated(r)

----------------------------------------------------------------------------
Next ==
  \/ \E d \in left.devices :
       \/ ToPersonal(d)
       \/ \E n \in Names : ToEmail(d, n)
       \/ ToPassword(d)
       \/ ToFinal(d)
       \/ GoBack(d)
       \/ CrashOnNoSession(d)
       \/ CreateUser(d)
       \/ \E u \in Uids : AskLogin(d, u) \/ SignIn(d, u) \/ Block(d, u)
       \/ SignOut(d)
       \/ Kill(d)
       \/ AddFriend(d)
       \/ Serve(d)
  \/ \E f \in DOMAIN forms : LookAtNames(f) \/ AnswerCheck(f)
  \/ CreateSome
  \/ \E r \in blocks : BlockFetched(r) \/ CheckFetched(r) \/ CrashOnBlocked(r)

Spec == Init /\ [][Next]_vars

\* Auth answers, the main queue runs, and Firestore sends what it has queued.
FairSpec == Spec /\ WF_vars(CreateSome) /\ \A d \in Devices : WF_vars(Serve(d))

----------------------------------------------------------------------------
(* Properties.                                                             *)

TypeOK ==
  /\ accounts \subseteq Uids
  /\ maker \in [Uids -> Nat]
  /\ users \in [Uids -> Names \cup {NoDoc}]
  /\ friends \in [Uids -> [blocked : SUBSET Uids, added : BOOLEAN] \cup {NoDoc}]
  /\ queue \in [Devices -> [Uids \cup {Nobody} -> Seq(Writes)]]
  /\ session \in [Devices -> Uids \cup {Nobody}]
  /\ stack \in [Devices -> Seq(Screens)]
  /\ typed \in [Devices -> Nat]
  /\ forms \in Seq(Forms)
  /\ signups \subseteq SignUps
  /\ logins \subseteq Devices \X Uids
  /\ blocks \subseteq Blocks
  /\ listed \in [Devices -> Uids \cup {Nobody}]
  /\ asked \subseteq Uids \X Uids
  /\ stale \subseteq Uids
  /\ wiped \subseteq Uids
  /\ stood \subseteq Uids \X Uids
  /\ left \in [devices : SUBSET Devices, members : SUBSET Uids,
                blanks : SUBSET BOOLEAN, forms : Nat, sessions : Nat, lists : Nat,
                kills : Nat]

\* A name that was taken when it was looked up makes no account, provided the
\* answer finds the next form in front: only answers that come later, and names
\* written after the look, let two users have one name (usernameIsAvaliable and
\* the popViewController of its closure).
TakenIsRefused ==
  \A u \in Uids : maker[u] # 0 =>
    LET f == forms[maker[u]]
    IN f.inTime => \A v \in f.docs :
                     ~(users[v].word = f.name.word /\ ~users[v].blank)

\* A user document is written once, for the account that its sign-up made, with
\* the name that was typed for it, whoever is signed in by then (createUser).
OwnDocument ==
  [][\A u \in Uids : users'[u] # users[u] =>
       /\ users[u] = NoDoc
       /\ maker[u] # 0
       /\ users'[u] = forms[maker[u]].name]_vars

\* The user document of u is on its way: a sign-up goes on to the closure that writes
\* it, or its write is in a queue, of whatever user.
Carried(u) ==
  \/ \E r \in signups : r.uid = u
  \/ \E d \in Devices : \E v \in Uids \cup {Nobody} : \E i \in DOMAIN queue[d][v] :
       queue[d][v][i].op = "user" /\ queue[d][v][i].uid = u

\* No account is without its document unless that is on its way, or the app was ended
\* after the form was filled in: no step of another user, another sign-up or another
\* write makes the way of a document end before it is written (createUser, its closure
\* and the queue of the user who was signed in there).
DocumentComing ==
  \A u \in accounts : users[u] = NoDoc =>
    Carried(u) \/ (maker[u] # 0 /\ forms[maker[u]].lost)

\* Every account gets its user document, unless the app is ended before the
\* closure of createUser, or the write waits in the queue of a user who is not
\* signed in.
GetsDocument ==
  \A u \in Uids : u \in accounts ~>
    \/ users[u] # NoDoc
    \/ maker[u] # 0 /\ forms[maker[u]].lost
    \/ \E d \in Devices : \E v \in (Uids \cup {Nobody}) \ {session[d]} :
         \E i \in DOMAIN queue[d][v] : queue[d][v][i].op = "user"
                                      /\ queue[d][v][i].uid = u

\* Who is blocked stays blocked, whatever two devices of one user write, unless
\* someone signs up where that user is signed in (the setData of createUser).
BlockedStay ==
  \A e \in stood :
    \/ e[1] \in wiped
    \/ friends[e[1]] # NoDoc /\ e[2] \in friends[e[1]].blocked

\* A list holds only users whom its owner blocked, even when someone else signs
\* in before the write; except for a user in whose name an instance went on
\* writing in the session of another (loggedInUserID is read once).
OwnLists ==
  \A u \in Uids \ stale : friends[u] # NoDoc =>
    \A t \in friends[u].blocked : <<u, t>> \in asked

\* "This creates the base user's friends list": once everything is written, each
\* user has one.
HasFriendsList ==
  (/\ signups = {}
   /\ \A d \in Devices : \A u \in Uids \cup {Nobody} : queue[d][u] = <<>>)
  => \A u \in Uids : users[u] # NoDoc => friends[u] # NoDoc
============================================================================
