--------------------------- MODULE Conversations ---------------------------
(***************************************************************************)
(* Conversations: how one is written, listed and read.                     *)
(*                                                                         *)
(* A conversation is a document of its own, one document per member, and   *)
(* an entry in the conversationsID of every member: each a write of its    *)
(* own.  The list screen asks for its user and then listens to all the     *)
(* conversations there are, keeping those in the conversationsID the user  *)
(* had when it asked; each visit adds one more listener, and all of them   *)
(* write the one array of the shared ConversationController.  A message    *)
(* screen listens to the messages of its conversation through another      *)
(* array shared by all screens.                                            *)
(*                                                                         *)
(* Every user has a device of the same name.  On each of them Firestore    *)
(* does in order, on a thread of its own, what the app asks of it; what it *)
(* has to tell waits on the main queue.                                    *)
(***************************************************************************)
EXTENDS Naturals, Sequences, FiniteSets

CONSTANTS
  Users,
  Followed,     \* those whose screens are modelled; the others only write
  Ids,          \* document IDs of conversations
  Budgets       \* bounds: the conversations of everyone that there are already, and
                \* how often one may be made, a message sent, a list asked for its
                \* user, and an app ended; a behaviour has one of these

ASSUME UsersAssumption == Followed \subseteq Users /\ IsFiniteSet(Users)

ASSUME IdsAssumption == Ids \subseteq Nat /\ IsFiniteSet(Ids)

ASSUME BudgetsAssumption ==
  Budgets \subseteq [old : SUBSET Ids, makes : Nat, messages : Nat, fetches : Nat,
                     kills : Nat]

VARIABLES
  convs,     \* server: the conversations
  members,   \* server: the userIDs of each
  lists,     \* server: the conversationsID of each user
  posted,    \* server: the messages
  known,     \* per device, cached: conversations
  heard,     \* per device, cached: conversationsID of its user
  got,       \* per device, cached: messages
  worker,    \* per device: what the app has asked of Firestore
  queue,     \* per device: writes stored there that the server has not taken
  made,      \* history: the conversations someone made
  picked,    \* history: whom each was made with
  sent,      \* history: the conversation of each message
  lost,      \* history: writes lost with an app before it had stored them
  main,      \* per device: blocks of the main queue
  fetches,   \* per device: requests for the current user under way, by screen
  signed,    \* per device: currentUser has been set
  listeners, \* per device: those of the conversations
  readers,   \* per device: those of messages
  shared,    \* per device: ConversationController.shared.conversations
  messages,  \* per device: ConversationController.shared.messages
  front,     \* per device: the kind of screen in front
  screens,   \* per device: screens opened since the app was started
  table,     \* per device: the rows of the list screen
  opened,    \* per device: the conversation of the message screen
  shown,     \* per device: what the message screen in front shows
  left       \* what is left of the budget

server == <<convs, members, lists, posted>>
cache == <<known, heard, got>>
history == <<made, picked, sent>>
list == <<signed, listeners, shared, table, fetches>>
talk == <<readers, messages, opened, shown>>
place == <<front, screens>>
vars == <<server, cache, worker, queue, history, lost, main, list, talk, place, left>>

----------------------------------------------------------------------------
None == 0

\* Screens are numbered by their kind as they are opened.
Kinds == {"list", "talk"}

Write(op, c, u, m) == [op |-> op, conv |-> c, user |-> u, message |-> m]
Listen(ids, n) == [op |-> "listen", ids |-> ids, screen |-> n]
Read(c, n) == [op |-> "read", conv |-> c, screen |-> n]

IsWrite(t) == t.op \notin {"listen", "read"}

Elements(s) == {s[i] : i \in DOMAIN s}

\* The numbers of S in their order, which is that of a query: by document ID.
Ordered(S) ==
  CHOOSE s \in [1 .. Cardinality(S) -> S] :
    \A i, j \in DOMAIN s : i < j => s[i] < s[j]

\* What a device sees at once: its cache and the writes it has stored.
Stored(u, op) == {w \in Elements(queue[u]) : w.op = op}

SeesConvs(u) == known[u] \cup {w.conv : w \in Stored(u, "conv")}

SeesList(u) == heard[u] \cup {w.conv : w \in {v \in Stored(u, "list") : v.user = u}}

SeesMessages(u, c) ==
  {m \in got[u] \cup {w.message : w \in Stored(u, "message")} : sent[m] = c}

\* What someone not followed writes is taken to be stored.
Ask(u, tasks) ==
  IF u \in Followed
    THEN worker' = [worker EXCEPT ![u] = @ \o tasks] /\ UNCHANGED queue
    ELSE queue' = [queue EXCEPT ![u] = @ \o tasks] /\ UNCHANGED worker

Block(kind, ids, docs, c, n) ==
  [kind |-> kind, ids |-> ids, docs |-> docs, conv |-> c, screen |-> n]

Reload(n) == Block("reload", {}, {}, None, n)

----------------------------------------------------------------------------
Init ==
  /\ left \in Budgets
  /\ convs = left.old
  /\ members = [c \in Ids |-> IF c \in left.old THEN Users ELSE {}]
  /\ lists = [u \in Users |-> left.old]
  /\ posted = {}
  /\ known = [u \in Users |-> {}]
  /\ heard = [u \in Users |-> {}]
  /\ got = [u \in Users |-> {}]
  /\ worker = [u \in Users |-> <<>>]
  /\ queue = [u \in Users |-> <<>>]
  /\ made = left.old
  /\ lost = {}
  /\ picked = members
  /\ sent = <<>>
  /\ main = [u \in Users |-> <<>>]
  /\ fetches = [u \in Users |-> <<>>]
  /\ signed = [u \in Users |-> FALSE]
  /\ listeners = [u \in Users |-> <<>>]
  /\ readers = [u \in Users |-> <<>>]
  /\ shared = [u \in Users |-> <<>>]
  /\ messages = [u \in Users |-> {}]
  /\ front = [u \in Users |-> "other"]
  /\ screens = [u \in Users |-> [k \in Kinds |-> 0]]
  /\ table = [u \in Users |-> <<>>]
  /\ opened = [u \in Users |-> None]
  /\ shown = [u \in Users |-> {}]

----------------------------------------------------------------------------
(* The thread of Firestore, and the server.                                *)

\* Fault: the last listener to come is the first to be told.
LastFirst(u, docs) ==
  LET n == Len(listeners[u])
  IN [i \in 1 .. n |-> Block("list", listeners[u][n + 1 - i].ids, docs, None,
                             listeners[u][n + 1 - i].screen)]

\* The listeners of one query are told together, in the order they came.
ToldLists(u, docs) ==
  [i \in DOMAIN listeners[u] |->
     Block("list", listeners[u][i].ids, docs, None, listeners[u][i].screen)]

TellLists(u, docs) == main' = [main EXCEPT ![u] = @ \o ToldLists(u, docs)]

\* Fault: messages are fetched once, and nobody listens.
NoReader(u, c) == <<>>

ReadersOf(u, c) ==
  LET order == Ordered({i \in DOMAIN readers[u] : readers[u][i].conv = c})
  IN [k \in DOMAIN order |-> readers[u][order[k]]]

TellReaders(u, c, docs) ==
  LET due == ReadersOf(u, c)
  IN main' = [main EXCEPT ![u] = @ \o
       [i \in DOMAIN due |-> Block("talk", {}, docs, c, due[i].screen)]]

Task(u) == Head(worker[u])

Takes(u, op) ==
  /\ worker[u] # <<>>
  /\ Task(u).op = op
  /\ worker' = [worker EXCEPT ![u] = Tail(@)]

\* A write is stored, and the listeners it concerns are told at once.
StoreWrite(u) ==
  /\ \/ Takes(u, "member") /\ UNCHANGED main
     \/ Takes(u, "list") /\ UNCHANGED main
     \/ Takes(u, "conv") /\ TellLists(u, SeesConvs(u) \cup {Task(u).conv})
     \/ Takes(u, "message") /\ TellReaders(u, Task(u).conv,
                                 SeesMessages(u, Task(u).conv) \cup {Task(u).message})
  /\ queue' = [queue EXCEPT ![u] = Append(@, Task(u))]
  /\ UNCHANGED <<server, cache, history, lost, list, talk, place, left>>

AddListener(u) ==
  /\ Takes(u, "listen")
  /\ LET t == Task(u)
     IN /\ listeners' = [listeners EXCEPT
                           ![u] = Append(@, [ids |-> t.ids, screen |-> t.screen])]
        /\ main' = [main EXCEPT
                      ![u] = Append(@, Block("list", t.ids, SeesConvs(u), None, t.screen))]
  /\ UNCHANGED <<server, cache, queue, history, lost, signed, shared, table, fetches,
                 talk, place, left>>

AddReader(u) ==
  /\ Takes(u, "read")
  /\ LET t == Task(u)
     IN /\ readers' = [readers EXCEPT
                         ![u] = Append(@, [conv |-> t.conv, screen |-> t.screen])]
        /\ main' = [main EXCEPT
             ![u] = Append(@, Block("talk", {}, SeesMessages(u, t.conv), t.conv, t.screen))]
  /\ UNCHANGED <<server, cache, queue, history, lost, list, messages, opened, shown,
                 place, left>>

Work(u) == StoreWrite(u) \/ AddListener(u) \/ AddReader(u)

\* The server takes the first write; the device then has its result cached.
Taken(u, op) == IF Head(queue[u]).op = op THEN {Head(queue[u])} ELSE {}

Serve(u) ==
  /\ queue[u] # <<>>
  /\ queue' = [queue EXCEPT ![u] = Tail(@)]
  /\ convs' = convs \cup {w.conv : w \in Taken(u, "conv")}
  /\ members' = [c \in Ids |-> members[c] \cup
                   {w.user : w \in {v \in Taken(u, "member") : v.conv = c}}]
  /\ lists' = [v \in Users |-> lists[v] \cup
                 {w.conv : w \in {x \in Taken(u, "list") : x.user = v}}]
  /\ posted' = posted \cup {w.message : w \in Taken(u, "message")}
  /\ known' = [known EXCEPT ![u] = @ \cup {w.conv : w \in Taken(u, "conv")}]
  /\ heard' = [heard EXCEPT ![u] = @ \cup
                 {w.conv : w \in {x \in Taken(u, "list") : x.user = u}}]
  /\ got' = [got EXCEPT ![u] = @ \cup {w.message : w \in Taken(u, "message")}]
  /\ UNCHANGED <<worker, history, lost, main, list, talk, place, left>>

HearConvs(u) ==
  /\ listeners[u] # <<>>
  /\ ~(convs \subseteq known[u])
  /\ known' = [known EXCEPT ![u] = @ \cup convs]
  /\ TellLists(u, SeesConvs(u) \cup convs)
  /\ UNCHANGED <<server, heard, got, worker, queue, history, lost, list, talk, place,
                 left>>

HearList(u) ==
  /\ fetches[u] # <<>>
  /\ ~(lists[u] \subseteq heard[u])
  /\ heard' = [heard EXCEPT ![u] = @ \cup lists[u]]
  /\ UNCHANGED <<server, known, got, worker, queue, history, lost, main, list, talk,
                 place, left>>

HearMessages(u, c) ==
  /\ \E i \in DOMAIN readers[u] : readers[u][i].conv = c
  /\ LET new == {m \in posted : sent[m] = c}
     IN /\ ~(new \subseteq got[u])
        /\ got' = [got EXCEPT ![u] = @ \cup new]
        /\ TellReaders(u, c, SeesMessages(u, c) \cup new)
  /\ UNCHANGED <<server, known, heard, worker, queue, history, lost, list, talk, place,
                 left>>

\* The document of the user comes from the server, or from the cache without one.
Answer(u) ==
  /\ fetches[u] # <<>>
  /\ fetches' = [fetches EXCEPT ![u] = Tail(@)]
  /\ main' = [main EXCEPT
                ![u] = Append(@, Block("user", SeesList(u), {}, None, Head(fetches[u])))]
  /\ UNCHANGED <<server, cache, worker, queue, history, lost, signed, listeners, shared,
                 table, talk, place, left>>

----------------------------------------------------------------------------
(* The main queue.                                                         *)

Turn(u, kind) ==
  /\ main[u] # <<>>
  /\ Head(main[u]).kind = kind

Done(u, blocks) == main' = [main EXCEPT ![u] = Tail(@) \o blocks]

\* fetchConversations: the new listener keeps the conversationsID of now.
UserFetched(u) ==
  /\ Turn(u, "user")
  /\ Done(u, <<>>)
  /\ signed' = [signed EXCEPT ![u] = TRUE]
  /\ Ask(u, <<Listen(Head(main[u]).ids, Head(main[u]).screen)>>)
  /\ UNCHANGED <<server, cache, history, lost, listeners, shared, table, fetches,
                 talk, place, left>>

\* Fault: only the array is set.
NoReload(n) == <<>>

Reloads(n) == <<Reload(n)>>

\* Fault: all that the query brings.
All(docs, ids) == docs

\* The query brings all the conversations there are.
Kept(docs, ids) == docs \cap ids

ShowList(u) ==
  /\ Turn(u, "list")
  /\ LET b == Head(main[u])
     IN /\ shared' = [shared EXCEPT ![u] = Ordered(Kept(b.docs, b.ids))]
        /\ Done(u, Reloads(b.screen))
  /\ UNCHANGED <<server, cache, worker, queue, history, lost, signed, listeners, table,
                 fetches, talk, place, left>>

ReloadTable(u) ==
  /\ Turn(u, "reload")
  /\ Done(u, <<>>)
  /\ table' = IF Head(main[u]).screen = screens[u]["list"]
                THEN [table EXCEPT ![u] = shared[u]] ELSE table
  /\ UNCHANGED <<server, cache, worker, queue, history, lost, signed, listeners, shared,
                 fetches, talk, place, left>>

\* Fault: the array is not emptied first.
United(old, new) == old \cup new

Only(old, new) == new

\* The shared array is filled and copied in one block.
ShowMessages(u) ==
  /\ Turn(u, "talk")
  /\ Done(u, <<>>)
  /\ messages' = [messages EXCEPT ![u] = Only(@, Head(main[u]).docs)]
  /\ shown' = IF Head(main[u]).screen = screens[u]["talk"]
                THEN [shown EXCEPT ![u] = messages'[u]] ELSE shown
  /\ UNCHANGED <<server, cache, worker, queue, history, lost, list, readers, opened,
                 place, left>>

RunBlock(u) == UserFetched(u) \/ ShowList(u) \/ ReloadTable(u) \/ ShowMessages(u)

----------------------------------------------------------------------------
(* The user.                                                               *)

Fetch(u, n, screen) ==
  /\ left.fetches >= n
  /\ fetches' = [fetches EXCEPT ![u] = @ \o [i \in 1 .. n |-> screen]]

\* viewDidLoad and viewWillAppear both ask for the user.
OpenList(u) ==
  /\ front[u] = "other"
  /\ left' = [left EXCEPT !.fetches = @ - 2]
  /\ Fetch(u, 2, screens[u]["list"] + 1)
  /\ front' = [front EXCEPT ![u] = "list"]
  /\ screens' = [screens EXCEPT ![u]["list"] = @ + 1]
  /\ table' = [table EXCEPT ![u] = shared[u]]
  /\ UNCHANGED <<server, cache, worker, queue, history, lost, main, signed, listeners,
                 shared, talk>>

LeaveList(u) ==
  /\ front[u] = "list"
  /\ front' = [front EXCEPT ![u] = "other"]
  /\ table' = [table EXCEPT ![u] = <<>>]
  /\ UNCHANGED <<server, cache, worker, queue, history, lost, main, signed, listeners,
                 shared, fetches, talk, screens, left>>

\* A tapped row is looked up in the shared array, as prepare(for:) does.
OpenTalk(u, row) ==
  /\ front[u] = "list"
  /\ row \in DOMAIN table[u]
  /\ row \in DOMAIN shared[u]
  /\ front' = [front EXCEPT ![u] = "talk"]
  /\ screens' = [screens EXCEPT ![u]["talk"] = @ + 1]
  /\ opened' = [opened EXCEPT ![u] = shared[u][row]]
  /\ shown' = [shown EXCEPT ![u] = {}]
  /\ Ask(u, <<Read(shared[u][row], screens[u]["talk"] + 1)>>)
  /\ UNCHANGED <<server, cache, history, lost, main, list, readers, messages,
                 left>>

\* Back at the list, viewWillAppear asks for the user again.
LeaveTalk(u) ==
  /\ front[u] = "talk"
  /\ left' = [left EXCEPT !.fetches = @ - 1]
  /\ Fetch(u, 1, screens[u]["list"])
  /\ front' = [front EXCEPT ![u] = "list"]
  /\ screens' = [screens EXCEPT ![u]["talk"] = @ + 1]
  /\ opened' = [opened EXCEPT ![u] = None]
  /\ shown' = [shown EXCEPT ![u] = {}]
  /\ UNCHANGED <<server, cache, worker, queue, history, lost, main, signed, listeners,
                 shared, table, readers, messages>>

\* Where u may be writing: the screens of someone not followed may be any.
Writes(u, c) ==
  IF u \in Followed THEN front[u] = "talk" /\ signed[u] /\ opened[u] = c
                    ELSE c \in lists[u]

AtList(u) == IF u \in Followed THEN front[u] = "list" /\ signed[u] ELSE TRUE

Send(u, c) ==
  /\ Writes(u, c)
  /\ left.messages > 0
  /\ left' = [left EXCEPT !.messages = @ - 1]
  /\ sent' = Append(sent, c)
  /\ Ask(u, <<Write("message", c, u, Len(sent) + 1)>>)
  /\ UNCHANGED <<server, cache, made, picked, lost, main, list, talk, place>>

\* Whoever was selected, in the order of selection, and the user last.
Selected(u, others) ==
  LET n == Cardinality(others) + 1
  IN {s \in [1 .. n -> others \cup {u}] :
        Elements(s) = others \cup {u} /\ s[n] = u}

\* Fault: the lists of all but the last selected, the user.
OthersOnly(c, s) ==
  [k \in DOMAIN s |-> IF k = 1 THEN Write("member", c, s[k], 0)
                               ELSE Write("list", c, s[k - 1], 0)]

\* The completion, in which all the lists are written, runs after every member.
PerMember(c, s) ==
  LET n == Len(s)
  IN [k \in 1 .. n * (n + 1) |->
        LET i == (k - 1) \div (n + 1)
            j == (k - 1) % (n + 1)
        IN IF j = 0 THEN Write("member", c, s[i + 1], 0)
                    ELSE Write("list", c, s[j], 0)]

\* Fault: the conversation itself comes last.
ConvLast(c, s) == Append(PerMember(c, s), Write("conv", c, "none", 0))

ConvFirst(c, s) == <<Write("conv", c, "none", 0)>> \o PerMember(c, s)

Create(u, c, s) ==
  /\ AtList(u)
  /\ left.makes > 0
  /\ c \notin made
  /\ made' = made \cup {c}
  /\ picked' = [picked EXCEPT ![c] = Elements(s)]
  /\ Ask(u, ConvFirst(c, s))
  /\ IF u \in Followed
       THEN /\ Fetch(u, 1, screens[u]["list"])
            /\ left' = [left EXCEPT !.makes = @ - 1, !.fetches = @ - 1]
       ELSE /\ left' = [left EXCEPT !.makes = @ - 1]
            /\ UNCHANGED fetches
  /\ UNCHANGED <<server, cache, sent, lost, main, signed, listeners, shared,
                 table, talk, place>>

\* What the app had not yet handed over to the store is lost.
Restart(u) ==
  /\ left.kills > 0
  /\ left' = [left EXCEPT !.kills = @ - 1]
  /\ lost' = lost \cup {t \in Elements(worker[u]) : IsWrite(t)}
  /\ worker' = [worker EXCEPT ![u] = <<>>]
  /\ main' = [main EXCEPT ![u] = <<>>]
  /\ fetches' = [fetches EXCEPT ![u] = <<>>]
  /\ signed' = [signed EXCEPT ![u] = FALSE]
  /\ listeners' = [listeners EXCEPT ![u] = <<>>]
  /\ readers' = [readers EXCEPT ![u] = <<>>]
  /\ shared' = [shared EXCEPT ![u] = <<>>]
  /\ messages' = [messages EXCEPT ![u] = {}]
  /\ front' = [front EXCEPT ![u] = "other"]
  /\ screens' = [screens EXCEPT ![u] = [k \in Kinds |-> 0]]
  /\ table' = [table EXCEPT ![u] = <<>>]
  /\ opened' = [opened EXCEPT ![u] = None]
  /\ shown' = [shown EXCEPT ![u] = {}]
  /\ UNCHANGED <<server, cache, queue, history>>

Kill(u) == Restart(u)

\* A row of the table beyond the end of the shared array: prepare(for:) raises.
CrashOnRow(u) ==
  /\ front[u] = "list"
  /\ ~(DOMAIN table[u] \subseteq DOMAIN shared[u])
  /\ Restart(u)

----------------------------------------------------------------------------
Visit(u) ==
  \/ OpenList(u)
  \/ LeaveList(u)
  \/ \E row \in 1 .. Cardinality(Ids) : OpenTalk(u, row)
  \/ LeaveTalk(u)

Next ==
  \/ \E u \in Users :
       \/ Serve(u)
       \/ \E c \in Ids : Send(u, c)
       \/ \E c \in Ids : \E others \in SUBSET (Users \ {u}) :
            \E s \in IF others = {} THEN {<<>>} ELSE Selected(u, others) : Create(u, c, s)
  \/ \E u \in Followed :
       \/ Work(u) \/ RunBlock(u) \/ Answer(u)
       \/ HearConvs(u) \/ HearList(u) \/ \E c \in Ids : HearMessages(u, c)
       \/ Visit(u) \/ Kill(u) \/ CrashOnRow(u)

Spec == Init /\ [][Next]_vars

\* Firestore's thread and the main queue go on, the server answers.
Fairness ==
  /\ \A u \in Users : WF_vars(Serve(u))
  /\ \A u \in Followed :
    /\ WF_vars(Work(u))
    /\ WF_vars(RunBlock(u))
    /\ WF_vars(Answer(u))
    /\ WF_vars(HearConvs(u))
    /\ \A c \in Ids : WF_vars(HearMessages(u, c))

FairSpec == Spec /\ Fairness

----------------------------------------------------------------------------
(* Properties.                                                             *)

WriteTasks ==
  [op : {"conv"}, conv : Ids, user : {"none"}, message : Nat]
    \cup [op : {"member", "list", "message"}, conv : Ids, user : Users, message : Nat]

Tasks == WriteTasks \cup [op : {"listen"}, ids : SUBSET Ids, screen : Nat]
                   \cup [op : {"read"}, conv : Ids, screen : Nat]

Blocks == [kind : {"user", "list", "reload"}, ids : SUBSET Ids, docs : SUBSET Ids,
           conv : {None}, screen : Nat]
  \cup [kind : {"talk"}, ids : {{}}, docs : SUBSET Nat, conv : Ids, screen : Nat]

TypeOK ==
  /\ left \in [old : SUBSET Ids, makes : Nat, messages : Nat, fetches : Nat, kills : Nat]
  /\ convs \subseteq Ids /\ made \subseteq Ids
  /\ members \in [Ids -> SUBSET Users] /\ picked \in [Ids -> SUBSET Users]
  /\ lists \in [Users -> SUBSET Ids] /\ heard \in [Users -> SUBSET Ids]
  /\ known \in [Users -> SUBSET Ids]
  /\ posted \subseteq Nat /\ got \in [Users -> SUBSET Nat]
  /\ worker \in [Users -> Seq(Tasks)] /\ queue \in [Users -> Seq(WriteTasks)]
  /\ lost \subseteq WriteTasks
  /\ sent \in Seq(Ids)
  /\ main \in [Users -> Seq(Blocks)]
  /\ fetches \in [Users -> Seq(Nat)]
  /\ signed \in [Users -> BOOLEAN]
  /\ listeners \in [Users -> Seq([ids : SUBSET Ids, screen : Nat])]
  /\ readers \in [Users -> Seq([conv : Ids, screen : Nat])]
  /\ shared \in [Users -> Seq(Ids)] /\ table \in [Users -> Seq(Ids)]
  /\ messages \in [Users -> SUBSET Nat] /\ shown \in [Users -> SUBSET Nat]
  /\ front \in [Users -> {"list", "talk", "other"}]
  /\ screens \in [Users -> [Kinds -> Nat]]
  /\ opened \in [Users -> Ids \cup {None}]

\* Whatever user lists a conversation, it exists, although the writes of one
\* creation are separate and an app may be ended between any two of them
\* (createAndSaveConversation writes the document first).
ListedExists == \A u \in Users : lists[u] \subseteq convs

\* A write has reached the server, is on its way there from some device, or went
\* with an app that was ended before it had stored the write.
Accounted(w) ==
  \/ w.op = "conv" /\ w.conv \in convs
  \/ w.op = "member" /\ w.user \in members[w.conv]
  \/ w.op = "list" /\ w.conv \in lists[w.user]
  \/ w.op = "message" /\ w.message \in posted
  \/ \E u \in Users : w \in Elements(worker[u]) \cup Elements(queue[u])
  \/ w \in lost

\* What a conversation needs is never dropped on its way, nor is a message: its
\* document, its members and the list of each of them, out of the loop that writes
\* all lists for every member (createAndSaveConversation and updateUsers, saveMessage).
NoneDropped ==
  /\ \A c \in made :
       /\ Accounted(Write("conv", c, "none", 0))
       /\ \A u \in picked[c] : /\ Accounted(Write("member", c, u, 0))
                              /\ Accounted(Write("list", c, u, 0))
  /\ \A m \in DOMAIN sent : \E u \in Users : Accounted(Write("message", sent[m], u, m))

Docs == INSTANCE Directory

\* Whatever the devices do, the documents keep to Directory: nobody but those selected
\* is listed, is a member or writes, whatever the shared array held as a row was tapped,
\* and a conversation is there before its members, its messages and the lists that
\* name it (createAndSaveConversation, fetchConversationsFor and saveMessage).
Directed == Docs!Spec

\* Everyone selected for a conversation comes to have it in the conversationsID,
\* unless the app was ended before it had stored that write (updateUsers, called
\* once per member from the loop of createAndSaveConversation).
AllListed ==
  \A c \in Ids : \A u \in Users :
    (c \in made /\ u \in picked[c]) ~>
      \/ c \in lists[u]
      \/ \E w \in lost : w.op = "list" /\ w.conv = c /\ w.user = u

\* Whichever listeners of earlier visits are still there, once all that were told
\* have run, the shared array holds each conversation of the latest one once
\* (fetchConversationsFor).
NewestWins ==
  \A u \in Users :
    LET n == Len(listeners[u])
    IN (n > 0 /\ \A i \in DOMAIN main[u] : main[u][i].kind # "list")
       => shared[u] = Ordered(SeesConvs(u) \cap listeners[u][n].ids)

\* A tap opens the conversation whose row it hits, once the main queue is empty and
\* the screen has had its first answer, whatever listeners of closed screens do to
\* the array (tableView and prepare(for:) of ConversationListTableViewController).
RowIsConversation ==
  \A u \in Users :
    (/\ front[u] = "list"
     /\ main[u] = <<>>
     /\ \E i \in DOMAIN listeners[u] : listeners[u][i].screen = screens[u]["list"])
    => table[u] = shared[u]

\* A message screen shows messages of its own conversation only, though the
\* listeners of all conversations ever opened fill one array (fetchMessages).
OwnMessages ==
  \A u \in Users : \A m \in shown[u] : sent[m] = opened[u]

\* Once its reader is registered and the blocks of that screen have run, a message
\* screen shows all that the device sees of its conversation: no answer of the cache
\* and no snapshot that came in between hides one (fetchMessages).
ShowsSeen ==
  \A u \in Followed :
    (/\ front[u] = "talk"
     /\ \E r \in Elements(readers[u]) : r.screen = screens[u]["talk"]
     /\ \A b \in Elements(main[u]) : b.kind = "talk" => b.screen # screens[u]["talk"])
    => shown[u] = SeesMessages(u, opened[u])

\* u has the conversation of message m open.
Reading(u, m) == m \in DOMAIN sent /\ front[u] = "talk" /\ opened[u] = sent[m]

\* A message sent reaches whoever has its conversation open, unless the app that
\* sent it was ended before storing it (saveMessage and fetchMessages).
Arrives ==
  \A u \in Followed : \A m \in UNION {1 .. b.messages : b \in Budgets} :
    Reading(u, m) ~>
      \/ m \in shown[u]
      \/ ~Reading(u, m)
      \/ \E w \in lost : w.op = "message" /\ w.message = m
=============================================================================
