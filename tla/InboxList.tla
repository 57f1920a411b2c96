------------------------------ MODULE InboxList ------------------------------
(***************************************************************************)
(* The inbox of a phone: FirebaseManager.setList with several              *)
(* conversations, the unread badges, and the sessions of the accounts that *)
(* log in on the phone one after the other.  Peers send messages; a        *)
(* message is the document messages/<chat>/<chat>/<m>, written without     *)
(* await, and the inbox document recentusers/<u>/<u>/<p>, written after    *)
(* it.  The phone listens to inbox documents; a listener is never          *)
(* cancelled.  The preferences (user and stamps) survive a restart and    *)
(* are cleared by a logout; list_user and the queries under way do not     *)
(* survive a restart, but do survive a logout.                             *)
(*                                                                         *)
(* Messages of a conversation are numbered in the order of their time      *)
(* stamps, and a stamp of the phone's clock is the number of the last      *)
(* message sent before it: the phones' clocks agree.  A peer sends one     *)
(* message at a time in a conversation.  Overlapping sends, own messages   *)
(* and the expiry of documents are DirectChat's.                           *)
(***************************************************************************)
EXTENDS Integers, Sequences, FiniteSets, SequencesExt

CONSTANTS
    Accounts,       \* the accounts used on the phone
    Peers,          \* their peers, on other phones
    Nobody,         \* no account is logged in
    MaxSent,        \* bound on the messages sent, in all conversations
    MaxSwitches     \* bound on logins and restarts

ASSUME AccountsAssumption == Nobody \notin Accounts
ASSUME PeersAssumption == IsFiniteSet(Accounts) /\ IsFiniteSet(Peers)
ASSUME BoundsAssumption ==
    MaxSent \in Nat /\ MaxSwitches \in Nat

VARIABLES
    sent,           \* sent[u][p]: messages peer p has sent account u
    landed,         \* landed[u][p]: those whose message document is there
    doc,            \* doc[u][p]: the message in u's inbox document, 0 if none
    user,           \* preference USERID: the account logged in
    stamps,         \* preference <peer>: the time the chat was last shown
    starting,       \* the first getUserList after a start is still to come
    listeners,      \* what getUserList has left listening
    tasks,          \* setList's counts that wait for the server
    rows,           \* list_user, in the order in which the rows were added
    chat,           \* the stack of chat pages: none or one
    switches,       \* logins and restarts so far
    last,           \* history: the listener of the last snapshot, 0 if none
    clean,          \* history: nothing waited when the last snapshot came
    early,          \* history: messages whose inbox document was there first
    missed          \* history: missed[p]: those in flight at p's last stamp

server == <<sent, landed, doc, early>>
prefs == <<user, stamps, missed>>
list == <<tasks, rows, last, clean>>
vars == <<server, prefs, starting, listeners, list, chat, switches>>

Number == 0..MaxSent
Unstamped == -1
Unseen == -1

Listener == [owner : Accounts, seen : [Peers -> Number \union {Unseen}]]
\* stamp and asker: what the preferences held when setList read them.
Task == [owner : Accounts, peer : Peers, msg : Number, stamp : Number,
         asker : Accounts \union {Nobody}]
\* history: stamp and asker of the count, Unstamped and Nobody without one.
Row == [owner : Accounts, peer : Peers, msg : Number, count : Number,
        stamp : Number \union {Unstamped}, asker : Accounts \union {Nobody}]
\* row: the place of the MessageUser the route carries, 0 once list_user is new.
Chat == [peer : Peers, row : Nat]

TypeOK ==
    /\ sent \in [Accounts -> [Peers -> Number]]
    /\ landed \in [Accounts -> [Peers -> SUBSET (1..MaxSent)]]
    /\ doc \in [Accounts -> [Peers -> Number]]
    /\ early \in SUBSET (Accounts \X Peers \X (1..MaxSent))
    /\ user \in Accounts \union {Nobody}
    /\ stamps \in [Peers -> Number \union {Unstamped}]
    /\ missed \in [Peers -> SUBSET (1..MaxSent)]
    /\ starting \in BOOLEAN
    /\ listeners \in Seq(Listener)
    /\ tasks \in Seq(Task)
    /\ rows \in Seq(Row)
    /\ chat \in Seq(Chat) /\ Len(chat) <= 1
    /\ switches \in 0..MaxSwitches
    /\ last \in 0..Len(listeners)
    /\ clean \in BOOLEAN
    /\ chat # <<>> => user # Nobody /\ chat[1].row <= Len(rows)

Init ==
    /\ sent = [u \in Accounts |-> [p \in Peers |-> 0]]
    /\ landed = [u \in Accounts |-> [p \in Peers |-> {}]]
    /\ doc = [u \in Accounts |-> [p \in Peers |-> 0]]
    /\ early = {}
    /\ user = Nobody
    /\ stamps = [p \in Peers |-> Unstamped] /\ missed = [p \in Peers |-> {}]
    /\ starting = TRUE /\ listeners = <<>>
    /\ tasks = <<>> /\ rows = <<>> /\ last = 0 /\ clean = TRUE
    /\ chat = <<>>
    /\ switches = 0

Sent == {m \in Accounts \X Peers \X (1..MaxSent) : m[3] <= sent[m[1]][m[2]]}

(***************************************************************************)
(* The peers and the server.                                               *)
(***************************************************************************)

\* onSendMessage of the peer, up to the first await.
Post(u, p) ==
    /\ Cardinality(Sent) < MaxSent
    /\ doc[u][p] = sent[u][p]
    /\ sent' = [sent EXCEPT ![u][p] = @ + 1]
    /\ UNCHANGED <<landed, doc, early, prefs, starting, listeners, list, chat,
                   switches>>

\* The un-awaited transaction on the message document.
LandMessage(u, p) ==
    /\ \E m \in (1..sent[u][p]) \ landed[u][p] :
          landed' = [landed EXCEPT ![u][p] = @ \union {m}]
    /\ UNCHANGED <<sent, doc, early, prefs, starting, listeners, list, chat,
                   switches>>

\* The awaited transaction on u's inbox document.
LandInbox(u, p) ==
    /\ doc[u][p] < sent[u][p]
    /\ doc' = [doc EXCEPT ![u][p] = sent[u][p]]
    /\ early' = IF sent[u][p] \in landed[u][p] THEN early
                ELSE early \union {<<u, p, sent[u][p]>>}
    /\ UNCHANGED <<sent, landed, prefs, starting, listeners, list, chat,
                   switches>>

(***************************************************************************)
(* The inbox list.                                                         *)
(***************************************************************************)

\* getUserList
Listen(u) == Append(listeners, [owner |-> u, seen |-> [p \in Peers |-> Unseen]])

\* A row made from u's document about p, and what makes one later.
RowOf(u, p) == [owner |-> u, peer |-> p, msg |-> doc[u][p], count |-> 0,
                stamp |-> Unstamped, asker |-> Nobody]
TaskOf(u, p) == [owner |-> u, peer |-> p, msg |-> doc[u][p],
                 stamp |-> stamps[p], asker |-> user]

Unopened(u) == {p \in Peers : doc[u][p] > 0 /\ stamps[p] = Unstamped}
Opened(u) == {p \in Peers : doc[u][p] > 0 /\ stamps[p] # Unstamped}

\* What one run of setList adds to a list and to the queries under way.  The
\* documents of a snapshot come by their ids, which is any order here.
Rows(u) == {[i \in 1..Len(s) |-> RowOf(u, s[i])] : s \in SetToSeqs(Unopened(u))}
Tasks(u) == {[i \in 1..Len(s) |-> TaskOf(u, s[i])] : s \in SetToSeqs(Opened(u))}

\* A listener of getUserList reports, and setList runs up to its first await.
Report(l) ==
    /\ listeners[l].seen # doc[listeners[l].owner]
    /\ listeners' = [listeners EXCEPT ![l].seen = doc[listeners[l].owner]]
    /\ \E more \in Tasks(listeners[l].owner) : tasks' = tasks \o more
    /\ last' = l /\ clean' = (tasks = <<>>)
    /\ chat' = [i \in 1..Len(chat) |-> [chat[i] EXCEPT !.row = 0]]
    /\ UNCHANGED <<server, prefs, starting, switches>>

\* Variant: the rows of the earlier snapshots stay.
DeliverKeeps(l) ==
    /\ Report(l)
    /\ \E more \in Rows(listeners[l].owner) : rows' = rows \o more

\* list_user is new: a row without a stamp comes at once, and one with a
\* stamp after the messages newer than the stamp were asked for.
Deliver(l) ==
    /\ Report(l)
    /\ rows' \in Rows(listeners[l].owner)

\* Variant: the query has no lower bound.
NewerAll(t) ==
    IF t.asker = Nobody THEN 0 ELSE Cardinality(landed[t.asker][t.peer])

\* The messages of the chat of asker and peer newer than the stamp.
Newer(t) ==
    IF t.asker = Nobody THEN 0
    ELSE Cardinality({m \in landed[t.asker][t.peer] : m > t.stamp})

\* The row of a task whose count has come.
CountedRow(t) == [owner |-> t.owner, peer |-> t.peer, msg |-> t.msg,
                  count |-> Newer(t), stamp |-> t.stamp, asker |-> t.asker]

\* Variant: a row of the same peer is not added twice.
AnswerOnce(i) ==
    LET t == tasks[i]
    IN  /\ rows' = IF \E j \in 1..Len(rows) : rows[j].peer = t.peer THEN rows
                   ELSE Append(rows, CountedRow(t))
        /\ tasks' = RemoveAt(tasks, i)
        /\ UNCHANGED <<server, prefs, starting, listeners, last, clean, chat,
                       switches>>

\* The answer to setList's query: the row goes to the list there is now.
Answer(i) ==
    /\ rows' = Append(rows, CountedRow(tasks[i]))
    /\ tasks' = RemoveAt(tasks, i)
    /\ UNCHANGED <<server, prefs, starting, listeners, last, clean, chat,
                   switches>>

\* The preference <peer> is set to the present time: what has landed is on the
\* screen, and what was sent but has not landed is not.
Stamp(p) ==
    /\ stamps' = [stamps EXCEPT ![p] = sent[user][p]]
    /\ missed' = [missed EXCEPT ![p] = (1..sent[user][p]) \ landed[user][p]]

\* A tap on a row, and readLocal of the page it opens.
OpenChat(i) ==
    /\ chat = <<>> /\ user # Nobody
    /\ chat' = <<[peer |-> rows[i].peer, row |-> i]>>
    /\ Stamp(rows[i].peer)
    /\ UNCHANGED <<server, user, starting, listeners, list, switches>>

\* The builder of the page runs: with each snapshot of the messages, and at
\* each rebuild.  The badge is cleared on the row the page was opened from.
ShowMessages ==
    /\ chat # <<>>
    /\ Stamp(chat[1].peer)
    /\ rows' = IF chat[1].row = 0 THEN rows
               ELSE [rows EXCEPT ![chat[1].row].count = 0]
    /\ UNCHANGED <<server, user, starting, listeners, tasks, last, clean, chat,
                   switches>>

CloseChat ==
    /\ chat # <<>>
    /\ chat' = <<>>
    /\ UNCHANGED <<server, prefs, starting, listeners, list, switches>>

(***************************************************************************)
(* Sessions.                                                               *)
(***************************************************************************)

\* userLogin, userSociallogin or userRegister, when the backend agrees.
Login(u) ==
    /\ user = Nobody /\ switches < MaxSwitches
    /\ user' = u
    /\ listeners' = Listen(u)
    /\ switches' = switches + 1
    /\ UNCHANGED <<server, stamps, missed, starting, list, chat>>

\* Variant: the chat page stays.
LogoutStays ==
    /\ user # Nobody
    /\ user' = Nobody
    /\ stamps' = [p \in Peers |-> Unstamped] /\ missed' = [p \in Peers |-> {}]
    /\ UNCHANGED <<server, starting, listeners, list, chat, switches>>

\* logout or deleteaccount: the preferences are cleared and every page goes.
Logout ==
    /\ user # Nobody
    /\ user' = Nobody
    /\ stamps' = [p \in Peers |-> Unstamped] /\ missed' = [p \in Peers |-> {}]
    /\ chat' = <<>>
    /\ UNCHANGED <<server, starting, listeners, list, switches>>

\* The application is killed and started anew.
Restart ==
    /\ switches < MaxSwitches
    /\ starting' = TRUE /\ listeners' = <<>>
    /\ tasks' = <<>> /\ rows' = <<>> /\ last' = 0 /\ clean' = TRUE
    /\ chat' = <<>>
    /\ switches' = switches + 1
    /\ UNCHANGED <<server, prefs>>

\* MyApp's initState, after the push token has come.
Start ==
    /\ starting
    /\ starting' = FALSE
    /\ listeners' = IF user = Nobody THEN listeners ELSE Listen(user)
    /\ UNCHANGED <<server, prefs, list, chat, switches>>

Next ==
    \/ \E u \in Accounts, p \in Peers :
          Post(u, p) \/ LandMessage(u, p) \/ LandInbox(u, p)
    \/ \E l \in 1..Len(listeners) : Deliver(l)
    \/ \E i \in 1..Len(tasks) : Answer(i)
    \/ \E i \in 1..Len(rows) : OpenChat(i)
    \/ ShowMessages \/ CloseChat
    \/ \E u \in Accounts : Login(u)
    \/ Logout \/ Restart \/ Start

Spec == Init /\ [][Next]_vars

(***************************************************************************)
(* Properties.                                                             *)
(***************************************************************************)

\* The list shows u's inbox: the last snapshot was u's, nothing has changed
\* since, and every count has come.
Settled(u) ==
    /\ user = u /\ last # 0 /\ tasks = <<>>
    /\ listeners[last].owner = u /\ listeners[last].seen = doc[u]

Shows(r, u, p) == r.owner = u /\ r.peer = p /\ r.msg = doc[u][p]

\* setList with tasks that append later (FirebaseManager.dart:45): once the
\* list is settled no conversation is missing from it or shows an old message
\* only, whatever earlier tasks, listeners and sessions have left behind.
EveryConversationListed ==
    \A u \in Accounts : Settled(u) =>
        \A p \in Peers : doc[u][p] > 0 =>
            \E i \in 1..Len(rows) : Shows(rows[i], u, p)

\* The same list has nothing else, neither a second row of a conversation nor
\* a row of another account, unless a count was under way when the snapshot
\* came: a late count is the only source of both (FirebaseManager.dart:144).
ListExact ==
    \A u \in Accounts : Settled(u) /\ clean =>
        /\ \A i \in 1..Len(rows) : Shows(rows[i], u, rows[i].peer)
        /\ \A i, j \in 1..Len(rows) : rows[i].peer = rows[j].peer => i = j

\* What the chat has had on the screen by its last stamp.
Shown(p) == (1..stamps[p]) \ missed[p]

\* A badge that was counted for the account of its row, from the stamp there
\* still is, counts only messages the user has not had on the screen, and of
\* those up to the row's message it misses two kinds only: a message whose inbox
\* document was written before the message itself, and one in flight at the
\* chat's last stamp, which is older than the stamp and on no screen
\* (FirebaseManager.dart:70-88, FirebaseChatScreen.dart:67).
BadgeCountsUnread ==
    \A i \in 1..Len(rows) :
        LET r == rows[i]
            p == r.peer
        IN  user = r.owner /\ user = r.asker /\ r.stamp = stamps[p] =>
            /\ r.count <= Cardinality(landed[user][p] \ Shown(p))
            /\ r.count >= Cardinality({m \in (1..r.msg) \ Shown(p) :
                              m \notin missed[p] /\ <<user, p, m>> \notin early})
==============================================================================
