----------------------------- MODULE DirectChat -----------------------------
(***************************************************************************)
(* One one-to-one conversation of the app: two phones and the two inbox    *)
(* documents Firestore keeps for it, recentusers/<u>/<u>/<peer>, one per   *)
(* user.  onSendMessage (lib/Pages/FirebaseChatScreen.dart) rewrites both  *)
(* documents one after the other with an await before each access;         *)
(* FirebaseManager.setList (lib/Helper/FirebaseManager.dart) reads the     *)
(* snapshots of the listener and deletes both documents when a nudge clock *)
(* has run out; the nudge button of MessageInboxView updates both.         *)
(*                                                                         *)
(* Dart runs one handler at a time per phone, so an action is the code     *)
(* between two awaits.  A server commit is one step with the continuation  *)
(* that follows it: the continuation touches the phone only and commutes   *)
(* with what the server does in between.                                   *)
(***************************************************************************)
EXTENDS Integers, Sequences, FiniteSets

CONSTANTS
    Alice, Bob,     \* the two users of the conversation
    Routes,         \* chat screens that may be opened, each opened once
    Calls,          \* calls of onSendMessage, each made once
    Taps,           \* taps on a nudge button, each made once
    MaxTime,        \* bound of the clock
    MaxFaults,      \* bound on crashes and failed transactions
    MaxInFlight,    \* bound on the calls of onSendMessage under way at once
    NudgeLimit,     \* how long an unanswered first message is kept (48 h)
    NudgedLimit,    \* the same once a nudge was sent (72 h)
    NoonShift,      \* how far setList's reading of the clock may lag (12 h)
    Unseen          \* a listener that has reported nothing since the start

Users == {Alice, Bob}
Peer(u) == IF u = Alice THEN Bob ELSE Alice

ASSUME UsersAssumption == Alice # Bob
ASSUME BoundsAssumption ==
    /\ MaxTime \in Nat \ {0} /\ MaxFaults \in Nat /\ MaxInFlight \in Nat
ASSUME CallsAssumption == IsFiniteSet(Calls)
ASSUME LimitsAssumption ==
    /\ NudgeLimit \in Nat /\ NudgedLimit \in Nat /\ NoonShift \in Nat
    /\ NudgeLimit <= NudgedLimit

VARIABLES
    doc,        \* doc[u]: recentusers/u/u/Peer(u) at the server
    route,      \* route[r]: the RouteArgument of a chat screen
    call,       \* call[c]: a call of onSendMessage
    tap,        \* tap[t]: a run of the nudge button's handler
    unmatched,  \* users whose phone has called removeMatches
    seen,       \* seen[u]: what u's listener reported last
    tasks,      \* tasks[u]: documents setList has not finished with
    entries,    \* entries[u]: list_user, the rows of the inbox
    removals,   \* removals[u]: deletes u's phone has issued, in order
    now,        \* the time, the same on both phones
    faults      \* crashes and failed transactions so far

vars == <<doc, route, call, tap, unmatched, seen, tasks, entries, removals,
          now, faults>>

Time == 0..MaxTime      \* 0 stands for "the field is absent"
NoCall == "no call"
NoUser == "no user"
NoRoute == "no route"

Doc == [exists : BOOLEAN, sender : Time, receiver : Time, nudged : BOOLEAN,
        msg : Calls \union {NoCall}]
NoDoc == [exists |-> FALSE, sender |-> 0, receiver |-> 0, nudged |-> FALSE,
          msg |-> NoCall]

\* answering: userChat.nudgeReceiver # null; match: isMatches.
Route == [state : {"unused", "open", "closed"}, by : Users \union {NoUser},
          match : BOOLEAN, answering : BOOLEAN]
Call == [pc : {"unused", "get", "write", "peerget", "peerwrite", "done",
               "aborted"},
         route : Routes \union {NoRoute}, by : Users \union {NoUser}, found : BOOLEAN,
         own : Time, other : Time]
Tap == [pc : {"unused", "peer", "own", "done", "aborted"},
        by : Users \union {NoUser}]
Entry == [answering : BOOLEAN, counting : BOOLEAN, nudged : BOOLEAN]
\* A delete of user's document; "saw" is history: what setList looked at.
Removal == [user : Users, saw : Doc]

\* No snapshot looks like a listener that has not reported.
ASSUME UnseenAssumption == Unseen \notin Doc

Typed ==
    /\ doc \in [Users -> Doc]
    /\ route \in [Routes -> Route]
    /\ call \in [Calls -> Call]
    /\ tap \in [Taps -> Tap]
    /\ unmatched \subseteq Users
    /\ seen \in [Users -> Doc \union {Unseen}]
    /\ tasks \in [Users -> SUBSET Doc]
    /\ entries \in [Users -> SUBSET Entry]
    /\ removals \in [Users -> Seq(Removal)]
    /\ now \in 1..MaxTime
    /\ faults \in 0..MaxFaults

\* Types, and the ground setList stands on: it reads content and the other
\* fields of every document it is given without a look, so no document may
\* be there that only a mark or a clock was written to and no message.
TypeOK ==
    /\ Typed
    /\ \A u \in Users : doc[u].exists => doc[u].msg \in Calls
    /\ \A u \in Users : \A d \in tasks[u] : d.exists /\ d.msg \in Calls

Init ==
    /\ doc = [u \in Users |-> NoDoc]
    /\ route = [r \in Routes |-> [state |-> "unused", by |-> NoUser,
                                  match |-> FALSE, answering |-> FALSE]]
    /\ call = [c \in Calls |-> [pc |-> "unused", route |-> NoRoute,
                                by |-> NoUser, found |-> FALSE, own |-> 0,
                                other |-> 0]]
    /\ tap = [t \in Taps |-> [pc |-> "unused", by |-> NoUser]]
    /\ unmatched = {}
    /\ seen = [u \in Users |-> Unseen]
    /\ tasks = [u \in Users |-> {}]
    /\ entries = [u \in Users |-> {}]
    /\ removals = [u \in Users |-> <<>>]
    /\ now = 1
    /\ faults = 0

-----------------------------------------------------------------------------
(* Opening a chat screen.  Leaving it has no step of its own: a screen that   *)
(* was left is one that starts no further call; see PeerWrite for its calls.  *)

InFlight(c) == call[c].pc \in {"get", "write", "peerget", "peerwrite"}

Open(u, r, match, answering) ==
    /\ route[r].state = "unused"
    /\ route' = [route EXCEPT ![r] = [state |-> "open", by |-> u,
                                      match |-> match,
                                      answering |-> answering]]
    /\ UNCHANGED <<doc, call, tap, unmatched, seen, tasks, entries, removals,
                   now, faults>>

\* The message button of a match: the match list, the match page, a profile.
OpenFromMatch(u, r) == Open(u, r, TRUE, FALSE)

\* A tap on a chat notification: a MessageUser with id, name and photo only.
OpenFromNotification(u, r) ==
    /\ \E c \in Calls : call[c].by = Peer(u) /\ call[c].pc = "done"
    /\ Open(u, r, FALSE, FALSE)

\* A tap on a row of the inbox, which passes the row itself.
OpenFromInbox(u, r) ==
    \E e \in entries[u] : Open(u, r, FALSE, e.answering)

-----------------------------------------------------------------------------
(* onSendMessage. *)

\* The nudge field a document map gets: the time if the route is a match.
Stamp(r) == IF route[r].match THEN now ELSE 0

\* With userChat.nudgeReceiver set both documents are replaced without a look.
FirstStep(r, get, write) == IF route[r].answering THEN write ELSE get

\* transaction.set: the document is the map and nothing else.
SetDoc(c, sender, receiver) ==
    [exists |-> TRUE, sender |-> sender, receiver |-> receiver,
     nudged |-> FALSE, msg |-> c]

\* transaction.update: fields that are not in the map stay.
UpdateDoc(d, c, sender, receiver) ==
    [d EXCEPT !.msg = c,
              !.sender = IF sender = 0 THEN @ ELSE sender,
              !.receiver = IF receiver = 0 THEN @ ELSE receiver]

StartSend(c, r) ==
    /\ call[c].pc = "unused"
    /\ route[r].state = "open"
    /\ Cardinality({d \in Calls : InFlight(d)}) < MaxInFlight
    /\ call' = [call EXCEPT ![c] =
                    [pc |-> FirstStep(r, "get", "write"), route |-> r,
                     by |-> route[r].by, found |-> FALSE, own |-> Stamp(r),
                     other |-> 0]]
    /\ UNCHANGED <<doc, route, tap, unmatched, seen, tasks, entries, removals,
                   now, faults>>

\* Variant of OwnWrite: isMatches is reset before the peer's map is built.
OwnWriteEndsMatch(c) ==
    LET u == call[c].by  r == call[c].route IN
    /\ call[c].pc = "write"
    /\ call[c].found => doc[u].exists
    /\ doc' = [doc EXCEPT ![u] = IF call[c].found
                                 THEN UpdateDoc(@, c, call[c].own, 0)
                                 ELSE SetDoc(c, call[c].own, 0)]
    /\ route' = [route EXCEPT ![r].match = FALSE]
    /\ call' = [call EXCEPT ![c].pc = FirstStep(r, "peerget", "peerwrite"),
                            ![c].found = FALSE]
    /\ UNCHANGED <<tap, unmatched, seen, tasks, entries, removals, now, faults>>

\* Variant of OwnGet: removeMatches is called when the message is sent off.
OwnGetUnmatches(c) ==
    LET u == call[c].by IN
    /\ call[c].pc = "get"
    /\ call' = [call EXCEPT ![c].pc = "write", ![c].found = doc[u].exists]
    /\ unmatched' = IF call[c].own # 0 THEN unmatched \union {u} ELSE unmatched
    /\ UNCHANGED <<doc, route, tap, seen, tasks, entries, removals, now, faults>>

\* The awaited get() of the user's own document.
OwnGet(c) ==
    /\ call[c].pc = "get"
    /\ call' = [call EXCEPT ![c].pc = "write",
                            ![c].found = doc[call[c].by].exists]
    /\ UNCHANGED <<doc, route, tap, unmatched, seen, tasks, entries, removals,
                   now, faults>>

\* The own document is written; the map for the peer's is built at once.
OwnWrite(c) ==
    LET u == call[c].by  r == call[c].route IN
    /\ call[c].pc = "write"
    /\ call[c].found => doc[u].exists
    /\ doc' = [doc EXCEPT ![u] = IF call[c].found
                                 THEN UpdateDoc(@, c, call[c].own, 0)
                                 ELSE SetDoc(c, call[c].own, 0)]
    /\ call' = [call EXCEPT ![c].pc = FirstStep(r, "peerget", "peerwrite"),
                            ![c].found = FALSE,
                            ![c].other = Stamp(r)]
    /\ UNCHANGED <<route, tap, unmatched, seen, tasks, entries, removals, now,
                   faults>>

\* Variant of PeerGet: it looks at the user's own document again.
PeerGetOwn(c) ==
    /\ call[c].pc = "peerget"
    /\ call' = [call EXCEPT ![c].pc = "peerwrite",
                            ![c].found = doc[call[c].by].exists]
    /\ UNCHANGED <<doc, route, tap, unmatched, seen, tasks, entries, removals,
                   now, faults>>

\* Variant of PeerGet: it waits for a document of the peer to be there.
PeerGetKnown(c) ==
    /\ call[c].pc = "peerget"
    /\ doc[Peer(call[c].by)].exists
    /\ call' = [call EXCEPT ![c].pc = "peerwrite", ![c].found = TRUE]
    /\ UNCHANGED <<doc, route, tap, unmatched, seen, tasks, entries, removals,
                   now, faults>>

PeerGet(c) ==
    /\ call[c].pc = "peerget"
    /\ call' = [call EXCEPT ![c].pc = "peerwrite",
                            ![c].found = doc[Peer(call[c].by)].exists]
    /\ UNCHANGED <<doc, route, tap, unmatched, seen, tasks, entries, removals,
                   now, faults>>

\* The peer's document is written and the call completes.  On a match route
\* isMatches is reset and removeMatches called, unless the user has left the
\* screen meanwhile and the setState in between throws.
PeerWrite(c) ==
    LET u == call[c].by  v == Peer(u)  r == call[c].route IN
    /\ call[c].pc = "peerwrite"
    /\ call[c].found => doc[v].exists
    /\ doc' = [doc EXCEPT ![v] = IF call[c].found
                                 THEN UpdateDoc(@, c, 0, call[c].other)
                                 ELSE SetDoc(c, 0, call[c].other)]
    /\ call' = [call EXCEPT ![c].pc = "done"]
    /\ route' = [route EXCEPT ![r].match = FALSE]
    /\ \/ route[r].match /\ unmatched' = unmatched \union {u}
       \/ UNCHANGED unmatched
    /\ UNCHANGED <<tap, seen, tasks, entries, removals, now, faults>>

\* update() of a document that is not there fails and the rest is skipped.
UpdateFails(c) ==
    /\ call[c].found
    /\ \/ call[c].pc = "write" /\ ~doc[call[c].by].exists
       \/ call[c].pc = "peerwrite" /\ ~doc[Peer(call[c].by)].exists
    /\ call' = [call EXCEPT ![c].pc = "aborted"]
    /\ UNCHANGED <<doc, route, tap, unmatched, seen, tasks, entries, removals,
                   now, faults>>

\* No network: the awaited access throws and the rest is skipped.
SendThrows(c) ==
    /\ InFlight(c)
    /\ faults < MaxFaults
    /\ faults' = faults + 1
    /\ call' = [call EXCEPT ![c].pc = "aborted"]
    /\ UNCHANGED <<doc, route, tap, unmatched, seen, tasks, entries, removals,
                   now>>

-----------------------------------------------------------------------------
(* The inbox: FirebaseManager's listener, setList and the nudge button. *)

\* Firestore shows a phone its own pending deletes at once.
LocalView(u) ==
    IF \E i \in 1..Len(removals[u]) : removals[u][i].user = u
    THEN NoDoc ELSE doc[u]

\* Variant of Deliver: the first snapshot only starts the list.
DeliverOnceStarted(u) ==
    LET d == LocalView(u) IN
    /\ seen[u] # d
    /\ seen' = [seen EXCEPT ![u] = d]
    /\ entries' = [entries EXCEPT ![u] = {}]
    /\ tasks' = [tasks EXCEPT ![u] = IF d.exists /\ seen[u] # Unseen
                                     THEN @ \union {d} ELSE @]
    /\ UNCHANGED <<doc, route, call, tap, unmatched, removals, now, faults>>

\* A snapshot: list_user starts afresh and every document gets a task.
Deliver(u) ==
    LET d == LocalView(u) IN
    /\ seen[u] # d
    /\ seen' = [seen EXCEPT ![u] = d]
    /\ entries' = [entries EXCEPT ![u] = {}]
    /\ tasks' = [tasks EXCEPT ![u] = IF d.exists THEN @ \union {d} ELSE @]
    /\ UNCHANGED <<doc, route, call, tap, unmatched, removals, now, faults>>

\* Variant of RanOut: no time left already counts as run out.
RanOutAtLimit(d, stamp, time) ==
    /\ stamp # 0
    /\ time - stamp >= (IF d.nudged THEN NudgedLimit ELSE NudgeLimit)

\* daysBetween(...).isNegative, for the time setList reads.
RanOut(d, stamp, time) ==
    /\ stamp # 0
    /\ time - stamp > (IF d.nudged THEN NudgedLimit ELSE NudgeLimit)

\* The two deletes of an expired clock: the document of idFrom, then of idTo.
BothDocs(d) == <<[user |-> call[d.msg].by, saw |-> d],
                 [user |-> Peer(call[d.msg].by), saw |-> d]>>

Deletes(d, time) ==
    (IF RanOut(d, d.receiver, time) THEN BothDocs(d) ELSE <<>>)
      \o (IF RanOut(d, d.sender, time) THEN BothDocs(d) ELSE <<>>)

\* The rest of setList for one document, when its awaits are over.  Between
\* noon and one the pattern "hh" reads the current hour as 0.
ProcessEntry(u, d, lag) ==
    /\ d \in tasks[u]
    /\ tasks' = [tasks EXCEPT ![u] = @ \ {d}]
    /\ entries' = [entries EXCEPT ![u] =
                     @ \union {[answering |-> d.receiver # 0,
                                counting |-> d.sender # 0,
                                nudged |-> d.nudged]}]
    /\ removals' = [removals EXCEPT ![u] = @ \o Deletes(d, now - lag)]
    /\ UNCHANGED <<doc, route, call, tap, unmatched, seen, now, faults>>

RemovalLands(u) ==
    /\ removals[u] # <<>>
    /\ doc' = [doc EXCEPT ![Head(removals[u]).user] = NoDoc]
    /\ removals' = [removals EXCEPT ![u] = Tail(@)]
    /\ UNCHANGED <<route, call, tap, unmatched, seen, tasks, entries, now,
                   faults>>

\* The nudge button shows on a row with a sender clock and does nothing once
\* the row says that a nudge was sent.  The row is not changed by the tap.
StartNudge(t, u) ==
    /\ tap[t].pc = "unused"
    /\ \E e \in entries[u] : e.counting /\ ~e.nudged
    /\ tap' = [tap EXCEPT ![t] = [pc |-> "peer", by |-> u]]
    /\ UNCHANGED <<doc, route, call, unmatched, seen, tasks, entries, removals,
                   now, faults>>

\* Variant of NudgeStep: a set with merge, which makes a document that is not
\* there.
NudgeStepMerges(t, from, to, v) ==
    /\ tap[t].pc = from
    /\ doc' = [doc EXCEPT ![v].exists = TRUE, ![v].nudged = TRUE]
    /\ tap' = [tap EXCEPT ![t].pc = to]
    /\ UNCHANGED <<route, call, unmatched, seen, tasks, entries, removals, now,
                   faults>>

NudgeStep(t, from, to, v) ==
    /\ tap[t].pc = from
    /\ IF doc[v].exists
       THEN /\ doc' = [doc EXCEPT ![v].nudged = TRUE]
            /\ tap' = [tap EXCEPT ![t].pc = to]
       ELSE /\ tap' = [tap EXCEPT ![t].pc = "aborted"]
            /\ UNCHANGED doc
    /\ UNCHANGED <<route, call, unmatched, seen, tasks, entries, removals, now,
                   faults>>

\* Variant of NudgePeer: the user's own document is forgotten.
NudgePeerOnly(t) == NudgeStep(t, "peer", "done", Peer(tap[t].by))

NudgePeer(t) == NudgeStep(t, "peer", "own", Peer(tap[t].by))
NudgeOwn(t) == NudgeStep(t, "own", "done", tap[t].by)

-----------------------------------------------------------------------------
(* The environment. *)

\* The application is killed and started again.  Everything in memory is
\* gone; deletes are kept by Firestore's own persistence.
Crash(u) ==
    /\ faults < MaxFaults
    /\ faults' = faults + 1
    /\ route' = [r \in Routes |->
                   IF route[r].by = u
                   THEN [route[r] EXCEPT !.state = "closed"] ELSE route[r]]
    /\ call' = [c \in Calls |->
                  IF call[c].by = u /\ InFlight(c)
                  THEN [call[c] EXCEPT !.pc = "aborted"] ELSE call[c]]
    /\ tap' = [t \in Taps |->
                 IF tap[t].by = u /\ tap[t].pc \in {"peer", "own"}
                 THEN [tap[t] EXCEPT !.pc = "aborted"] ELSE tap[t]]
    /\ seen' = [seen EXCEPT ![u] = Unseen]
    /\ tasks' = [tasks EXCEPT ![u] = {}]
    /\ entries' = [entries EXCEPT ![u] = {}]
    /\ UNCHANGED <<doc, unmatched, removals, now>>

Tick ==
    /\ now < MaxTime
    /\ now' = now + 1
    /\ UNCHANGED <<doc, route, call, tap, unmatched, seen, tasks, entries,
                   removals, faults>>

SendStep(c) ==
    \/ OwnGet(c) \/ OwnWrite(c) \/ PeerGet(c) \/ PeerWrite(c) \/ UpdateFails(c)

NudgeProgress(t) == NudgePeer(t) \/ NudgeOwn(t)

SetListGoesOn(u) ==
    \E d \in tasks[u], lag \in {0, NoonShift} : ProcessEntry(u, d, lag)

InboxStep(u) ==
    \/ Deliver(u)
    \/ SetListGoesOn(u)
    \/ RemovalLands(u)

Next ==
    \/ \E u \in Users, r \in Routes :
         OpenFromMatch(u, r) \/ OpenFromNotification(u, r) \/ OpenFromInbox(u, r)
    \/ \E c \in Calls, r \in Routes : StartSend(c, r)
    \/ \E c \in Calls : SendStep(c) \/ SendThrows(c)
    \/ \E u \in Users : InboxStep(u) \/ Crash(u)
    \/ \E t \in Taps, u \in Users : StartNudge(t, u)
    \/ \E t \in Taps : NudgeProgress(t)
    \/ Tick

Spec == Init /\ [][Next]_vars

\* Answers of the server and callbacks of the phone come in the end; what the
\* user, the clock and the faults do is up to them.
SendsAnswered == \A c \in Calls : WF_vars(SendStep(c))
NudgesAnswered == \A t \in Taps : WF_vars(NudgeProgress(t))
DeletesLand == \A u \in Users : WF_vars(RemovalLands(u))

\* Weak fairness of a snapshot and of the rest of setList, with what enables
\* them spelled out.
ListenersReport ==
    \A u \in Users : []<>(seen[u] = LocalView(u)) \/ []<><<Deliver(u)>>_vars
EntriesProcessed ==
    \A u \in Users : []<>(tasks[u] = {}) \/ []<><<SetListGoesOn(u)>>_vars

Fairness ==
    /\ SendsAnswered
    /\ NudgesAnswered
    /\ DeletesLand
    /\ ListenersReport
    /\ EntriesProcessed

FairSpec == Spec /\ Fairness

-----------------------------------------------------------------------------
(* Properties. *)

\* s is a time at which a nudge clock was started, by either user.
Stamped(s) == s # 0 /\ \E c \in Calls : s \in {call[c].own, call[c].other}

\* Some clock was started more than NudgeLimit ago.
SomeClockRanOut == \E s \in Time : Stamped(s) /\ now - s > NudgeLimit

Quiet == \A c \in Calls : ~InFlight(c)
Undisturbed == ~SomeClockRanOut /\ faults = 0

\* A clock of d, as it stands in d, has been running for longer than d allows.
Expired(d) ==
    \E s \in {d.sender, d.receiver} :
      s # 0 /\ now - s > (IF d.nudged THEN NudgedLimit ELSE NudgeLimit)

\* u's document still shows what d showed, but for the nudge mark.
SameClocks(u, d) ==
    doc[u].sender = d.sender /\ doc[u].receiver = d.receiver

\* A delete that lands (_removeUser is not awaited) takes away what setList
\* looked at when it was issued: unless another message has been written to
\* the document since, it is the phone's own document with the very clocks it
\* had then or the peer's with the same last message, and a clock of what was
\* looked at has run past the limit.  So neither half-written documents nor
\* deletes of both phones that cross take a conversation away early, and one
\* that was never a match stays.  The exception is real: an answer after the
\* snapshot, or a conversation begun anew before the delete lands, is lost.
RemovedOnlyAfterExpiry ==
    [][\A u \in Users : doc[u].exists /\ ~doc'[u].exists =>
          \E p \in Users :
            /\ removals[p] # <<>> /\ removals'[p] = Tail(removals[p])
            /\ Head(removals[p]).user = u
            /\ LET d == Head(removals[p]).saw IN
                 doc[u].msg = d.msg =>
                   Expired(d) /\ (p = u => SameClocks(u, d))]_vars

\* While no clock has run out and nothing fails, no call of onSendMessage is
\* cut short by the existence check gone stale, and once the calls are over
\* both users have the conversation in their inbox or neither has.
InboxesAgree ==
    Undisturbed =>
      /\ \A c \in Calls : call[c].pc # "aborted"
      /\ Quiet => (doc[Alice].exists <=> doc[Bob].exists)

\* With one message at a time the two documents agree in full when it is
\* over: the same last message, and a clock on the receiver's side exactly
\* when there is one on the sender's (an answer from the inbox stops both).
SerialSendsAgree ==
    MaxInFlight = 1 /\ Undisturbed /\ Quiet =>
      \A u \in Users :
        /\ doc[u].msg = doc[Peer(u)].msg
        /\ doc[u].sender # 0 <=> doc[Peer(u)].receiver # 0

\* The match is taken off the user's list only after a first message of that
\* user went out in full, so that a crash or a failed transaction half way
\* leaves the match to be used again.
MatchKeptUntilDelivered ==
    \A u \in unmatched :
      \E c \in Calls : call[c].by = u /\ call[c].pc = "done" /\ call[c].own # 0

\* Unless an answer, an expiry, a fault or a second send interferes, the nudge
\* marks of the two documents agree when no tap is under way: both phones wait
\* 72 hours or both wait 48, although the button and a send write the same
\* documents at the same time.
NudgeMarksAgree ==
    /\ MaxInFlight = 1
    /\ Undisturbed
    /\ \A r \in Routes : ~route[r].answering
    /\ \A t \in Taps : tap[t].pc \notin {"peer", "own"}
    => (doc[Alice].nudged <=> doc[Bob].nudged)

\* A message that was sent in full shows up as a row of the peer's inbox,
\* whatever restarts in between, unless the conversation has expired.
ConversationReachesPeer ==
    \A c \in Calls :
      call[c].pc = "done" ~>
        (entries[Peer(call[c].by)] # {} \/ SomeClockRanOut)
-----------------------------------------------------------------------------
(* DirectChat implements Conversation: a call of onSendMessage is a message,  *)
(* a document's last message is a row, and look-ups, snapshots, the list in   *)
(* memory and the nudge marks are steps the conversation does not see.        *)

StageOf(pc) ==
    CASE pc = "unused" -> "none"
      [] pc \in {"get", "write"} -> "composed"
      [] pc \in {"peerget", "peerwrite"} -> "posted"
      [] pc = "done" -> "arrived"
      [] OTHER -> "lost"

rowOf == [u \in Users |-> doc[u].msg]
stageOf == [c \in Calls |-> StageOf(call[c].pc)]
authorOf == [c \in Calls |-> call[c].by]

Conv == INSTANCE Conversation WITH
    Persons <- Users, Other <- Peer, Messages <- Calls, NoMessage <- NoCall,
    Nobody <- NoUser, row <- rowOf, stage <- stageOf, author <- authorOf,
    ranOut <- SomeClockRanOut, failed <- (faults > 0)

\* The two phones keep the conversation's promise: a message shows in the
\* author's row before the peer's, once each, whatever the screens, snapshots,
\* deletes, nudges and restarts interleave; a call of onSendMessage is cut
\* short only by an expiry or a fault, and _removeUser takes a row away only
\* after an expiry.
KeepsThePromise == Conv!Promise

\* And no message stays on its way: every call that has been started reaches
\* the peer's document or is cut short by what the promise allows.
NoMessageIsStuck == Conv!FairPromise
=============================================================================
