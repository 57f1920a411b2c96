-------------------------- MODULE DirectChatProofs --------------------------
(***************************************************************************)
(* Proofs about DirectChat, for any sets of screens, calls and taps and    *)
(* any bounds.                                                             *)
(***************************************************************************)
EXTENDS DirectChat, SequenceTheorems, FiniteSetTheorems, TLAPS

USE DEF Users

\* The two users are each other's peer.
LEMMA PeerFacts ==
    \A u \in Users : Peer(u) \in Users /\ Peer(u) # u /\ Peer(Peer(u)) = u
BY UsersAssumption DEF Peer

-----------------------------------------------------------------------------
(* The first invariant: types, who owns what, and where stamps come from.  *)

\* A call, a tap or a screen that was started belongs to a user, and a call's
\* stamps are there only once the corresponding map was built.
OwnersOK ==
    /\ \A r \in Routes : route[r].state # "unused" => route[r].by \in Users
    /\ \A t \in Taps : tap[t].pc # "unused" => tap[t].by \in Users
    /\ \A c \in Calls :
         /\ call[c].pc # "unused" =>
              /\ call[c].by \in Users
              /\ call[c].route \in Routes
              /\ route[call[c].route].by = call[c].by
              /\ route[call[c].route].state # "unused"
         /\ call[c].pc = "unused" => call[c].own = 0
         /\ call[c].pc \in {"unused", "get", "write"} => call[c].other = 0

\* s is a time at which a call of cs started a clock.
StampedIn(cs, s) == s # 0 /\ \E c \in Calls : s \in {cs[c].own, cs[c].other}

\* A document that exists was written by a started call of cs, and its clocks
\* were started by calls of cs.
Justified(cs, d) ==
    /\ d.exists => d.msg \in Calls /\ cs[d.msg].pc # "unused"
    /\ d.sender # 0 => StampedIn(cs, d.sender)
    /\ d.receiver # 0 => StampedIn(cs, d.receiver)

DocsOK ==
    /\ \A u \in Users : Justified(call, doc[u])
    /\ \A u \in Users : \A d \in tasks[u] : d.exists /\ Justified(call, d)

TypeInv == Typed /\ OwnersOK /\ DocsOK

\* The first start of the two phones, before any call of onSendMessage, has the
\* right types, and no document needs a justification.
LEMMA InitTypeInv == Init => TypeInv
<1> SUFFICES ASSUME Init PROVE TypeInv
  OBVIOUS
<1>1. Typed
  BY BoundsAssumption DEF Init, Typed, Doc, NoDoc, Route, Call, Tap, Entry, Time
<1>2. OwnersOK
  BY DEF Init, OwnersOK
<1>3. DocsOK
  BY DEF Init, DocsOK, Justified, NoDoc
<1>4. QED
  BY <1>1, <1>2, <1>3 DEF TypeInv

\* Replacing fields of a record of the right type keeps the type.
LEMMA CallUpdates ==
    ASSUME call \in [Calls -> Call], NEW c \in Calls, NEW b \in BOOLEAN,
           NEW s \in Time,
           NEW p \in {"get", "write", "peerget", "peerwrite", "done", "aborted"}
    PROVE  /\ [call EXCEPT ![c].pc = p] \in [Calls -> Call]
           /\ [call EXCEPT ![c].pc = p, ![c].found = b] \in [Calls -> Call]
           /\ [call EXCEPT ![c].pc = p, ![c].found = b, ![c].other = s]
                \in [Calls -> Call]
<1>1. [call EXCEPT ![c].pc = p] \in [Calls -> Call]
  BY DEF Call
<1>2. [call EXCEPT ![c].pc = p, ![c].found = b] \in [Calls -> Call]
  <2>1. \A k \in Call : [k EXCEPT !.pc = p, !.found = b] \in Call
    BY DEF Call
  <2>2. [call EXCEPT ![c].pc = p, ![c].found = b] =
        [call EXCEPT ![c] = [call[c] EXCEPT !.pc = p, !.found = b]]
    BY DEF Call
  <2>3. QED
    BY <2>1, <2>2
<1>3. [call EXCEPT ![c].pc = p, ![c].found = b, ![c].other = s]
        \in [Calls -> Call]
  <2>1. \A k \in Call : [k EXCEPT !.pc = p, !.found = b, !.other = s] \in Call
    BY DEF Call
  <2>2. [call EXCEPT ![c].pc = p, ![c].found = b, ![c].other = s] =
        [call EXCEPT ![c] = [call[c] EXCEPT !.pc = p, !.found = b, !.other = s]]
    BY DEF Call
  <2>3. QED
    BY <2>1, <2>2
<1>4. QED
  BY <1>1, <1>2, <1>3

\* onSendMessage resets isMatches of a route and keeps the rest of it.
LEMMA RouteUpdates ==
    ASSUME route \in [Routes -> Route], NEW r \in Routes
    PROVE  [route EXCEPT ![r].match = FALSE] \in [Routes -> Route]
BY DEF Route

\* A step of the nudge button's handler only moves its program counter.
LEMMA TapUpdates ==
    ASSUME tap \in [Taps -> Tap], NEW t \in Taps,
           NEW p \in {"own", "done", "aborted"}
    PROVE  [tap EXCEPT ![t].pc = p] \in [Taps -> Tap]
BY DEF Tap

\* A crash replaces fields of records of the right types.
LEMMA CrashUpdates ==
    ASSUME route \in [Routes -> Route], call \in [Calls -> Call],
           tap \in [Taps -> Tap], NEW u \in Users, Crash(u)
    PROVE  /\ route' \in [Routes -> Route]
           /\ call' \in [Calls -> Call]
           /\ tap' \in [Taps -> Tap]
<1>1. \A r \in Routes : [route[r] EXCEPT !.state = "closed"] \in Route
  BY DEF Route
<1>2. \A c \in Calls : [call[c] EXCEPT !.pc = "aborted"] \in Call
  BY DEF Call
<1>3. \A t \in Taps : [tap[t] EXCEPT !.pc = "aborted"] \in Tap
  BY DEF Tap
<1>4. QED
  BY <1>1, <1>2, <1>3 DEF Crash

\* What a delete leaves behind is a value of the documents' type.
LEMMA NoDocType == NoDoc \in Doc
BY BoundsAssumption DEF NoDoc, Doc, Time

\* The nudge button's update of isNudgeSent keeps the documents' types.
LEMMA MarkType ==
    ASSUME doc \in [Users -> Doc], NEW u \in Users
    PROVE  [doc EXCEPT ![u].nudged = TRUE] \in [Users -> Doc]
BY DEF Doc

\* The update and the set of onSendMessage write documents of the right type.
LEMMA WriteType ==
    ASSUME NEW d \in Doc, NEW c \in Calls, NEW s \in Time, NEW t \in Time
    PROVE  UpdateDoc(d, c, s, t) \in Doc /\ SetDoc(c, s, t) \in Doc
BY DEF UpdateDoc, SetDoc, Doc, Time

\* Opening a chat screen, whoever passes the route argument, keeps the types.
LEMMA OpenType ==
    ASSUME Typed, NEW u \in Users, NEW r \in Routes,
           NEW m \in BOOLEAN, NEW a \in BOOLEAN, Open(u, r, m, a)
    PROVE  Typed'
<1>1. route' \in [Routes -> Route]
  BY DEF Typed, Open, Route
<1>2. QED
  BY <1>1 DEF Typed, Open

\* A stamp is a time, and a call starts at one of its first steps.
LEMMA StampFacts ==
    ASSUME Typed, NEW r \in Routes
    PROVE  /\ Stamp(r) \in Time
           /\ FirstStep(r, "get", "write") \in {"get", "write"}
           /\ FirstStep(r, "peerget", "peerwrite") \in {"peerget", "peerwrite"}
BY BoundsAssumption DEF Typed, Stamp, FirstStep, Time

\* Every step keeps the types.
LEMMA TypedStep == TypeInv /\ [Next]_vars => Typed'
<1> SUFFICES ASSUME TypeInv, [Next]_vars PROVE Typed'
  OBVIOUS
<1>0. Typed /\ OwnersOK /\ DocsOK
  BY DEF TypeInv
<1>1. ASSUME NEW u \in Users, NEW r \in Routes, OpenFromMatch(u, r)
      PROVE  Typed'
  BY <1>0, <1>1, OpenType DEF OpenFromMatch
<1>2. ASSUME NEW u \in Users, NEW r \in Routes, OpenFromNotification(u, r)
      PROVE  Typed'
  BY <1>0, <1>2, OpenType DEF OpenFromNotification
<1>3. ASSUME NEW u \in Users, NEW r \in Routes, OpenFromInbox(u, r)
      PROVE  Typed'
  <2>1. PICK e \in entries[u] : Open(u, r, FALSE, e.answering)
    BY <1>3 DEF OpenFromInbox
  <2>2. e.answering \in BOOLEAN
    BY <1>0 DEF Typed, Entry
  <2>3. QED
    BY <1>0, <2>1, <2>2, OpenType
<1>4. ASSUME NEW c \in Calls, NEW r \in Routes, StartSend(c, r)
      PROVE  Typed'
  <2>1. route[r].by \in Users /\ 0 \in Time
    BY <1>0, <1>4, BoundsAssumption DEF StartSend, OwnersOK, Time
  <2>2. [pc |-> FirstStep(r, "get", "write"), route |-> r, by |-> route[r].by,
         found |-> FALSE, own |-> Stamp(r), other |-> 0] \in Call
    BY <1>0, <2>1, StampFacts DEF Call
  <2>3. QED
    BY <1>0, <1>4, <2>2 DEF Typed, StartSend
<1>5. ASSUME NEW c \in Calls, OwnGet(c) \/ PeerGet(c)
      PROVE  Typed'
  <2>1. call[c].by \in Users /\ Peer(call[c].by) \in Users
    BY <1>0, <1>5, PeerFacts DEF OwnGet, PeerGet, OwnersOK
  <2>2. /\ doc[call[c].by].exists \in BOOLEAN
        /\ doc[Peer(call[c].by)].exists \in BOOLEAN
    BY <1>0, <2>1 DEF Typed, Doc
  <2>3. 0 \in Time
    BY BoundsAssumption DEF Time
  <2>4. PICK b \in BOOLEAN, p \in {"write", "peerwrite"} :
          call' = [call EXCEPT ![c].pc = p, ![c].found = b]
    BY <1>5, <2>2 DEF OwnGet, PeerGet
  <2>5. call' \in [Calls -> Call]
    BY <1>0, <2>3, <2>4, CallUpdates DEF Typed
  <2>6. QED
    BY <1>0, <1>5, <2>5 DEF Typed, OwnGet, PeerGet
<1>6. ASSUME NEW c \in Calls, OwnWrite(c)
      PROVE  Typed'
  <2>1. /\ call[c].by \in Users /\ call[c].route \in Routes
        /\ call[c].own \in Time /\ 0 \in Time
    BY <1>0, <1>6, BoundsAssumption DEF OwnWrite, OwnersOK, Typed, Call, Time
  <2>2. doc' \in [Users -> Doc]
    BY <1>0, <1>6, <2>1, WriteType DEF OwnWrite, Typed
  <2>3. call' \in [Calls -> Call]
    BY <1>0, <1>6, <2>1, StampFacts, CallUpdates DEF OwnWrite, Typed
  <2>4. QED
    BY <1>0, <1>6, <2>2, <2>3 DEF OwnWrite, Typed
<1>7. ASSUME NEW c \in Calls, PeerWrite(c)
      PROVE  Typed'
  <2>1. /\ call[c].by \in Users /\ Peer(call[c].by) \in Users
        /\ call[c].route \in Routes
        /\ call[c].other \in Time /\ 0 \in Time
    BY <1>0, <1>7, BoundsAssumption, PeerFacts
       DEF PeerWrite, OwnersOK, Typed, Call, Time
  <2>2. doc' \in [Users -> Doc]
    BY <1>0, <1>7, <2>1, WriteType DEF PeerWrite, Typed
  <2>3. call' \in [Calls -> Call]
    BY <1>0, <1>7, <2>1, CallUpdates DEF PeerWrite, Typed
  <2>4. route' \in [Routes -> Route]
    BY <1>0, <1>7, <2>1, RouteUpdates DEF PeerWrite, Typed
  <2>5. unmatched' \subseteq Users
    BY <1>0, <1>7, <2>1 DEF PeerWrite, Typed
  <2>6. QED
    BY <1>0, <1>7, <2>2, <2>3, <2>4, <2>5 DEF PeerWrite, Typed
<1>8. ASSUME NEW c \in Calls, UpdateFails(c) \/ SendThrows(c)
      PROVE  Typed'
  <2>1. call' = [call EXCEPT ![c].pc = "aborted"]
    BY <1>8 DEF UpdateFails, SendThrows
  <2>2. call \in [Calls -> Call] /\ 0 \in Time
    BY <1>0, BoundsAssumption DEF Typed, Time
  <2>3. call' \in [Calls -> Call]
    BY <2>1, <2>2, CallUpdates
  <2>4. faults' \in 0..MaxFaults
    BY <1>0, <1>8, BoundsAssumption DEF UpdateFails, SendThrows, Typed
  <2>5. QED
    BY <1>0, <1>8, <2>3, <2>4 DEF UpdateFails, SendThrows, Typed
<1>9. ASSUME NEW u \in Users, Deliver(u)
      PROVE  Typed'
  <2>1. LocalView(u) \in Doc
    BY <1>0, NoDocType DEF LocalView, Typed
  <2>2. seen' \in [Users -> Doc \union {Unseen}]
    BY <1>0, <1>9, <2>1 DEF Deliver, Typed
  <2>3. tasks' \in [Users -> SUBSET Doc]
    BY <1>0, <1>9, <2>1 DEF Deliver, Typed
  <2>4. QED
    BY <1>0, <1>9, <2>2, <2>3 DEF Deliver, Typed
<1>10. ASSUME NEW u \in Users, NEW d \in tasks[u], NEW lag \in {0, NoonShift},
              ProcessEntry(u, d, lag)
       PROVE  Typed'
  <2>1. d \in Doc /\ d.msg \in Calls /\ call[d.msg].by \in Users
    BY <1>0 DEF Typed, DocsOK, Justified, OwnersOK
  <2>2. BothDocs(d) \in Seq(Removal)
    BY <2>1, PeerFacts DEF BothDocs, Removal
  <2>3. Deletes(d, now - lag) \in Seq(Removal)
    BY <2>2 DEF Deletes
  <2>4. removals' \in [Users -> Seq(Removal)]
    BY <1>0, <1>10, <2>3 DEF ProcessEntry, Typed
  <2>5. PICK a \in BOOLEAN, b \in BOOLEAN :
          entries' = [entries EXCEPT ![u] =
            @ \union {[answering |-> a, counting |-> b, nudged |-> d.nudged]}]
    BY <1>10 DEF ProcessEntry
  <2>6. [answering |-> a, counting |-> b, nudged |-> d.nudged] \in Entry
    BY <2>1 DEF Entry, Doc
  <2>7. entries' \in [Users -> SUBSET Entry]
    BY <1>0, <2>5, <2>6 DEF Typed
  <2>8. tasks' \in [Users -> SUBSET Doc]
    BY <1>0, <1>10 DEF ProcessEntry, Typed
  <2>9. QED
    BY <1>0, <1>10, <2>4, <2>7, <2>8 DEF ProcessEntry, Typed
<1>11. ASSUME NEW u \in Users, RemovalLands(u)
       PROVE  Typed'
  <2>1. Head(removals[u]).user \in Users /\ Tail(removals[u]) \in Seq(Removal)
    <3>1. Head(removals[u]) \in Removal /\ Tail(removals[u]) \in Seq(Removal)
      BY <1>0, <1>11 DEF RemovalLands, Typed
    <3>2. QED
      BY <3>1 DEF Removal
  <2>2. doc' \in [Users -> Doc]
    BY <1>0, <1>11, <2>1, NoDocType DEF RemovalLands, Typed
  <2>3. removals' \in [Users -> Seq(Removal)]
    BY <1>0, <1>11, <2>1 DEF RemovalLands, Typed
  <2>4. QED
    BY <1>0, <1>11, <2>2, <2>3 DEF RemovalLands, Typed
<1>12. ASSUME NEW u \in Users, Crash(u)
       PROVE  Typed'
  <2>1. /\ route' \in [Routes -> Route]
        /\ call' \in [Calls -> Call]
        /\ tap' \in [Taps -> Tap]
    BY <1>0, <1>12, CrashUpdates DEF Typed
  <2>2. faults' \in 0..MaxFaults
    BY <1>0, <1>12, BoundsAssumption DEF Crash, Typed
  <2>3. QED
    BY <1>0, <1>12, <2>1, <2>2 DEF Crash, Typed
<1>13. ASSUME NEW t \in Taps, NEW u \in Users, StartNudge(t, u)
       PROVE  Typed'
  BY <1>0, <1>13 DEF StartNudge, Typed, Tap
<1>14. ASSUME NEW t \in Taps, NudgePeer(t) \/ NudgeOwn(t)
       PROVE  Typed'
  <2>1. tap[t].by \in Users
    BY <1>0, <1>14 DEF NudgePeer, NudgeOwn, NudgeStep, OwnersOK
  <2>2. PICK v \in Users, from \in {"peer", "own"}, to \in {"own", "done"} :
          NudgeStep(t, from, to, v)
    BY <1>14, <2>1, PeerFacts DEF NudgePeer, NudgeOwn
  <2>3. tap' \in [Taps -> Tap]
    <3>1. PICK p \in {"own", "done", "aborted"} :
            tap' = [tap EXCEPT ![t].pc = p]
      BY <2>2 DEF NudgeStep
    <3>2. QED
      BY <1>0, <3>1, TapUpdates DEF Typed
  <2>4. [doc EXCEPT ![v].nudged = TRUE] \in [Users -> Doc]
    BY <1>0, MarkType DEF Typed
  <2>5. doc' \in [Users -> Doc]
    BY <1>0, <2>2, <2>4 DEF NudgeStep, Typed
  <2>6. QED
    BY <1>0, <2>2, <2>3, <2>5 DEF NudgeStep, Typed
<1>15. CASE Tick
  BY <1>0, <1>15, BoundsAssumption DEF Tick, Typed
<1>16. CASE UNCHANGED vars
  BY <1>0, <1>16 DEF vars, Typed
<1>17. QED
  BY <1>1, <1>2, <1>3, <1>4, <1>5, <1>6, <1>7, <1>8, <1>9, <1>10, <1>11, <1>12,
     <1>13, <1>14, <1>15, <1>16 DEF Next, SendStep, InboxStep,
         SetListGoesOn, NudgeProgress

-----------------------------------------------------------------------------
(* What a step does to the calls: they start, they fill in stamps, and they *)
(* never forget any.                                                        *)

CallsGrow ==
    /\ \A c \in Calls :
         /\ call[c].pc # "unused" => /\ call'[c].pc # "unused"
                                     /\ call'[c].own = call[c].own
                                     /\ call'[c].by = call[c].by
         /\ call[c].other # 0 => call'[c].other = call[c].other
    /\ now <= now'
    /\ faults <= faults'

\* No handler rewrites the stamps a call of onSendMessage has put into its maps,
\* and neither the clock nor the number of faults goes back.
LEMMA CallsGrowStep == TypeInv /\ [Next]_vars => CallsGrow
<1> SUFFICES ASSUME TypeInv, [Next]_vars PROVE CallsGrow
  OBVIOUS
<1>0. /\ call \in [Calls -> Call] /\ now \in Int /\ faults \in Int
      /\ \A c \in Calls :
           call[c].pc \in {"unused", "get", "write"} => call[c].other = 0
  BY BoundsAssumption DEF TypeInv, Typed, OwnersOK
<1>1. ASSUME NEW u \in Users, NEW r \in Routes,
             OpenFromMatch(u, r) \/ OpenFromNotification(u, r)
               \/ OpenFromInbox(u, r)
      PROVE  CallsGrow
  BY <1>0, <1>1 DEF OpenFromMatch, OpenFromNotification, OpenFromInbox, Open,
                    CallsGrow
<1>2. ASSUME NEW c \in Calls, NEW r \in Routes, StartSend(c, r)
      PROVE  CallsGrow
  BY <1>0, <1>2 DEF StartSend, CallsGrow
<1>3. ASSUME NEW c \in Calls, OwnGet(c) \/ PeerGet(c)
      PROVE  CallsGrow
  BY <1>0, <1>3 DEF OwnGet, PeerGet, CallsGrow, Call
<1>4. ASSUME NEW c \in Calls, OwnWrite(c)
      PROVE  CallsGrow
  BY <1>0, <1>4 DEF OwnWrite, FirstStep, CallsGrow, Call
<1>5. ASSUME NEW c \in Calls, PeerWrite(c)
      PROVE  CallsGrow
  BY <1>0, <1>5 DEF PeerWrite, CallsGrow, Call
<1>6. ASSUME NEW c \in Calls, UpdateFails(c) \/ SendThrows(c)
      PROVE  CallsGrow
  BY <1>0, <1>6 DEF UpdateFails, SendThrows, CallsGrow, Call
<1>7. ASSUME NEW u \in Users, Deliver(u) \/ RemovalLands(u)
      PROVE  CallsGrow
  BY <1>0, <1>7 DEF Deliver, RemovalLands, CallsGrow
<1>8. ASSUME NEW u \in Users, NEW d \in tasks[u], NEW lag \in {0, NoonShift},
             ProcessEntry(u, d, lag)
      PROVE  CallsGrow
  BY <1>0, <1>8 DEF ProcessEntry, CallsGrow
<1>9. ASSUME NEW u \in Users, Crash(u)
      PROVE  CallsGrow
  BY <1>0, <1>9 DEF Crash, InFlight, CallsGrow, Call
<1>10. ASSUME NEW t \in Taps, NEW u \in Users, StartNudge(t, u)
       PROVE  CallsGrow
  BY <1>0, <1>10 DEF StartNudge, CallsGrow
<1>11. ASSUME NEW t \in Taps, NudgePeer(t) \/ NudgeOwn(t)
       PROVE  CallsGrow
  BY <1>0, <1>11 DEF NudgePeer, NudgeOwn, NudgeStep, CallsGrow
<1>12. CASE Tick
  BY <1>0, <1>12 DEF Tick, CallsGrow
<1>13. CASE UNCHANGED vars
  BY <1>0, <1>13 DEF vars, CallsGrow
<1>14. QED
  BY <1>1, <1>2, <1>3, <1>4, <1>5, <1>6, <1>7, <1>8, <1>9, <1>10, <1>11, <1>12,
     <1>13 DEF Next, SendStep, InboxStep, SetListGoesOn, NudgeProgress

\* A time that is stamped stays stamped.
LEMMA StampedKept ==
    ASSUME TypeInv, CallsGrow, NEW s, StampedIn(call, s)
    PROVE  StampedIn(call', s)
<1>1. PICK c \in Calls : s # 0 /\ s \in {call[c].own, call[c].other}
  BY DEF StampedIn
<1>2. call[c].pc # "unused" \/ call[c].other # 0
  BY <1>1 DEF TypeInv, OwnersOK
<1>3. s \in {call'[c].own, call'[c].other}
  BY <1>1, <1>2 DEF CallsGrow, TypeInv, OwnersOK
<1>4. QED
  BY <1>1, <1>3 DEF StampedIn

\* A document keeps its justification as the calls grow.
LEMMA JustifiedKept ==
    ASSUME TypeInv, CallsGrow, NEW d, Justified(call, d)
    PROVE  Justified(call', d)
BY StampedKept DEF CallsGrow, Justified

\* Every step keeps the owners.
LEMMA OwnersOKStep == TypeInv /\ [Next]_vars => OwnersOK'
<1> SUFFICES ASSUME TypeInv, [Next]_vars PROVE OwnersOK'
  OBVIOUS
<1>0. /\ route \in [Routes -> Route] /\ call \in [Calls -> Call]
      /\ tap \in [Taps -> Tap] /\ OwnersOK
  BY DEF TypeInv, Typed
<1>1. ASSUME NEW u \in Users, NEW r \in Routes,
             OpenFromMatch(u, r) \/ OpenFromNotification(u, r)
               \/ OpenFromInbox(u, r)
      PROVE  OwnersOK'
  <2>1. PICK m, a : Open(u, r, m, a)
    BY <1>1 DEF OpenFromMatch, OpenFromNotification, OpenFromInbox
  <2>2. /\ route[r].state = "unused" /\ UNCHANGED <<call, tap>>
        /\ route' = [route EXCEPT ![r] = [state |-> "open", by |-> u,
                                         match |-> m, answering |-> a]]
    BY <2>1 DEF Open
  <2>3. \A c \in Calls : call[c].pc # "unused" => call[c].route # r
    BY <1>0, <2>2 DEF OwnersOK
  <2>4. QED
    BY <1>0, <2>2, <2>3 DEF OwnersOK
<1>2. ASSUME NEW c \in Calls, NEW r \in Routes, StartSend(c, r)
      PROVE  OwnersOK'
  BY <1>0, <1>2 DEF StartSend, OwnersOK, FirstStep
<1>3. ASSUME NEW c \in Calls, OwnGet(c) \/ PeerGet(c)
      PROVE  OwnersOK'
  <2>1. UNCHANGED <<route, tap>>
    BY <1>3 DEF OwnGet, PeerGet
  <2>2. \A d \in Calls :
          /\ call'[d].by = call[d].by /\ call'[d].route = call[d].route
          /\ call'[d].own = call[d].own /\ call'[d].other = call[d].other
          /\ call'[d].pc = "unused" <=> call[d].pc = "unused"
          /\ call'[d].pc = "get" => call[d].pc = "get"
          /\ call'[d].pc = "write" => call[d].pc \in {"get", "write"}
    <3>1. CASE OwnGet(c)
      BY <1>0, <3>1 DEF OwnGet, Call
    <3>2. CASE PeerGet(c)
      BY <1>0, <3>2 DEF PeerGet, Call
    <3>3. QED
      BY <1>3, <3>1, <3>2
  <2>3. QED
    BY <1>0, <2>1, <2>2 DEF OwnersOK
<1>4. ASSUME NEW c \in Calls, OwnWrite(c)
      PROVE  OwnersOK'
  <2>1. UNCHANGED <<route, tap>>
    BY <1>4 DEF OwnWrite
  <2>2. \A d \in Calls :
          /\ call'[d].by = call[d].by /\ call'[d].route = call[d].route
          /\ call'[d].own = call[d].own
          /\ call'[d].pc = "unused" <=> call[d].pc = "unused"
          /\ call'[d].pc \in {"unused", "get", "write"} =>
               call'[d].pc = call[d].pc /\ call'[d].other = call[d].other
    BY <1>0, <1>4 DEF OwnWrite, FirstStep, Call
  <2>3. QED
    BY <1>0, <2>1, <2>2 DEF OwnersOK
<1>5. ASSUME NEW c \in Calls, PeerWrite(c)
      PROVE  OwnersOK'
  BY <1>0, <1>5 DEF PeerWrite, OwnersOK, Call, Route
<1>6. ASSUME NEW c \in Calls, UpdateFails(c) \/ SendThrows(c)
      PROVE  OwnersOK'
  BY <1>0, <1>6 DEF UpdateFails, SendThrows, InFlight, OwnersOK, Call
<1>7. ASSUME NEW u \in Users, Deliver(u) \/ RemovalLands(u)
      PROVE  OwnersOK'
  BY <1>0, <1>7 DEF Deliver, RemovalLands, OwnersOK
<1>8. ASSUME NEW u \in Users, NEW d \in tasks[u], NEW lag \in {0, NoonShift},
             ProcessEntry(u, d, lag)
      PROVE  OwnersOK'
  BY <1>0, <1>8 DEF ProcessEntry, OwnersOK
<1>9. ASSUME NEW u \in Users, Crash(u)
      PROVE  OwnersOK'
  <2>1. \A r \in Routes :
          /\ route'[r].by = route[r].by
          /\ route[r].state # "unused" => route'[r].state # "unused"
          /\ route'[r].state = route[r].state \/ route[r].by = u
    BY <1>0, <1>9 DEF Crash, Route
  <2>2. \A r \in Routes : route'[r].state # "unused" => route'[r].by \in Users
    BY <1>0, <2>1 DEF OwnersOK
  <2>3. \A t \in Taps : tap'[t].pc # "unused" => tap'[t].by \in Users
    BY <1>0, <1>9 DEF Crash, Tap, OwnersOK
  <2>4. \A c \in Calls : /\ call'[c].route = call[c].route
                         /\ call'[c].by = call[c].by
                         /\ call'[c].own = call[c].own
                         /\ call'[c].other = call[c].other
                         /\ call'[c].pc = "unused" <=> call[c].pc = "unused"
                         /\ call'[c].pc \in {call[c].pc, "aborted"}
    BY <1>0, <1>9 DEF Crash, InFlight, Call
  <2>5. QED
    BY <1>0, <2>1, <2>2, <2>3, <2>4 DEF OwnersOK
<1>10. ASSUME NEW t \in Taps, NEW u \in Users, StartNudge(t, u)
       PROVE  OwnersOK'
  BY <1>0, <1>10 DEF StartNudge, OwnersOK
<1>11. ASSUME NEW t \in Taps, NudgePeer(t) \/ NudgeOwn(t)
       PROVE  OwnersOK'
  <2>1. PICK p \in {"own", "done", "aborted"} :
          tap' = [tap EXCEPT ![t].pc = p]
    BY <1>11 DEF NudgePeer, NudgeOwn, NudgeStep
  <2>2. tap[t].pc # "unused" /\ UNCHANGED <<route, call>>
    BY <1>11 DEF NudgePeer, NudgeOwn, NudgeStep
  <2>3. QED
    BY <1>0, <2>1, <2>2 DEF OwnersOK, Tap
<1>12. CASE Tick
  BY <1>0, <1>12 DEF Tick, OwnersOK
<1>13. CASE UNCHANGED vars
  BY <1>0, <1>13 DEF vars, OwnersOK
<1>14. QED
  BY <1>1, <1>2, <1>3, <1>4, <1>5, <1>6, <1>7, <1>8, <1>9, <1>10, <1>11, <1>12,
     <1>13 DEF Next, SendStep, InboxStep, SetListGoesOn, NudgeProgress

\* A document a step writes is justified by the call that writes it.
LEMMA WrittenJustified ==
    ASSUME TypeInv, CallsGrow, NEW c \in Calls, call'[c].pc # "unused",
           NEW s \in Time, s # 0 => s \in {call'[c].own, call'[c].other},
           NEW t \in Time, t # 0 => t \in {call'[c].own, call'[c].other},
           NEW d \in Doc, Justified(call, d)
    PROVE  /\ Justified(call', SetDoc(c, s, t))
           /\ Justified(call', UpdateDoc(d, c, s, t))
<1>1. (s # 0 => StampedIn(call', s)) /\ (t # 0 => StampedIn(call', t))
  BY DEF StampedIn
<1>2. Justified(call', d)
  BY JustifiedKept
<1>3. Justified(call', SetDoc(c, s, t))
  BY <1>1 DEF SetDoc, Justified
<1>4. /\ UpdateDoc(d, c, s, t).msg = c
      /\ UpdateDoc(d, c, s, t).sender = IF s = 0 THEN d.sender ELSE s
      /\ UpdateDoc(d, c, s, t).receiver = IF t = 0 THEN d.receiver ELSE t
  BY DEF UpdateDoc, Doc
<1>5. Justified(call', UpdateDoc(d, c, s, t))
  BY <1>1, <1>2, <1>4 DEF Justified
<1>6. QED
  BY <1>3, <1>5

\* Every step keeps the documents justified.
LEMMA DocsOKStep == TypeInv /\ [Next]_vars => DocsOK'
<1> SUFFICES ASSUME TypeInv, [Next]_vars PROVE DocsOK'
  OBVIOUS
<1>0. /\ CallsGrow
      /\ OwnersOK
      /\ doc \in [Users -> Doc] /\ call \in [Calls -> Call]
      /\ tasks \in [Users -> SUBSET Doc]
      /\ \A u \in Users : Justified(call, doc[u]) /\ Justified(call', doc[u])
      /\ \A u \in Users : \A d \in tasks[u] : d.exists /\ Justified(call', d)
  BY CallsGrowStep, JustifiedKept DEF TypeInv, Typed, DocsOK
<1>1. CASE UNCHANGED <<doc, tasks>>
  BY <1>0, <1>1 DEF DocsOK
<1>2. ASSUME NEW c \in Calls, OwnWrite(c)
      PROVE  DocsOK'
  <2>1. /\ call'[c].pc # "unused" /\ call[c].own \in Time /\ 0 \in Time
        /\ call'[c].own = call[c].own /\ call[c].by \in Users
    BY <1>0, <1>2, BoundsAssumption
       DEF OwnWrite, CallsGrow, OwnersOK, Call, Time
  <2>2. Justified(call', doc'[call[c].by])
    BY <1>0, <1>2, <2>1, WrittenJustified DEF OwnWrite
  <2>3. QED
    BY <1>0, <1>2, <2>1, <2>2 DEF OwnWrite, DocsOK
<1>3. ASSUME NEW c \in Calls, PeerWrite(c)
      PROVE  DocsOK'
  <2>1. /\ call'[c].pc # "unused" /\ call[c].other \in Time /\ 0 \in Time
        /\ call'[c].other = call[c].other /\ Peer(call[c].by) \in Users
    BY <1>0, <1>3, BoundsAssumption, PeerFacts
       DEF PeerWrite, CallsGrow, OwnersOK, Call, Time
  <2>2. Justified(call', doc'[Peer(call[c].by)])
    BY <1>0, <1>3, <2>1, WrittenJustified DEF PeerWrite
  <2>3. QED
    BY <1>0, <1>3, <2>1, <2>2 DEF PeerWrite, DocsOK
<1>4. ASSUME NEW u \in Users, Deliver(u)
      PROVE  DocsOK'
  <2>1. LocalView(u).exists => LocalView(u) = doc[u]
    BY DEF LocalView, NoDoc
  <2>2. QED
    BY <1>0, <1>4, <2>1 DEF Deliver, DocsOK
<1>5. ASSUME NEW u \in Users, NEW d \in tasks[u], NEW lag \in {0, NoonShift},
             ProcessEntry(u, d, lag)
      PROVE  DocsOK'
  BY <1>0, <1>5 DEF ProcessEntry, DocsOK
<1>6. ASSUME NEW u \in Users, RemovalLands(u)
      PROVE  DocsOK'
  <2>1. Justified(call', NoDoc)
    BY DEF Justified, NoDoc
  <2>2. QED
    BY <1>0, <1>6, <2>1 DEF RemovalLands, DocsOK
<1>7. ASSUME NEW u \in Users, Crash(u)
      PROVE  DocsOK'
  BY <1>0, <1>7 DEF Crash, DocsOK
<1>8. ASSUME NEW t \in Taps, NudgePeer(t) \/ NudgeOwn(t)
      PROVE  DocsOK'
  <2>1. \A u \in Users : /\ doc'[u].exists = doc[u].exists
                         /\ doc'[u].msg = doc[u].msg
                         /\ doc'[u].sender = doc[u].sender
                         /\ doc'[u].receiver = doc[u].receiver
    BY <1>0, <1>8 DEF NudgePeer, NudgeOwn, NudgeStep, Doc
  <2>2. UNCHANGED tasks
    BY <1>8 DEF NudgePeer, NudgeOwn, NudgeStep
  <2>3. QED
    BY <1>0, <2>1, <2>2 DEF DocsOK, Justified
<1>9. QED
  BY <1>1, <1>2, <1>3, <1>4, <1>5, <1>6, <1>7, <1>8
     DEF Next, SendStep, InboxStep,
         SetListGoesOn, NudgeProgress, vars, OpenFromMatch,
         OpenFromNotification, OpenFromInbox, Open, StartSend, OwnGet, PeerGet,
         UpdateFails, SendThrows, StartNudge, Tick

\* Types, owners and justifications hold in every state.
THEOREM TypesHold == Spec => []TypeInv
<1>1. Init => TypeInv
  BY InitTypeInv
<1>2. TypeInv /\ [Next]_vars => TypeInv'
  BY TypedStep, OwnersOKStep, DocsOKStep DEF TypeInv
<1>3. QED
  BY <1>1, <1>2, PTL DEF Spec

\* Type correctness of the specification, for every value of the constants: no
\* document is there without a message, the nudge button's updates included.
THEOREM TypeCorrect == Spec => []TypeOK
<1>1. TypeInv => TypeOK
  BY DEF TypeInv, DocsOK, Justified, TypeOK
<1>2. QED
  BY <1>1, TypesHold, PTL

-----------------------------------------------------------------------------
(* Nothing is deleted while no clock has run out: a delete is issued for a *)
(* document whose clocks were stamped by calls, calls keep their stamps,   *)
(* and time does not go back.                                              *)

RemovalsOK == \A u \in Users : removals[u] # <<>> => SomeClockRanOut

\* What has been running for too long stays so as time goes on.
LEMMA LaterStillOver ==
    ASSUME NEW a \in Int, NEW b \in Int, NEW s \in Int, NEW l \in Int,
           a - s > l, a <= b
    PROVE  b - s > l
OBVIOUS

\* A clock that has run out stays so: calls keep their stamps, and time does
\* not go back.
LEMMA RanOutKept ==
    TypeInv /\ TypeInv' /\ CallsGrow /\ SomeClockRanOut => SomeClockRanOut'
<1> SUFFICES ASSUME TypeInv, TypeInv', CallsGrow, SomeClockRanOut
             PROVE  SomeClockRanOut'
  OBVIOUS
<1>1. PICK s \in Time : Stamped(s) /\ now - s > NudgeLimit
  BY DEF SomeClockRanOut
<1>2. Stamped(s)'
  BY <1>1, StampedKept DEF Stamped, StampedIn
<1>3. now \in Int /\ now' \in Int /\ now <= now' /\ s \in Int
  <2>1. now \in 1..MaxTime /\ now' \in 1..MaxTime
    BY DEF TypeInv, Typed
  <2>2. now <= now'
    BY DEF CallsGrow
  <2>3. QED
    BY <2>1, <2>2, BoundsAssumption DEF Time
<1>4. now' - s > NudgeLimit
  <2>1. now - s > NudgeLimit /\ NudgeLimit \in Int
    BY <1>1, LimitsAssumption
  <2>2. QED
    BY <1>3, <2>1, LaterStillOver
<1>5. QED
  BY <1>2, <1>4 DEF SomeClockRanOut

\* setList issues deletes only when a clock of the document has run out, even
\* where it reads a time that lags.
LEMMA DeletesMeanExpiry ==
    ASSUME TypeInv, NEW u \in Users, NEW d \in tasks[u],
           NEW lag \in {0, NoonShift}, Deletes(d, now - lag) # <<>>
    PROVE  SomeClockRanOut
<1>1. \/ RanOut(d, d.receiver, now - lag)
      \/ RanOut(d, d.sender, now - lag)
  BY DEF Deletes
<1>2. PICK s \in {d.receiver, d.sender} : RanOut(d, s, now - lag)
  BY <1>1
<1>3. d \in Doc /\ Justified(call, d)
  BY DEF TypeInv, Typed, DocsOK
<1>4. s \in Time /\ s # 0 /\ Stamped(s)
  BY <1>2, <1>3 DEF RanOut, Justified, Doc, Stamped, StampedIn
<1>5. now - s > NudgeLimit
  BY <1>2, <1>4, LimitsAssumption, BoundsAssumption
     DEF RanOut, TypeInv, Typed, Time
<1>6. QED
  BY <1>4, <1>5 DEF SomeClockRanOut

\* setList's deletes are issued and land only with a clock that has run out.
LEMMA RemovalsOKStep ==
    TypeInv /\ TypeInv' /\ RemovalsOK /\ [Next]_vars => RemovalsOK'
<1> SUFFICES ASSUME TypeInv, TypeInv', RemovalsOK, [Next]_vars PROVE RemovalsOK'
  OBVIOUS
<1>0. SomeClockRanOut => SomeClockRanOut'
  BY CallsGrowStep, RanOutKept
<1>1. CASE UNCHANGED removals
  BY <1>0, <1>1 DEF RemovalsOK
<1>2. ASSUME NEW u \in Users, NEW d \in tasks[u], NEW lag \in {0, NoonShift},
             ProcessEntry(u, d, lag)
      PROVE  RemovalsOK'
  <2>1. CASE Deletes(d, now - lag) = <<>>
    <3>1. removals[u] \in Seq(Removal)
      BY DEF TypeInv, Typed
    <3>2. removals[u] \o <<>> = removals[u]
      BY <3>1
    <3>3. \A v \in Users : removals'[v] = removals[v]
      BY <1>2, <2>1, <3>2 DEF ProcessEntry, TypeInv, Typed
    <3>4. QED
      BY <1>0, <3>3 DEF RemovalsOK
  <2>2. CASE Deletes(d, now - lag) # <<>>
    BY <1>0, <2>2, DeletesMeanExpiry DEF RemovalsOK
  <2>3. QED
    BY <2>1, <2>2
<1>3. ASSUME NEW u \in Users, RemovalLands(u)
      PROVE  RemovalsOK'
  <2>1. SomeClockRanOut
    BY <1>3 DEF RemovalLands, RemovalsOK
  <2>2. QED
    BY <1>0, <2>1 DEF RemovalsOK
<1>4. QED
  BY <1>1, <1>2, <1>3
     DEF Next, SendStep, InboxStep,
         SetListGoesOn, NudgeProgress, vars, OpenFromMatch,
         OpenFromNotification, OpenFromInbox, Open, StartSend, OwnGet, OwnWrite,
         PeerGet, PeerWrite, UpdateFails, SendThrows, Deliver, Crash,
         StartNudge, NudgePeer, NudgeOwn, NudgeStep, Tick

\* Deletes are under way only when some clock of the conversation has run out.
THEOREM RemovalsHold == Spec => []RemovalsOK
<1>1. Init => RemovalsOK
  BY DEF Init, RemovalsOK
<1>2. QED
  BY <1>1, RemovalsOKStep, TypesHold, PTL DEF Spec

\* A step that removes a document is the landing of a delete of it.
LEMMA VanishLands ==
    ASSUME TypeInv, [Next]_vars, NEW u \in Users,
           doc[u].exists, ~doc'[u].exists
    PROVE  \E p \in Users : RemovalLands(p) /\ Head(removals[p]).user = u
<1>0. doc \in [Users -> Doc] /\ OwnersOK
  BY DEF TypeInv, Typed
<1>1. CASE doc' = doc
  BY <1>1
<1>2. ASSUME NEW c \in Calls, OwnWrite(c)
      PROVE  FALSE
  BY <1>0, <1>2 DEF OwnWrite, UpdateDoc, SetDoc, Doc
<1>3. ASSUME NEW c \in Calls, PeerWrite(c)
      PROVE  FALSE
  BY <1>0, <1>3 DEF PeerWrite, UpdateDoc, SetDoc, Doc
<1>4. ASSUME NEW p \in Users, RemovalLands(p)
      PROVE  Head(removals[p]).user = u
  BY <1>0, <1>4 DEF RemovalLands
<1>5. ASSUME NEW t \in Taps, NudgePeer(t) \/ NudgeOwn(t)
      PROVE  FALSE
  BY <1>0, <1>5 DEF NudgePeer, NudgeOwn, NudgeStep, Doc
<1>6. QED
  BY <1>1, <1>2, <1>3, <1>4, <1>5
     DEF Next, SendStep, InboxStep,
         SetListGoesOn, NudgeProgress, vars, OpenFromMatch,
         OpenFromNotification, OpenFromInbox, Open, StartSend, OwnGet, PeerGet,
         UpdateFails, SendThrows, Deliver, ProcessEntry, Crash, StartNudge, Tick

\* Such a step comes only after some clock of the conversation has run out.
LEMMA VanishStep ==
    ASSUME TypeInv, RemovalsOK, [Next]_vars, NEW u \in Users,
           doc[u].exists, ~doc'[u].exists
    PROVE  SomeClockRanOut
<1>1. PICK p \in Users : RemovalLands(p)
  BY VanishLands
<1>2. QED
  BY <1>1 DEF RemovalLands, RemovalsOK

-----------------------------------------------------------------------------
(* While no clock has run out and nothing failed, the two inboxes agree     *)
(* once the calls are over.  The invariant says where a document can come   *)
(* from: a call of its owner on the way to the peer's, or a finished one.    *)

HasWrittenOwn(c) == call[c].pc \in {"peerget", "peerwrite"}

Agreement ==
    Undisturbed =>
      /\ \A c \in Calls :
           /\ call[c].pc # "aborted"
           /\ call[c].found /\ call[c].pc = "write" => doc[call[c].by].exists
           /\ call[c].found /\ call[c].pc = "peerwrite" =>
                doc[Peer(call[c].by)].exists
           /\ HasWrittenOwn(c) => doc[call[c].by].exists
      /\ \A u \in Users :
           doc[u].exists =>
             \/ doc[Peer(u)].exists
             \/ \E c \in Calls : HasWrittenOwn(c) /\ call[c].by = u

\* What disturbs a conversation, an expiry or a fault, is never undone: a state
\* without one comes after states without one.
LEMMA UndisturbedBefore ==
    TypeInv /\ TypeInv' /\ [Next]_vars /\ Undisturbed' => Undisturbed
<1> SUFFICES ASSUME TypeInv, TypeInv', [Next]_vars, Undisturbed'
             PROVE  Undisturbed
  OBVIOUS
<1>1. CallsGrow
  BY CallsGrowStep
<1>2. ~SomeClockRanOut
  BY <1>1, RanOutKept DEF Undisturbed
<1>3. faults \in 0..MaxFaults /\ faults' = 0 /\ faults <= faults'
  BY <1>1 DEF TypeInv, Typed, CallsGrow, Undisturbed
<1>4. faults = 0
  BY <1>3, BoundsAssumption
<1>5. QED
  BY <1>2, <1>4 DEF Undisturbed

\* Every step of two phones keeps the agreement: the existence checks of
\* onSendMessage are not stale as long as nothing deletes a document.
LEMMA AgreementStep ==
    TypeInv /\ TypeInv' /\ RemovalsOK /\ Agreement /\ [Next]_vars => Agreement'
<1> SUFFICES ASSUME TypeInv, TypeInv', RemovalsOK, Agreement, [Next]_vars,
                    Undisturbed'
             PROVE  Agreement'
  BY DEF Agreement
<1>0. /\ Undisturbed
      /\ doc \in [Users -> Doc] /\ call \in [Calls -> Call] /\ OwnersOK
      /\ \A u \in Users : removals[u] = <<>>
  <2>1. Undisturbed
    BY UndisturbedBefore
  <2>2. QED
    BY <2>1 DEF Undisturbed, RemovalsOK, TypeInv, Typed
<1>1. CASE UNCHANGED <<doc, call>>
  BY <1>0, <1>1 DEF Agreement, HasWrittenOwn
<1>2. ASSUME NEW c \in Calls, NEW r \in Routes, StartSend(c, r)
      PROVE  Agreement'
  <2>1. /\ call'[c].pc \in {"get", "write"} /\ call'[c].found = FALSE
        /\ UNCHANGED doc
        /\ call[c].pc = "unused"
        /\ \A d \in Calls \ {c} : call'[d] = call[d]
    BY <1>0, <1>2 DEF StartSend, FirstStep
  <2>2. QED
    BY <1>0, <2>1 DEF Agreement, HasWrittenOwn
<1>3. ASSUME NEW c \in Calls, OwnGet(c)
      PROVE  Agreement'
  <2>1. /\ call'[c].pc = "write" /\ call'[c].found = doc[call[c].by].exists
        /\ call'[c].by = call[c].by /\ call[c].pc = "get" /\ UNCHANGED doc
        /\ \A d \in Calls \ {c} : call'[d] = call[d]
    BY <1>0, <1>3 DEF OwnGet, Call
  <2>2. QED
    BY <1>0, <2>1 DEF Agreement, HasWrittenOwn
<1>4. ASSUME NEW c \in Calls, OwnWrite(c)
      PROVE  Agreement'
  <2> DEFINE u == call[c].by
  <2>1. /\ call'[c].pc \in {"peerget", "peerwrite"} /\ call'[c].found = FALSE
        /\ call'[c].by = u /\ u \in Users
        /\ \A d \in Calls \ {c} : call'[d] = call[d]
    BY <1>0, <1>4 DEF OwnWrite, Call, FirstStep, OwnersOK
  <2>2. doc'[u].exists /\ \A v \in Users \ {u} : doc'[v] = doc[v]
    BY <1>0, <1>4, <2>1 DEF OwnWrite, UpdateDoc, SetDoc, Doc
  <2>3. \A v \in Users : doc[v].exists => doc'[v].exists
    BY <2>2
  <2>4. \A d \in Calls : HasWrittenOwn(d) => HasWrittenOwn(d)' /\ call'[d].by = call[d].by
    BY <2>1, <1>4 DEF HasWrittenOwn, OwnWrite
  <2>5. \A d \in Calls : call[d].pc # "unused" =>
          call[d].by \in Users /\ Peer(call[d].by) \in Users
    BY <1>0, PeerFacts DEF OwnersOK
  <2>6. HasWrittenOwn(c)'
    BY <2>1 DEF HasWrittenOwn
  <2>7. ASSUME NEW d \in Calls
        PROVE  /\ call'[d].pc # "aborted"
               /\ call'[d].found /\ call'[d].pc = "write" => doc'[call'[d].by].exists
               /\ call'[d].found /\ call'[d].pc = "peerwrite" =>
                    doc'[Peer(call'[d].by)].exists
               /\ HasWrittenOwn(d)' => doc'[call'[d].by].exists
    BY <1>0, <2>1, <2>2, <2>3, <2>5 DEF Agreement, HasWrittenOwn
  <2>8. ASSUME NEW v \in Users, doc'[v].exists
        PROVE  \/ doc'[Peer(v)].exists
               \/ \E d \in Calls : HasWrittenOwn(d)' /\ call'[d].by = v
    <3>1. CASE v = u
      BY <2>1, <2>6, <3>1
    <3>2. CASE v # u
      BY <1>0, <2>2, <2>3, <2>4, <2>8, <3>2, PeerFacts DEF Agreement
    <3>3. QED
      BY <3>1, <3>2
  <2>9. QED
    BY <2>7, <2>8 DEF Agreement
<1>5. ASSUME NEW c \in Calls, PeerGet(c)
      PROVE  Agreement'
  <2>1. /\ call'[c].pc = "peerwrite"
        /\ call'[c].found = doc[Peer(call[c].by)].exists
        /\ call'[c].by = call[c].by /\ call[c].pc = "peerget" /\ UNCHANGED doc
        /\ \A d \in Calls \ {c} : call'[d] = call[d]
    BY <1>0, <1>5 DEF PeerGet, Call
  <2>2. QED
    BY <1>0, <2>1 DEF Agreement, HasWrittenOwn
<1>6. ASSUME NEW c \in Calls, PeerWrite(c)
      PROVE  Agreement'
  <2> DEFINE u == call[c].by
  <2>1. /\ call'[c].pc = "done" /\ u \in Users /\ Peer(u) \in Users
        /\ Peer(Peer(u)) = u /\ Peer(u) # u
        /\ \A d \in Calls \ {c} : call'[d] = call[d]
    BY <1>0, <1>6, PeerFacts DEF PeerWrite, Call, OwnersOK
  <2>2. doc'[Peer(u)].exists /\ \A v \in Users \ {Peer(u)} : doc'[v] = doc[v]
    BY <1>0, <1>6, <2>1 DEF PeerWrite, UpdateDoc, SetDoc, Doc
  <2>3. doc[u].exists
    BY <1>0, <1>6 DEF Agreement, HasWrittenOwn, PeerWrite
  <2>4. doc'[u].exists
    BY <2>1, <2>2, <2>3
  <2>5. \A v \in Users : doc'[v].exists
    BY <2>1, <2>2, <2>4, UsersAssumption DEF Peer
  <2>6. \A d \in Calls : call[d].pc # "unused" =>
          call[d].by \in Users /\ Peer(call[d].by) \in Users
    BY <1>0, PeerFacts DEF OwnersOK
  <2>7. ASSUME NEW d \in Calls
        PROVE  /\ call'[d].pc # "aborted"
               /\ call'[d].found /\ call'[d].pc = "write" => doc'[call'[d].by].exists
               /\ call'[d].found /\ call'[d].pc = "peerwrite" =>
                    doc'[Peer(call'[d].by)].exists
               /\ HasWrittenOwn(d)' => doc'[call'[d].by].exists
    BY <1>0, <2>1, <2>5, <2>6 DEF Agreement, HasWrittenOwn
  <2>8. QED
    BY <2>5, <2>7, PeerFacts DEF Agreement
<1>7. ASSUME NEW c \in Calls, UpdateFails(c)
      PROVE  FALSE
  BY <1>0, <1>7 DEF Agreement, UpdateFails
<1>8. ASSUME NEW c \in Calls, SendThrows(c)
      PROVE  FALSE
  BY <1>8 DEF SendThrows, Undisturbed, TypeInv, Typed
<1>9. ASSUME NEW u \in Users, RemovalLands(u)
      PROVE  FALSE
  BY <1>0, <1>9 DEF RemovalLands
<1>10. ASSUME NEW u \in Users, Crash(u)
       PROVE  FALSE
  BY <1>10 DEF Crash, Undisturbed, TypeInv, Typed
<1>11. ASSUME NEW t \in Taps, NudgePeer(t) \/ NudgeOwn(t)
       PROVE  Agreement'
  <2>1. (\A u \in Users : doc'[u].exists = doc[u].exists) /\ UNCHANGED call
    BY <1>0, <1>11 DEF NudgePeer, NudgeOwn, NudgeStep, Doc
  <2>2. \A d \in Calls : call[d].pc # "unused" =>
          call[d].by \in Users /\ Peer(call[d].by) \in Users
    BY <1>0, PeerFacts DEF OwnersOK
  <2>3. QED
    BY <1>0, <2>1, <2>2, PeerFacts DEF Agreement, HasWrittenOwn
<1>12. QED
  BY <1>1, <1>2, <1>3, <1>4, <1>5, <1>6, <1>7, <1>8, <1>9, <1>10, <1>11
     DEF Next, SendStep, InboxStep,
         SetListGoesOn, NudgeProgress, vars, OpenFromMatch,
         OpenFromNotification, OpenFromInbox, Open, Deliver, ProcessEntry,
         StartNudge, Tick

\* With no expiry and no fault no call is cut short, and after the calls both
\* users have the conversation or neither has.
THEOREM AgreementTheorem == Spec => []InboxesAgree
<1>1. Init => Agreement
  BY DEF Init, Agreement, NoDoc, HasWrittenOwn
<1>2. Agreement /\ TypeInv => InboxesAgree
  <2> SUFFICES ASSUME Agreement, TypeInv PROVE InboxesAgree
    OBVIOUS
  <2>1. Quiet => \A c \in Calls : ~HasWrittenOwn(c)
    BY DEF Quiet, InFlight, HasWrittenOwn
  <2>2. Undisturbed /\ Quiet =>
          \A u \in Users : doc[u].exists => doc[Peer(u)].exists
    BY <2>1 DEF Agreement
  <2>3. Undisturbed /\ Quiet => (doc[Alice].exists <=> doc[Bob].exists)
    BY <2>2, UsersAssumption DEF Peer
  <2>4. QED
    BY <2>3 DEF InboxesAgree, Agreement
<1>3. QED
  BY <1>1, <1>2, AgreementStep, TypesHold, RemovalsHold, PTL DEF Spec

-----------------------------------------------------------------------------
(* The detailed conversation implements the abstract one: each step of the  *)
(* phones is a step of Conversation or leaves what it sees alone.           *)

\* The agreement of the inboxes holds in every state.
LEMMA AgreementHolds == Spec => []Agreement
<1>1. Init => Agreement
  BY DEF Init, Agreement, NoDoc, HasWrittenOwn
<1>2. QED
  BY <1>1, AgreementStep, TypesHold, RemovalsHold, PTL DEF Spec

\* A step that leaves the time alone and adds no stamp but the present one
\* lets no clock run out.
LEMMA FreshStamps ==
    ASSUME TypeInv, TypeInv', UNCHANGED now,
           \A c \in Calls : /\ call'[c].own \in {call[c].own, now}
                            /\ call'[c].other \in {call[c].other, now, 0},
           SomeClockRanOut'
    PROVE  SomeClockRanOut
<1>1. PICK s \in Time : Stamped(s)' /\ now - s > NudgeLimit
  BY DEF SomeClockRanOut
<1>2. now \in Int /\ s \in Int /\ NudgeLimit \in Nat
  BY BoundsAssumption, LimitsAssumption DEF TypeInv, Typed, Time
<1>3. s # now
  BY <1>1, <1>2
<1>4. Stamped(s)
  BY <1>1, <1>3 DEF Stamped
<1>5. QED
  BY <1>1, <1>4 DEF SomeClockRanOut

\* What onSendMessage and the operating system do to a message's stage.
LEMMA StageMoves ==
    ASSUME call \in [Calls -> Call], NEW c \in Calls,
           call' \in [Calls -> Call],
           \A d \in Calls \ {c} : call'[d] = call[d]
    PROVE  stageOf' = [stageOf EXCEPT ![c] = StageOf(call'[c].pc)]
BY DEF stageOf

\* A document's last message is what the row shows.
LEMMA RowMoves ==
    ASSUME doc \in [Users -> Doc], doc' \in [Users -> Doc], NEW u \in Users,
           \A v \in Users \ {u} : doc'[v] = doc[v]
    PROVE  rowOf' = [rowOf EXCEPT ![u] = doc'[u].msg]
BY DEF rowOf

\* A fault cuts short the calls of cs and leaves the others alone.
Taken(cs) ==
    \A c \in Calls :
      /\ call'[c].pc = (IF c \in cs THEN "aborted" ELSE call[c].pc)
      /\ call'[c].by = call[c].by
      /\ call'[c].own = call[c].own
      /\ call'[c].other = call[c].other

\* Every step of the phones is one of the conversation's or none to it.
LEMMA PromiseStep ==
    TypeInv /\ TypeInv' /\ RemovalsOK /\ Agreement /\ [Next]_vars
      => [Conv!Step]_(Conv!cvars)
<1> SUFFICES ASSUME TypeInv, TypeInv', RemovalsOK, Agreement, [Next]_vars
             PROVE  Conv!Step \/ UNCHANGED Conv!cvars
  OBVIOUS
<1>0. /\ doc \in [Users -> Doc] /\ doc' \in [Users -> Doc]
      /\ call \in [Calls -> Call] /\ call' \in [Calls -> Call]
      /\ faults \in Nat /\ faults' \in Nat /\ OwnersOK
      /\ SomeClockRanOut => SomeClockRanOut'
      /\ SomeClockRanOut \in BOOLEAN /\ SomeClockRanOut' \in BOOLEAN
  BY CallsGrowStep, RanOutKept, BoundsAssumption
     DEF TypeInv, Typed, SomeClockRanOut
<1>1. CASE UNCHANGED <<doc, call, now, faults>>
  <2>1. SomeClockRanOut' = SomeClockRanOut
    BY <1>0, <1>1 DEF SomeClockRanOut, Stamped
  <2>2. QED
    BY <1>1, <2>1 DEF Conv!cvars, rowOf, stageOf, authorOf
<1>2. ASSUME NEW c \in Calls, NEW r \in Routes, StartSend(c, r)
      PROVE  Conv!Step
  <2>1. /\ call[c].pc = "unused" /\ call'[c].pc \in {"get", "write"}
        /\ call'[c].by = route[r].by /\ route[r].by \in Users
        /\ \A d \in Calls \ {c} : call'[d] = call[d]
        /\ UNCHANGED <<doc, faults, now>>
        /\ call'[c].own \in {0, now} /\ call'[c].other = 0
        /\ call[c].own = 0
    BY <1>0, <1>2 DEF StartSend, FirstStep, Stamp, OwnersOK
  <2>2. SomeClockRanOut' = SomeClockRanOut
    BY <1>0, <2>1, FreshStamps
  <2>3. stageOf' = [stageOf EXCEPT ![c] = "composed"] /\ stageOf[c] = "none"
    BY <1>0, <2>1, StageMoves DEF StageOf, stageOf
  <2>4. authorOf' = [authorOf EXCEPT ![c] = route[r].by]
    BY <1>0, <2>1 DEF authorOf
  <2>5. rowOf' = rowOf
    BY <2>1 DEF rowOf
  <2>6. Conv!Compose(c, route[r].by)
    BY <2>1, <2>2, <2>3, <2>4, <2>5 DEF Conv!Compose
  <2>7. QED
    BY <2>1, <2>6 DEF Conv!Step
<1>3. ASSUME NEW c \in Calls, OwnGet(c) \/ PeerGet(c)
      PROVE  UNCHANGED Conv!cvars
  <2>1. /\ StageOf(call'[c].pc) = StageOf(call[c].pc)
        /\ call'[c].by = call[c].by
        /\ call'[c].own = call[c].own /\ call'[c].other = call[c].other
        /\ \A d \in Calls \ {c} : call'[d] = call[d]
        /\ UNCHANGED <<doc, faults, now>>
    BY <1>0, <1>3 DEF OwnGet, PeerGet, StageOf, Call
  <2>2. SomeClockRanOut' = SomeClockRanOut
    BY <1>0, <2>1, FreshStamps
  <2>3. QED
    BY <1>0, <2>1, <2>2 DEF Conv!cvars, rowOf, stageOf, authorOf
<1>4. ASSUME NEW c \in Calls, OwnWrite(c)
      PROVE  Conv!Step
  <2>1. /\ call[c].pc = "write" /\ call'[c].pc \in {"peerget", "peerwrite"}
        /\ call'[c].by = call[c].by /\ call[c].by \in Users
        /\ call'[c].own = call[c].own /\ call'[c].other \in {0, now}
        /\ \A d \in Calls \ {c} : call'[d] = call[d]
        /\ UNCHANGED <<faults, now>>
    BY <1>0, <1>4 DEF OwnWrite, FirstStep, Stamp, OwnersOK, Call
  <2>2. /\ doc'[call[c].by].msg = c
        /\ \A v \in Users \ {call[c].by} : doc'[v] = doc[v]
    BY <1>0, <1>4, <2>1 DEF OwnWrite, UpdateDoc, SetDoc, Doc
  <2>3. SomeClockRanOut' = SomeClockRanOut
    BY <1>0, <2>1, FreshStamps
  <2>4. stageOf' = [stageOf EXCEPT ![c] = "posted"] /\ stageOf[c] = "composed"
    BY <1>0, <2>1, StageMoves DEF StageOf, stageOf
  <2>5. authorOf' = authorOf /\ authorOf[c] = call[c].by
    BY <1>0, <2>1 DEF authorOf
  <2>6. rowOf' = [rowOf EXCEPT ![authorOf[c]] = c]
    BY <1>0, <2>1, <2>2, <2>5, RowMoves
  <2>7. Conv!Post(c)
    BY <2>1, <2>3, <2>4, <2>5, <2>6 DEF Conv!Post
  <2>8. QED
    BY <2>7 DEF Conv!Step
<1>5. ASSUME NEW c \in Calls, PeerWrite(c)
      PROVE  Conv!Step
  <2>1. /\ call[c].pc = "peerwrite" /\ call'[c].pc = "done"
        /\ call'[c].by = call[c].by /\ Peer(call[c].by) \in Users
        /\ call'[c].own = call[c].own /\ call'[c].other = call[c].other
        /\ \A d \in Calls \ {c} : call'[d] = call[d]
        /\ UNCHANGED <<faults, now>>
    BY <1>0, <1>5, PeerFacts DEF PeerWrite, OwnersOK, Call
  <2>2. /\ doc'[Peer(call[c].by)].msg = c
        /\ \A v \in Users \ {Peer(call[c].by)} : doc'[v] = doc[v]
    BY <1>0, <1>5, <2>1 DEF PeerWrite, UpdateDoc, SetDoc, Doc
  <2>3. SomeClockRanOut' = SomeClockRanOut
    BY <1>0, <2>1, FreshStamps
  <2>4. stageOf' = [stageOf EXCEPT ![c] = "arrived"] /\ stageOf[c] = "posted"
    BY <1>0, <2>1, StageMoves DEF StageOf, stageOf
  <2>5. authorOf' = authorOf /\ authorOf[c] = call[c].by
    BY <1>0, <2>1 DEF authorOf
  <2>6. rowOf' = [rowOf EXCEPT ![Peer(authorOf[c])] = c]
    BY <1>0, <2>1, <2>2, <2>5, RowMoves
  <2>7. Conv!Arrive(c)
    BY <2>1, <2>3, <2>4, <2>5, <2>6 DEF Conv!Arrive
  <2>8. QED
    BY <2>7 DEF Conv!Step
<1>6. ASSUME NEW c \in Calls, UpdateFails(c)
      PROVE  Conv!Step
  <2>1. /\ call[c].pc \in {"write", "peerwrite"} /\ call'[c].pc = "aborted"
        /\ call'[c].by = call[c].by
        /\ call'[c].own = call[c].own /\ call'[c].other = call[c].other
        /\ \A d \in Calls \ {c} : call'[d] = call[d]
        /\ UNCHANGED <<doc, faults, now>>
    BY <1>0, <1>6 DEF UpdateFails, Call
  <2>2. SomeClockRanOut \/ faults > 0
    BY <1>0, <1>6 DEF UpdateFails, Agreement, Undisturbed
  <2>3. SomeClockRanOut' = SomeClockRanOut
    BY <1>0, <2>1, FreshStamps
  <2>4. /\ stageOf' = [stageOf EXCEPT ![c] = "lost"]
        /\ stageOf[c] \in {"composed", "posted"}
    BY <1>0, <2>1, StageMoves DEF StageOf, stageOf
  <2>5. authorOf' = authorOf /\ rowOf' = rowOf
    BY <1>0, <2>1 DEF authorOf, rowOf
  <2>6. Conv!Lose(c)
    BY <2>1, <2>2, <2>3, <2>4, <2>5 DEF Conv!Lose, Conv!UnderWay
  <2>7. QED
    BY <2>6 DEF Conv!Step
<1>7. ASSUME NEW taken \in SUBSET {c \in Calls : InFlight(c)},
             Taken(taken), faults' = faults + 1, UNCHANGED <<doc, now>>
      PROVE  Conv!Step
  <2>1. SomeClockRanOut' = SomeClockRanOut
    BY <1>0, <1>7, FreshStamps DEF Taken
  <2>2. taken \in SUBSET Conv!UnderWay
    BY <1>7 DEF Conv!UnderWay, InFlight, stageOf, StageOf
  <2>3. stageOf' = [c \in Calls |-> IF c \in taken THEN "lost" ELSE stageOf[c]]
    BY <1>7 DEF stageOf, StageOf, Taken
  <2>4. authorOf' = authorOf /\ rowOf' = rowOf /\ (faults' > 0) = TRUE
    BY <1>0, <1>7 DEF authorOf, rowOf, Taken
  <2>5. Conv!Fail
    BY <2>1, <2>2, <2>3, <2>4 DEF Conv!Fail
  <2>6. QED
    BY <2>5 DEF Conv!Step
<1>8. ASSUME NEW c \in Calls, SendThrows(c)
      PROVE  Conv!Step
  <2>1. {c} \in SUBSET {d \in Calls : InFlight(d)}
    BY <1>8 DEF SendThrows
  <2>2. /\ Taken({c})
        /\ faults' = faults + 1 /\ UNCHANGED <<doc, now>>
    BY <1>0, <1>8 DEF SendThrows, Call, Taken
  <2>3. QED
    BY <1>7, <2>1, <2>2
<1>9. ASSUME NEW u \in Users, Crash(u)
      PROVE  Conv!Step
  <2> DEFINE taken == {c \in Calls : call[c].by = u /\ InFlight(c)}
  <2>1. taken \in SUBSET {d \in Calls : InFlight(d)}
    OBVIOUS
  <2>2. /\ Taken(taken)
        /\ faults' = faults + 1 /\ UNCHANGED <<doc, now>>
    BY <1>0, <1>9 DEF Crash, Call, Taken
  <2>3. QED
    BY <1>7, <2>1, <2>2
<1>10. ASSUME NEW u \in Users, RemovalLands(u)
       PROVE  Conv!Step
  <2> DEFINE v == Head(removals[u]).user
  <2>1. SomeClockRanOut /\ v \in Users /\ UNCHANGED <<call, faults, now>>
    BY <1>10 DEF RemovalLands, RemovalsOK, TypeInv, Typed, Removal
  <2>2. SomeClockRanOut' = SomeClockRanOut
    BY <1>0, <2>1
  <2>3. doc'[v].msg = NoCall /\ \A w \in Users \ {v} : doc'[w] = doc[w]
    BY <1>0, <1>10, <2>1 DEF RemovalLands, NoDoc
  <2>4. rowOf' = [rowOf EXCEPT ![v] = NoCall]
    BY <1>0, <2>1, <2>3, RowMoves
  <2>5. stageOf' = stageOf /\ authorOf' = authorOf
    BY <2>1 DEF stageOf, authorOf
  <2>6. Conv!Drop(v)
    BY <2>1, <2>2, <2>4, <2>5 DEF Conv!Drop
  <2>7. QED
    BY <2>1, <2>6 DEF Conv!Step
<1>11. ASSUME NEW t \in Taps, NudgePeer(t) \/ NudgeOwn(t)
       PROVE  UNCHANGED Conv!cvars
  <2>1. /\ \A u \in Users : doc'[u].msg = doc[u].msg
        /\ UNCHANGED <<call, faults, now>>
    BY <1>0, <1>11 DEF NudgePeer, NudgeOwn, NudgeStep, Doc
  <2>2. SomeClockRanOut' = SomeClockRanOut
    BY <1>0, <2>1 DEF SomeClockRanOut, Stamped
  <2>3. QED
    BY <2>1, <2>2 DEF Conv!cvars, rowOf, stageOf, authorOf
<1>12. CASE Tick
  <2>1. UNCHANGED <<doc, call, faults>>
    BY <1>12 DEF Tick
  <2>2. rowOf' = rowOf /\ stageOf' = stageOf /\ authorOf' = authorOf
    BY <2>1 DEF rowOf, stageOf, authorOf
  <2>3. CASE SomeClockRanOut' = SomeClockRanOut
    BY <2>1, <2>2, <2>3 DEF Conv!cvars
  <2>4. CASE SomeClockRanOut' = TRUE
    BY <2>1, <2>2, <2>4 DEF Conv!Step, Conv!RunOut
  <2>5. QED
    BY <1>0, <2>3, <2>4
<1>13. QED
  BY <1>1, <1>2, <1>3, <1>4, <1>5, <1>6, <1>8, <1>9, <1>10, <1>11, <1>12
     DEF Next, SendStep, InboxStep,
         SetListGoesOn, NudgeProgress, vars, OpenFromMatch,
         OpenFromNotification, OpenFromInbox, Open, Deliver, ProcessEntry,
         StartNudge

\* The two phones and the two documents keep the promise of Conversation.
THEOREM PromiseTheorem == Spec => KeepsThePromise
<1>1. Init => Conv!Begin
  <2> SUFFICES ASSUME Init PROVE Conv!Begin
    OBVIOUS
  <2>1. ~SomeClockRanOut
    BY DEF Init, SomeClockRanOut, Stamped
  <2>2. /\ rowOf = [p \in Users |-> NoCall]
        /\ stageOf = [m \in Calls |-> "none"]
        /\ authorOf = [m \in Calls |-> NoUser]
        /\ faults = 0
    BY DEF Init, rowOf, stageOf, authorOf, NoDoc, StageOf
  <2>3. QED
    BY <2>1, <2>2 DEF Conv!Begin
<1>2. QED
  BY <1>1, PromiseStep, TypesHold, RemovalsHold, AgreementHolds, PTL
     DEF Spec, KeepsThePromise, Conv!Promise

-----------------------------------------------------------------------------
(* The progress of the conversation.                                        *)

\* The awaited accesses of a call that is under way are answered in the end:
\* weak fairness of SendStep(c), whose enabling condition is spelled out.
SendsGoOn == \A c \in Calls : []<>~InFlight(c) \/ []<><<SendStep(c)>>_vars

\* What one step makes of a call under way: it stays where it is, takes one of
\* its own steps, or is over.
LEMMA CallMoves ==
    ASSUME TypeInv, [Next]_vars, NEW c \in Calls, InFlight(c)
    PROVE  \/ call'[c].pc = call[c].pc /\ ~SendStep(c)
           \/ call[c].pc = "get" /\ call'[c].pc = "write"
           \/ call[c].pc = "write" /\ call'[c].pc \in {"peerget", "peerwrite"}
           \/ call[c].pc = "peerget" /\ call'[c].pc = "peerwrite"
           \/ call'[c].pc \in {"done", "aborted"}
<1>0. /\ call \in [Calls -> Call] /\ call[c] \in Call
      /\ call[c].pc # "unused"
  BY DEF TypeInv, Typed, InFlight
<1>1. CASE SendStep(c)
  <2>1. CASE OwnGet(c)
    BY <1>0, <2>1 DEF OwnGet, Call
  <2>2. CASE OwnWrite(c)
    BY <1>0, <2>2 DEF OwnWrite, FirstStep, Call
  <2>3. CASE PeerGet(c)
    BY <1>0, <2>3 DEF PeerGet, Call
  <2>4. CASE PeerWrite(c)
    BY <1>0, <2>4 DEF PeerWrite, Call
  <2>5. CASE UpdateFails(c)
    BY <1>0, <2>5 DEF UpdateFails, Call
  <2>6. QED
    BY <1>1, <2>1, <2>2, <2>3, <2>4, <2>5 DEF SendStep
<1>2. CASE ~SendStep(c)
  <2>1. ASSUME NEW d \in Calls, d # c, SendStep(d) PROVE call'[c] = call[c]
    <3>1. \E new : call' = [call EXCEPT ![d] = new]
      <4>1. CASE OwnGet(d) \/ PeerGet(d)
        BY <4>1, <1>0, <2>1 DEF OwnGet, PeerGet
      <4>2. CASE OwnWrite(d)
        BY <4>2, <1>0, <2>1 DEF OwnWrite
      <4>3. CASE PeerWrite(d) \/ UpdateFails(d)
        BY <4>3, <1>0, <2>1 DEF PeerWrite, UpdateFails
      <4>4. QED
        BY <2>1, <4>1, <4>2, <4>3 DEF SendStep
    <3>2. QED
      BY <1>0, <2>1, <3>1
  <2>2. ASSUME NEW d \in Calls, SendThrows(d)
        PROVE  call'[c].pc \in {call[c].pc, "aborted"}
    BY <1>0, <2>2 DEF SendThrows, Call
  <2>3. ASSUME NEW u \in Users, Crash(u)
        PROVE  call'[c].pc \in {call[c].pc, "aborted"}
    BY <1>0, <2>3 DEF Crash
  <2>4. ASSUME NEW d \in Calls, NEW r \in Routes, StartSend(d, r)
        PROVE  call'[c] = call[c]
    BY <1>0, <2>4 DEF StartSend
  <2>5. CASE UNCHANGED call
    BY <1>2, <2>5
  <2>6. QED
    BY <1>2, <2>1, <2>2, <2>3, <2>4, <2>5
       DEF Next, InboxStep, SetListGoesOn, NudgeProgress, vars, OpenFromMatch,
           OpenFromNotification, OpenFromInbox, Open, Deliver, ProcessEntry,
           RemovalLands, StartNudge, NudgePeer, NudgeOwn, NudgeStep, Tick
<1>3. QED
  BY <1>1, <1>2

\* A call of onSendMessage is over again and again, and so a message goes on.
IsOver(c) == []<>~InFlight(c)
GoesOn(m) ==
    []<>(m \notin Conv!UnderWay)
      \/ []<><<Conv!Post(m) \/ Conv!Arrive(m) \/ Conv!Lose(m)>>_(Conv!cvars)

LEMMA CallIsOver ==
    ASSUME NEW c \in Calls
    PROVE  /\ []TypeInv /\ [][Next]_vars
           /\ []<>~InFlight(c) \/ []<><<SendStep(c)>>_vars
           => IsOver(c)
<1> DEFINE At(pc) == call[c].pc = pc
<1>1. TypeInv /\ At("get") /\ [Next]_vars
        => At("get")' \/ At("write")' \/ ~InFlight(c)'
  BY CallMoves DEF InFlight
<1>2. TypeInv /\ At("get") /\ <<SendStep(c)>>_vars => At("write")' \/ ~InFlight(c)'
  BY CallMoves DEF InFlight, Next
<1>3. TypeInv /\ At("write") /\ [Next]_vars
        => At("write")' \/ At("peerget")' \/ At("peerwrite")' \/ ~InFlight(c)'
  BY CallMoves DEF InFlight
<1>4. TypeInv /\ At("write") /\ <<SendStep(c)>>_vars
        => At("peerget")' \/ At("peerwrite")' \/ ~InFlight(c)'
  BY CallMoves DEF InFlight, Next
<1>5. TypeInv /\ At("peerget") /\ [Next]_vars
        => At("peerget")' \/ At("peerwrite")' \/ ~InFlight(c)'
  BY CallMoves DEF InFlight
<1>6. TypeInv /\ At("peerget") /\ <<SendStep(c)>>_vars
        => At("peerwrite")' \/ ~InFlight(c)'
  BY CallMoves DEF InFlight, Next
<1>7. TypeInv /\ At("peerwrite") /\ [Next]_vars => At("peerwrite")' \/ ~InFlight(c)'
  BY CallMoves DEF InFlight
<1>8. TypeInv /\ At("peerwrite") /\ <<SendStep(c)>>_vars => ~InFlight(c)'
  BY CallMoves DEF InFlight, Next
<1>9. InFlight(c) => At("get") \/ At("write") \/ At("peerget") \/ At("peerwrite")
  BY DEF InFlight
<1>10. QED
  BY <1>1, <1>2, <1>3, <1>4, <1>5, <1>6, <1>7, <1>8, <1>9, PTL DEF IsOver

\* With it the two phones keep the promise and its progress: no message stays on
\* its way, whatever restarts, deletes and failures it meets.
THEOREM ProgressTheorem == Spec /\ SendsGoOn => NoMessageIsStuck
<1>1. Spec => []TypeInv /\ [][Next]_vars
  BY TypesHold, PTL DEF Spec
<1>2. Spec /\ SendsGoOn => \A c \in Calls : IsOver(c)
  BY <1>1, CallIsOver DEF SendsGoOn
<1>3. ASSUME NEW m \in Calls PROVE IsOver(m) => GoesOn(m)
  <2>1. ~InFlight(m) => m \notin Conv!UnderWay
    BY DEF InFlight, Conv!UnderWay, stageOf, StageOf
  <2>2. QED
    BY <2>1, PTL DEF IsOver, GoesOn
<1>4. (\A m \in Calls : GoesOn(m)) => Conv!Progress
  BY DEF Conv!Progress, GoesOn
<1>5. QED
  BY <1>2, <1>3, <1>4, PromiseTheorem
     DEF NoMessageIsStuck, KeepsThePromise, Conv!FairPromise

-----------------------------------------------------------------------------
(* A message that was sent in full reaches the peer's inbox.  The peer has    *)
(* the document until a clock runs out (SentOK), and a phone whose listener   *)
(* has reported a document has work or a row for it (ListOK).                 *)

SentOK ==
    \A c \in Calls :
      call[c].pc = "done" => doc[Peer(call[c].by)].exists \/ SomeClockRanOut

ListOK ==
    \A u \in Users :
      seen[u] \in Doc /\ seen[u].exists => tasks[u] # {} \/ entries[u] # {}

\* A call that is neither completed nor cut short.
Going(c) == call[c].pc \notin {"done", "aborted"}

\* A call of onSendMessage completes with the write of the peer's document, and
\* stays completed, or cut short.
LEMMA DoneMoves ==
    ASSUME TypeInv, [Next]_vars, NEW c \in Calls
    PROVE  /\ call[c].pc = "done" => call'[c].pc = "done"
           /\ call[c].pc = "aborted" => call'[c].pc = "aborted"
           /\ call'[c].pc = "done" => call[c].pc = "done" \/ PeerWrite(c)
<1>0. call \in [Calls -> Call]
  BY DEF TypeInv, Typed
<1>1. ASSUME NEW d \in Calls, OwnGet(d) \/ PeerGet(d)
      PROVE  call'[c].pc = call[c].pc \/ (c = d /\ Going(c)
                                            /\ call'[c].pc # "done")
  BY <1>0, <1>1 DEF OwnGet, PeerGet, Call, Going
<1>2. ASSUME NEW d \in Calls, OwnWrite(d)
      PROVE  call'[c].pc = call[c].pc \/ (c = d /\ Going(c)
                                            /\ call'[c].pc # "done")
  BY <1>0, <1>2 DEF OwnWrite, FirstStep, Call, Going
<1>3. ASSUME NEW d \in Calls, PeerWrite(d)
      PROVE  call'[c].pc = call[c].pc \/ (c = d /\ Going(c))
  BY <1>0, <1>3 DEF PeerWrite, Call, Going
<1>4. ASSUME NEW d \in Calls, UpdateFails(d) \/ SendThrows(d)
      PROVE  call'[c].pc = call[c].pc \/ (c = d /\ Going(c)
                                            /\ call'[c].pc # "done")
  BY <1>0, <1>4 DEF UpdateFails, SendThrows, InFlight, Call, Going
<1>5. ASSUME NEW u \in Users, Crash(u)
      PROVE  call'[c].pc = call[c].pc \/ (Going(c)
                                            /\ call'[c].pc # "done")
  BY <1>0, <1>5 DEF Crash, InFlight, Going
<1>6. ASSUME NEW d \in Calls, NEW r \in Routes, StartSend(d, r)
      PROVE  call'[c].pc = call[c].pc \/ (c = d /\ Going(c)
                                            /\ call'[c].pc # "done")
  BY <1>0, <1>6 DEF StartSend, FirstStep, Going
<1>7. CASE UNCHANGED call
  BY <1>7
<1>8. QED
  BY <1>1, <1>2, <1>3, <1>4, <1>5, <1>6, <1>7
     DEF Going, Next, SendStep, InboxStep, SetListGoesOn, NudgeProgress, vars,
         OpenFromMatch, OpenFromNotification, OpenFromInbox, Open, Deliver,
         ProcessEntry, RemovalLands, StartNudge, NudgePeer, NudgeOwn, NudgeStep,
         Tick

LEMMA SentStep ==
    ASSUME TypeInv, TypeInv', RemovalsOK, SentOK, [Next]_vars
    PROVE  SentOK'
<1> SUFFICES ASSUME NEW c \in Calls, call'[c].pc = "done", ~SomeClockRanOut'
             PROVE  doc'[Peer(call'[c].by)].exists
  BY DEF SentOK
<1>0. /\ ~SomeClockRanOut
      /\ doc \in [Users -> Doc] /\ call \in [Calls -> Call]
  BY CallsGrowStep, RanOutKept DEF TypeInv, Typed
<1>1. CASE call[c].pc = "done"
  <2>1. call'[c].by = call[c].by /\ Peer(call[c].by) \in Users
    BY <1>1, CallsGrowStep, PeerFacts DEF CallsGrow, TypeInv, OwnersOK
  <2>2. doc[Peer(call[c].by)].exists
    BY <1>0, <1>1 DEF SentOK
  <2>3. QED
    BY <1>0, <2>1, <2>2, VanishStep
<1>2. CASE call[c].pc # "done"
  <2>1. PeerWrite(c)
    BY <1>2, DoneMoves
  <2>2. call'[c].by = call[c].by /\ Peer(call[c].by) \in Users
    BY <1>0, <2>1, PeerFacts DEF PeerWrite, Call, TypeInv, OwnersOK
  <2>3. doc'[Peer(call[c].by)].exists
    BY <1>0, <2>1, <2>2 DEF PeerWrite, UpdateDoc, SetDoc, Doc
  <2>4. QED
    BY <2>2, <2>3
<1>3. QED
  BY <1>1, <1>2

\* What a step makes of one inbox.
LEMMA InboxMoves ==
    ASSUME TypeInv, [Next]_vars, NEW u \in Users
    PROVE  /\ tasks[u] # {} => tasks'[u] # {} \/ entries'[u] # {} \/ Crash(u)
           /\ Deliver(u) /\ LocalView(u).exists => tasks'[u] # {}
           /\ SetListGoesOn(u) => entries'[u] # {}
           /\ \/ seen'[u] = seen[u] /\ (entries[u] # {} => entries'[u] # {})
              \/ Deliver(u) /\ seen'[u] = LocalView(u)
              \/ Crash(u)
           /\ Crash(u) => seen'[u] = Unseen
<1>0. /\ tasks \in [Users -> SUBSET Doc] /\ entries \in [Users -> SUBSET Entry]
      /\ seen \in [Users -> Doc \union {Unseen}]
  BY DEF TypeInv, Typed
<1>1. Deliver(u) => /\ seen'[u] = LocalView(u)
                    /\ tasks[u] # {} => tasks'[u] # {}
                    /\ LocalView(u).exists => tasks'[u] # {}
  BY <1>0 DEF Deliver
<1>2. ASSUME NEW d \in tasks[u], NEW lag \in {0, NoonShift},
             ProcessEntry(u, d, lag)
      PROVE  entries'[u] # {} /\ seen'[u] = seen[u]
  BY <1>0, <1>2 DEF ProcessEntry
<1>3. SetListGoesOn(u) => entries'[u] # {} /\ seen'[u] = seen[u]
  BY <1>2 DEF SetListGoesOn
<1>4. Crash(u) => seen'[u] = Unseen
  BY <1>0 DEF Crash
<1>5. CASE ~Deliver(u) /\ ~SetListGoesOn(u) /\ ~Crash(u)
  <2>1. ASSUME NEW v \in Users, v # u,
               Deliver(v) \/ SetListGoesOn(v) \/ Crash(v)
        PROVE  /\ tasks'[u] = tasks[u] /\ entries'[u] = entries[u]
               /\ seen'[u] = seen[u]
    BY <1>0, <2>1 DEF Deliver, SetListGoesOn, ProcessEntry, Crash
  <2>2. CASE UNCHANGED <<tasks, entries, seen>>
    BY <1>5, <2>2
  <2>3. /\ tasks'[u] = tasks[u] /\ entries'[u] = entries[u]
        /\ seen'[u] = seen[u]
    BY <1>5, <2>1, <2>2
       DEF Next, SendStep, OwnGet, OwnWrite, PeerGet, PeerWrite, UpdateFails,
           SendThrows, InboxStep, NudgeProgress, vars, OpenFromMatch,
           OpenFromNotification, OpenFromInbox, Open, StartSend, RemovalLands,
           StartNudge, NudgePeer, NudgeOwn, NudgeStep, Tick
  <2>4. QED
    BY <1>5, <2>3
<1>6. QED
  BY <1>1, <1>3, <1>4, <1>5

LEMMA ListStep ==
    ASSUME TypeInv, ListOK, [Next]_vars
    PROVE  ListOK'
<1> SUFFICES ASSUME NEW u \in Users, seen'[u] \in Doc, seen'[u].exists
             PROVE  tasks'[u] # {} \/ entries'[u] # {}
  BY DEF ListOK
<1>1. seen'[u] # Unseen
  BY UnseenAssumption
<1>2. QED
  BY <1>1, InboxMoves DEF ListOK

ReachInv == TypeInv /\ RemovalsOK /\ SentOK /\ ListOK

LEMMA ReachAlways == Spec => []ReachInv
<1>1. Init => SentOK /\ ListOK
  BY UnseenAssumption DEF Init, SentOK, ListOK
<1>2. TypeInv /\ TypeInv' /\ RemovalsOK /\ SentOK /\ ListOK /\ [Next]_vars
        => SentOK' /\ ListOK'
  BY SentStep, ListStep
<1>3. QED
  BY <1>1, <1>2, TypesHold, RemovalsHold, PTL DEF Spec, ReachInv

\* One phone: a document that stays becomes a row, once the phone is no longer
\* killed.  A snapshot of it comes, because the listener is not up to date, and
\* setList finishes with it.
LEMMA RowComes ==
    ASSUME NEW u \in Users
    PROVE  /\ []ReachInv /\ [][Next]_vars
           /\ []<>(seen[u] = LocalView(u)) \/ []<><<Deliver(u)>>_vars
           /\ []<>(tasks[u] = {}) \/ []<><<SetListGoesOn(u)>>_vars
           /\ <>[][~Crash(u)]_vars
           => ([](LocalView(u).exists) ~> entries[u] # {})
<1> DEFINE There == LocalView(u).exists
           Shown == entries[u] # {}
           Done == tasks[u] = {}
           Known == seen[u] = LocalView(u)
<1>1. ReachInv /\ There /\ Known => ~Done \/ Shown
  <2>1. ReachInv => LocalView(u) \in Doc
    <3>1. ReachInv => doc[u] \in Doc
      BY DEF ReachInv, TypeInv, Typed
    <3>2. QED
      BY <3>1, NoDocType DEF LocalView
  <2>2. QED
    BY <2>1 DEF ReachInv, ListOK
<1>2. ReachInv /\ There /\ [Next]_vars /\ <<Deliver(u)>>_vars => ~Done'
  BY InboxMoves DEF ReachInv
<1>3. ReachInv /\ ~Done /\ [Next]_vars /\ [~Crash(u)]_vars => ~Done' \/ Shown'
  <2>1. CASE UNCHANGED vars
    BY <2>1 DEF vars
  <2>2. CASE ~Crash(u)
    BY <2>2, InboxMoves DEF ReachInv
  <2>3. QED
    BY <2>1, <2>2
<1>4. ReachInv /\ [Next]_vars /\ <<SetListGoesOn(u)>>_vars => Shown'
  BY InboxMoves DEF ReachInv
<1>5. QED
  BY <1>1, <1>2, <1>3, <1>4, PTL

\* One message.
Reaches(c) ==
    call[c].pc = "done" ~> (entries[Peer(call[c].by)] # {} \/ SomeClockRanOut)
SentTo(c, u) == call[c].pc = "done" /\ Peer(call[c].by) = u
ReachesFrom(c, u) ==
    SentTo(c, u) ~> (entries[Peer(call[c].by)] # {} \/ SomeClockRanOut)

LEMMA MessageComes ==
    ASSUME NEW c \in Calls, NEW u \in Users
    PROVE  /\ []ReachInv /\ [][Next]_vars
           /\ []<>(seen[u] = LocalView(u)) \/ []<><<Deliver(u)>>_vars
           /\ []<>(tasks[u] = {}) \/ []<><<SetListGoesOn(u)>>_vars
           /\ <>[][~Crash(u)]_vars
           => ReachesFrom(c, u)
<1>1. ReachInv /\ SentTo(c, u) /\ [Next]_vars => SentTo(c, u)'
  BY DoneMoves, CallsGrowStep DEF ReachInv, SentTo, CallsGrow
<1>2. ReachInv /\ SentTo(c, u) => LocalView(u).exists \/ SomeClockRanOut
  <2>1. ReachInv /\ ~SomeClockRanOut => LocalView(u) = doc[u]
    BY DEF ReachInv, RemovalsOK, LocalView
  <2>2. QED
    BY <2>1 DEF ReachInv, SentOK, SentTo
<1>3. SentTo(c, u) /\ entries[u] # {} => entries[Peer(call[c].by)] # {}
  BY DEF SentTo
<1>4. QED
  BY <1>1, <1>2, <1>3, RowComes, PTL DEF ReachesFrom

\* No phone is killed again and again for ever; MaxFaults makes this true of every
\* behaviour.
CrashesEnd == \A u \in Users : <>[][~Crash(u)]_vars

\* Whatever restarts, deletes and further messages come between, a message that
\* was sent in full shows in the peer's inbox or a clock runs out.
THEOREM ReachTheorem == FairSpec /\ CrashesEnd => ConversationReachesPeer
<1>1. Spec => []ReachInv /\ [][Next]_vars
  BY ReachAlways, PTL DEF Spec
<1>2. ASSUME NEW c \in Calls
      PROVE  FairSpec /\ CrashesEnd => Reaches(c)
  <2>1. FairSpec /\ CrashesEnd => \A u \in Users : ReachesFrom(c, u)
    BY <1>1, MessageComes
       DEF FairSpec, Fairness, CrashesEnd, ListenersReport, EntriesProcessed
  <2>2. ReachInv /\ call[c].pc = "done" => SentTo(c, Alice) \/ SentTo(c, Bob)
    BY PeerFacts DEF ReachInv, TypeInv, OwnersOK, SentTo
  <2>3. (\A u \in Users : ReachesFrom(c, u))
          => ReachesFrom(c, Alice) /\ ReachesFrom(c, Bob)
    OBVIOUS
  <2>4. QED
    BY <1>1, <2>1, <2>2, <2>3, PTL DEF FairSpec, ReachesFrom, Reaches
<1>3. QED
  BY <1>2 DEF ConversationReachesPeer, Reaches

-----------------------------------------------------------------------------
(* The match is given up only for a message that went out in full: a screen *)
(* that is a match now was one when its calls were started.                 *)

MatchIsOld ==
    \A c \in Calls :
      call[c].pc # "unused" /\ route[call[c].route].match => call[c].own # 0

\* onSendMessage only ever resets isMatches, and removeMatches follows the
\* write of the peer's document.
LEMMA MatchKeptStep ==
    TypeInv /\ MatchIsOld /\ MatchKeptUntilDelivered /\ [Next]_vars
      => MatchIsOld' /\ MatchKeptUntilDelivered'
<1> SUFFICES ASSUME TypeInv, MatchIsOld, MatchKeptUntilDelivered, [Next]_vars
             PROVE  MatchIsOld' /\ MatchKeptUntilDelivered'
  OBVIOUS
<1>0. /\ route \in [Routes -> Route] /\ call \in [Calls -> Call]
      /\ OwnersOK /\ now \in 1..MaxTime
  BY DEF TypeInv, Typed
<1>1. CASE UNCHANGED <<route, call, unmatched>>
  BY <1>1 DEF MatchIsOld, MatchKeptUntilDelivered
<1>2. ASSUME NEW u \in Users, NEW r \in Routes,
             OpenFromMatch(u, r) \/ OpenFromNotification(u, r)
               \/ OpenFromInbox(u, r)
      PROVE  MatchIsOld' /\ MatchKeptUntilDelivered'
  <2>1. PICK m, a : Open(u, r, m, a)
    BY <1>2 DEF OpenFromMatch, OpenFromNotification, OpenFromInbox
  <2>2. /\ route[r].state = "unused" /\ UNCHANGED <<call, unmatched>>
        /\ \A q \in Routes \ {r} : route'[q] = route[q]
    BY <1>0, <2>1 DEF Open
  <2>3. \A c \in Calls : call[c].pc # "unused" =>
          call[c].route \in Routes /\ call[c].route # r
    BY <1>0, <2>2 DEF OwnersOK
  <2>4. QED
    BY <2>2, <2>3 DEF MatchIsOld, MatchKeptUntilDelivered
<1>3. ASSUME NEW c \in Calls, NEW r \in Routes, StartSend(c, r)
      PROVE  MatchIsOld' /\ MatchKeptUntilDelivered'
  <2>1. /\ call'[c].own = Stamp(r) /\ call'[c].route = r
        /\ call[c].pc = "unused" /\ UNCHANGED <<route, unmatched>>
        /\ \A d \in Calls \ {c} : call'[d] = call[d]
    BY <1>0, <1>3 DEF StartSend
  <2>2. route[r].match => Stamp(r) # 0
    BY <1>0 DEF Stamp
  <2>3. QED
    BY <2>1, <2>2 DEF MatchIsOld, MatchKeptUntilDelivered
<1>4. ASSUME NEW c \in Calls,
             OwnGet(c) \/ OwnWrite(c) \/ PeerGet(c) \/ UpdateFails(c)
               \/ SendThrows(c)
      PROVE  MatchIsOld' /\ MatchKeptUntilDelivered'
  <2>1. /\ call[c].pc \notin {"unused", "done"} /\ UNCHANGED <<route, unmatched>>
        /\ call'[c].by = call[c].by /\ call'[c].own = call[c].own
        /\ call'[c].route = call[c].route
        /\ \A d \in Calls \ {c} : call'[d] = call[d]
    BY <1>0, <1>4
       DEF OwnGet, OwnWrite, PeerGet, UpdateFails, SendThrows, InFlight, Call
  <2>2. QED
    BY <2>1 DEF MatchIsOld, MatchKeptUntilDelivered
<1>5. ASSUME NEW c \in Calls, PeerWrite(c)
      PROVE  MatchIsOld' /\ MatchKeptUntilDelivered'
  <2>1. /\ call[c].pc = "peerwrite" /\ call'[c].pc = "done"
        /\ call'[c].by = call[c].by /\ call'[c].own = call[c].own
        /\ call'[c].route = call[c].route /\ call[c].route \in Routes
        /\ \A d \in Calls \ {c} : call'[d] = call[d]
        /\ \A r \in Routes : route'[r].match => route[r].match
        /\ \/ UNCHANGED unmatched
           \/ /\ route[call[c].route].match
              /\ unmatched' = unmatched \union {call[c].by}
    BY <1>0, <1>5 DEF PeerWrite, OwnersOK, Call, Route
  <2>2. MatchIsOld'
    BY <1>0, <2>1 DEF MatchIsOld, OwnersOK
  <2>3. MatchKeptUntilDelivered'
    BY <2>1 DEF MatchIsOld, MatchKeptUntilDelivered
  <2>4. QED
    BY <2>2, <2>3
<1>6. ASSUME NEW u \in Users, Crash(u)
      PROVE  MatchIsOld' /\ MatchKeptUntilDelivered'
  <2>1. /\ \A c \in Calls : /\ call'[c].by = call[c].by
                            /\ call'[c].own = call[c].own
                            /\ call'[c].route = call[c].route
                            /\ call[c].pc = "done" => call'[c].pc = "done"
                            /\ call'[c].pc # "unused" => call[c].pc # "unused"
        /\ \A r \in Routes : route'[r].match = route[r].match
        /\ UNCHANGED unmatched
    BY <1>0, <1>6 DEF Crash, InFlight, Call, Route
  <2>2. MatchIsOld'
    BY <1>0, <2>1 DEF MatchIsOld, OwnersOK
  <2>3. MatchKeptUntilDelivered'
    <3>1. ASSUME NEW v \in unmatched
          PROVE  \E c \in Calls :
                   call'[c].by = v /\ call'[c].pc = "done" /\ call'[c].own # 0
      <4>1. PICK c \in Calls :
              call[c].by = v /\ call[c].pc = "done" /\ call[c].own # 0
        BY DEF MatchKeptUntilDelivered
      <4>2. QED
        BY <2>1, <4>1
    <3>2. QED
      BY <2>1, <3>1 DEF MatchKeptUntilDelivered
  <2>4. QED
    BY <2>2, <2>3
<1>7. QED
  BY <1>1, <1>2, <1>3, <1>4, <1>5, <1>6
     DEF Next, SendStep, InboxStep,
         SetListGoesOn, NudgeProgress, vars, Deliver, ProcessEntry,
         RemovalLands, StartNudge, NudgePeer, NudgeOwn, NudgeStep, Tick

\* A match leaves the list only after a first message went out in full.
THEOREM MatchTheorem == Spec => []MatchKeptUntilDelivered
<1>1. Init => MatchIsOld /\ MatchKeptUntilDelivered
  BY DEF Init, MatchIsOld, MatchKeptUntilDelivered
<1>2. QED
  BY <1>1, MatchKeptStep, TypesHold, PTL DEF Spec

-----------------------------------------------------------------------------
(* One send at a time: what the two documents have in common before, in the *)
(* middle of and after a call of onSendMessage.                             *)

Serial == MaxInFlight = 1 /\ Undisturbed

OneAtATime ==
    MaxInFlight = 1 =>
      \A c, d \in Calls : InFlight(c) /\ InFlight(d) => c = d

\* A screen opened as a match has no clock of the peer's to answer.
MatchNotAnswer ==
    \A r \in Routes :
      route[r].answering => ~route[r].match /\ route[r].state # "unused"

AbsentIsEmpty == \A u \in Users : ~doc[u].exists => doc[u] = NoDoc

\* No send is half way: the documents agree.
Level ==
    \A u \in Users :
      /\ doc[u].exists <=> doc[Peer(u)].exists
      /\ doc[u].msg = doc[Peer(u)].msg
      /\ doc[u].sender # 0 <=> doc[Peer(u)].receiver # 0

\* A call that has not written yet: its look-up is still right, and it carries
\* a stamp exactly when its screen is a match.
ReadyToWrite(c) ==
    LET r == call[c].route IN
    /\ call[c].own # 0 <=> route[r].match
    /\ call[c].pc = "get" => ~route[r].answering
    /\ call[c].pc = "write" =>
         (call[c].found <=> ~route[r].answering /\ doc[call[c].by].exists)

\* Half way: the own document has what the peer's is about to get.
Half(c) ==
    LET u == call[c].by  v == Peer(u)  r == call[c].route IN
    /\ doc[u].exists /\ doc[u].msg = c
    /\ call[c].own # 0 <=> call[c].other # 0
    /\ call[c].pc = "peerget" => ~route[r].answering
    /\ call[c].pc = "peerwrite" =>
         (call[c].found <=> ~route[r].answering /\ doc[v].exists)
    /\ IF route[r].answering
       THEN doc[u].sender = 0 /\ doc[u].receiver = 0 /\ call[c].other = 0
       ELSE /\ doc[u].sender # 0 <=> call[c].other # 0 \/ doc[v].receiver # 0
            /\ doc[u].receiver # 0 <=> doc[v].sender # 0

SendsInOrder ==
    /\ AbsentIsEmpty
    /\ (\A c \in Calls : ~HasWrittenOwn(c)) => Level
    /\ \A c \in Calls : call[c].pc \in {"get", "write"} => ReadyToWrite(c)
    /\ \A c \in Calls : HasWrittenOwn(c) => Half(c)

SerialInv == OneAtATime /\ MatchNotAnswer /\ (Serial => SendsInOrder)

\* The nudge button acts on rows of documents that are there; a mark on one
\* document only belongs to a tap that is about to mark the other.
NoAnswer == \A r \in Routes : ~route[r].answering

RowsAreReal ==
    \A u \in Users : tasks[u] # {} \/ entries[u] # {} => doc[u].exists

TapsAreReal ==
    \A t \in Taps : tap[t].pc \in {"peer", "own"} => doc[tap[t].by].exists

OtherMarkFollows ==
    \A u \in Users :
      doc[u].nudged /\ ~doc[Peer(u)].nudged =>
        \E t \in Taps : tap[t].pc = "own" /\ tap[t].by = Peer(u)

HalfMarked ==
    \A t \in Taps : tap[t].pc = "own" => doc[Peer(tap[t].by)].nudged

MarksInv ==
    Serial => /\ RowsAreReal /\ TapsAreReal
              /\ NoAnswer => OtherMarkFollows /\ HalfMarked

\* The limit on calls under way keeps them one at a time.
LEMMA OneAtATimeStep == TypeInv /\ OneAtATime /\ [Next]_vars => OneAtATime'
<1> SUFFICES ASSUME TypeInv, OneAtATime, [Next]_vars, MaxInFlight = 1
             PROVE  \A c, d \in Calls : InFlight(c)' /\ InFlight(d)' => c = d
  BY DEF OneAtATime
<1>0. /\ call \in [Calls -> Call]
      /\ \A c, d \in Calls : InFlight(c) /\ InFlight(d) => c = d
  BY DEF TypeInv, Typed, OneAtATime
<1>1. CASE \A c \in Calls : InFlight(c)' => InFlight(c)
  BY <1>0, <1>1
<1>2. ASSUME NEW c \in Calls, NEW r \in Routes, StartSend(c, r)
      PROVE  \A a, b \in Calls : InFlight(a)' /\ InFlight(b)' => a = b
  <2> DEFINE S == {d \in Calls : InFlight(d)}
  <2>1. IsFiniteSet(S)
    BY CallsAssumption, FS_Subset
  <2>2. Cardinality(S) = 0
    <3>1. Cardinality(S) \in Nat
      BY <2>1, FS_CardinalityType
    <3>2. Cardinality(S) < MaxInFlight
      BY <1>2 DEF StartSend
    <3>3. QED
      BY <3>1, <3>2
  <2>3. S = {}
    BY <2>1, <2>2, FS_EmptySet
  <2>4. \A d \in Calls \ {c} : ~InFlight(d)'
    BY <1>0, <1>2, <2>3 DEF StartSend, InFlight
  <2>5. QED
    BY <2>4
<1>3. ASSUME NEW c \in Calls,
             OwnGet(c) \/ OwnWrite(c) \/ PeerGet(c) \/ PeerWrite(c)
               \/ UpdateFails(c) \/ SendThrows(c)
      PROVE  \A d \in Calls : InFlight(d)' => InFlight(d)
  BY <1>0, <1>3 DEF OwnGet, OwnWrite, PeerGet, PeerWrite, UpdateFails,
                    SendThrows, InFlight, FirstStep, Call
<1>4. ASSUME NEW u \in Users, Crash(u)
      PROVE  \A d \in Calls : InFlight(d)' => InFlight(d)
  BY <1>0, <1>4 DEF Crash, InFlight, Call
<1>5. CASE UNCHANGED call
  BY <1>0, <1>5 DEF InFlight
<1>6. QED
  BY <1>1, <1>2, <1>3, <1>4, <1>5
     DEF Next, SendStep, InboxStep,
         SetListGoesOn, NudgeProgress, vars, OpenFromMatch,
         OpenFromNotification, OpenFromInbox, Open, Deliver, ProcessEntry,
         RemovalLands, StartNudge, NudgePeer, NudgeOwn, NudgeStep, Tick

\* A route argument answers a clock or is a match, never both, and onSendMessage
\* only resets isMatches.
LEMMA MatchNotAnswerStep ==
    TypeInv /\ MatchNotAnswer /\ [Next]_vars => MatchNotAnswer'
<1> SUFFICES ASSUME TypeInv, MatchNotAnswer, [Next]_vars PROVE MatchNotAnswer'
  OBVIOUS
<1>0. route \in [Routes -> Route] /\ OwnersOK
  BY DEF TypeInv, Typed
<1>1. ASSUME NEW u \in Users, NEW r \in Routes,
             OpenFromMatch(u, r) \/ OpenFromNotification(u, r)
               \/ OpenFromInbox(u, r)
      PROVE  MatchNotAnswer'
  BY <1>0, <1>1 DEF OpenFromMatch, OpenFromNotification, OpenFromInbox, Open,
                    MatchNotAnswer
<1>2. ASSUME NEW c \in Calls, PeerWrite(c)
      PROVE  MatchNotAnswer'
  BY <1>0, <1>2 DEF PeerWrite, MatchNotAnswer, Route
<1>3. ASSUME NEW u \in Users, Crash(u)
      PROVE  MatchNotAnswer'
  BY <1>0, <1>3 DEF Crash, MatchNotAnswer, Route
<1>4. CASE UNCHANGED route
  BY <1>4 DEF MatchNotAnswer
<1>5. QED
  BY <1>1, <1>2, <1>3, <1>4
     DEF Next, SendStep, InboxStep,
         SetListGoesOn, NudgeProgress, vars, StartSend, OwnGet,
         OwnWrite, PeerGet, UpdateFails, SendThrows, Deliver, ProcessEntry,
         RemovalLands, StartNudge, NudgePeer, NudgeOwn, NudgeStep, Tick

\* One send at a time leaves the documents level, writes the own one, and brings
\* the peer's to the same level.
LEMMA SendsInOrderStep ==
    ASSUME TypeInv, TypeInv', RemovalsOK, Agreement, SerialInv, [Next]_vars,
           Serial'
    PROVE  SendsInOrder'
<1>0. /\ Serial /\ SendsInOrder /\ MatchNotAnswer
      /\ doc \in [Users -> Doc] /\ call \in [Calls -> Call] /\ OwnersOK
      /\ route \in [Routes -> Route]
      /\ \A u \in Users : removals[u] = <<>>
      /\ \A c, d \in Calls : InFlight(c) /\ InFlight(d) => c = d
  <2>1. Serial
    BY UndisturbedBefore DEF Serial
  <2>2. QED
    BY <2>1 DEF Serial, SerialInv, OneAtATime, Undisturbed, RemovalsOK, TypeInv,
                Typed
<1>1. ASSUME UNCHANGED call,
             \A c \in Calls : call[c].pc # "unused" =>
               /\ route'[call[c].route].match = route[call[c].route].match
               /\ route'[call[c].route].answering =
                    route[call[c].route].answering,
             \A u \in Users :
               /\ doc'[u].exists = doc[u].exists /\ doc'[u].msg = doc[u].msg
               /\ doc'[u].sender = doc[u].sender
               /\ doc'[u].receiver = doc[u].receiver
               /\ ~doc[u].exists => doc'[u] = doc[u]
      PROVE  SendsInOrder'
  <2>1. \A c \in Calls : call[c].pc # "unused" =>
          call[c].by \in Users /\ Peer(call[c].by) \in Users
    BY <1>0, PeerFacts DEF OwnersOK
  <2>2. AbsentIsEmpty'
    BY <1>0, <1>1 DEF SendsInOrder, AbsentIsEmpty
  <2>3. Level => Level'
    BY <1>1, PeerFacts DEF Level
  <2>4. \A c \in Calls : call[c].pc \in {"get", "write"} => ReadyToWrite(c)'
    BY <1>0, <1>1, <2>1 DEF SendsInOrder, ReadyToWrite
  <2>5. \A c \in Calls : HasWrittenOwn(c) => Half(c)'
    BY <1>0, <1>1, <2>1 DEF SendsInOrder, Half, HasWrittenOwn
  <2>6. QED
    BY <1>0, <1>1, <2>2, <2>3, <2>4, <2>5 DEF SendsInOrder, HasWrittenOwn
<1>2. ASSUME NEW u \in Users, NEW r \in Routes,
             OpenFromMatch(u, r) \/ OpenFromNotification(u, r)
               \/ OpenFromInbox(u, r)
      PROVE  SendsInOrder'
  <2>1. PICK m, a : Open(u, r, m, a)
    BY <1>2 DEF OpenFromMatch, OpenFromNotification, OpenFromInbox
  <2>2. /\ route[r].state = "unused" /\ UNCHANGED <<call, doc>>
        /\ \A q \in Routes \ {r} : route'[q] = route[q]
    BY <1>0, <2>1 DEF Open
  <2>3. \A c \in Calls : call[c].pc # "unused" =>
          call[c].route \in Routes /\ call[c].route # r
    BY <1>0, <2>2 DEF OwnersOK
  <2>4. QED
    BY <1>1, <2>2, <2>3
<1>3. ASSUME NEW c \in Calls, NEW r \in Routes, StartSend(c, r)
      PROVE  SendsInOrder'
  <2>1. /\ call[c].pc = "unused" /\ call'[c].pc \in {"get", "write"}
        /\ call'[c].pc = (IF route[r].answering THEN "write" ELSE "get")
        /\ call'[c].found = FALSE /\ call'[c].route = r
        /\ call'[c].own = Stamp(r) /\ UNCHANGED <<doc, route>>
        /\ \A d \in Calls \ {c} : call'[d] = call[d]
    BY <1>0, <1>3 DEF StartSend, FirstStep
  <2>2. Stamp(r) # 0 <=> route[r].match
    BY DEF Stamp, TypeInv, Typed
  <2>3. ReadyToWrite(c)'
    BY <2>1, <2>2 DEF ReadyToWrite
  <2>4. \A d \in Calls : HasWrittenOwn(d)' <=> HasWrittenOwn(d)
    BY <2>1 DEF HasWrittenOwn
  <2>5. QED
    BY <1>0, <2>1, <2>3, <2>4
       DEF SendsInOrder, AbsentIsEmpty, Level, ReadyToWrite, Half, HasWrittenOwn
<1>4. ASSUME NEW c \in Calls, OwnGet(c)
      PROVE  SendsInOrder'
  <2>1. /\ call[c].pc = "get" /\ call'[c].pc = "write"
        /\ call'[c].found = doc[call[c].by].exists
        /\ call'[c].by = call[c].by /\ call'[c].route = call[c].route
        /\ call'[c].own = call[c].own /\ UNCHANGED <<doc, route>>
        /\ \A d \in Calls \ {c} : call'[d] = call[d]
    BY <1>0, <1>4 DEF OwnGet, Call
  <2>2. ~route[call[c].route].answering
    BY <1>0, <2>1 DEF SendsInOrder, ReadyToWrite
  <2>3. ReadyToWrite(c)'
    BY <1>0, <2>1, <2>2 DEF SendsInOrder, ReadyToWrite
  <2>4. \A d \in Calls : HasWrittenOwn(d)' <=> HasWrittenOwn(d)
    BY <2>1 DEF HasWrittenOwn
  <2>5. AbsentIsEmpty' /\ (Level => Level')
    BY <1>0, <2>1 DEF SendsInOrder, AbsentIsEmpty, Level
  <2>6. \A d \in Calls \ {c} : /\ ReadyToWrite(d) => ReadyToWrite(d)'
                               /\ Half(d) => Half(d)'
    BY <2>1 DEF ReadyToWrite, Half
  <2>7. ~HasWrittenOwn(c)'
    BY <2>1 DEF HasWrittenOwn
  <2>8. QED
    BY <1>0, <2>1, <2>3, <2>4, <2>5, <2>6, <2>7 DEF SendsInOrder
<1>5. ASSUME NEW c \in Calls, OwnWrite(c)
      PROVE  SendsInOrder'
  <2> DEFINE u == call[c].by  v == Peer(u)  r == call[c].route
  <2>1. /\ call[c].pc = "write" /\ UNCHANGED route
        /\ call'[c].pc = (IF route[r].answering THEN "peerwrite" ELSE "peerget")
        /\ call'[c].found = FALSE /\ call'[c].other = Stamp(r)
        /\ call'[c].by = u /\ call'[c].route = r /\ call'[c].own = call[c].own
        /\ u \in Users /\ v \in Users /\ Peer(v) = u /\ u # v
        /\ r \in Routes
        /\ \A d \in Calls \ {c} : call'[d] = call[d]
    BY <1>0, <1>5, PeerFacts DEF OwnWrite, FirstStep, OwnersOK, Call
  <2>2. /\ \A d \in Calls \ {c} : ~InFlight(d)
        /\ \A d \in Calls : ~HasWrittenOwn(d)
    BY <1>0, <2>1 DEF InFlight, HasWrittenOwn
  <2>3. Level /\ ReadyToWrite(c)
    BY <1>0, <2>1, <2>2 DEF SendsInOrder
  <2>4. /\ doc'[u] = IF call[c].found THEN UpdateDoc(doc[u], c, call[c].own, 0)
                     ELSE SetDoc(c, call[c].own, 0)
        /\ doc'[v] = doc[v]
    BY <1>0, <1>5, <2>1 DEF OwnWrite
  <2>5. /\ Stamp(r) # 0 <=> route[r].match
        /\ call[c].own # 0 <=> route[r].match
        /\ route[r].answering => ~route[r].match
        /\ call[c].found <=> ~route[r].answering /\ doc[u].exists
    BY <1>0, <2>1, <2>3 DEF Stamp, TypeInv, Typed, ReadyToWrite, MatchNotAnswer
  <2>6. /\ doc[u].exists <=> doc[v].exists
        /\ doc[u].sender # 0 <=> doc[v].receiver # 0
        /\ doc[v].sender # 0 <=> doc[u].receiver # 0
        /\ ~doc[v].exists => doc[v].sender = 0 /\ doc[v].receiver = 0
    BY <1>0, <2>1, <2>3 DEF Level, SendsInOrder, AbsentIsEmpty, NoDoc
  <2>7. /\ doc'[u].exists /\ doc'[u].msg = c
        /\ doc'[u].sender = IF call[c].found /\ call[c].own = 0
                            THEN doc[u].sender ELSE call[c].own
        /\ doc'[u].receiver = IF call[c].found THEN doc[u].receiver ELSE 0
    <3>1. CASE call[c].found
      <4>1. doc[u].exists /\ doc[u] \in Doc
        BY <1>0, <2>1, <2>5, <3>1
      <4>2. QED
        BY <2>4, <3>1, <4>1 DEF UpdateDoc, Doc
    <3>2. CASE ~call[c].found
      BY <2>4, <3>2 DEF SetDoc
    <3>3. QED
      BY <3>1, <3>2
  <2>8. Half(c)'
    BY <2>1, <2>4, <2>5, <2>6, <2>7 DEF Half
  <2>9. AbsentIsEmpty'
    BY <1>0, <2>1, <2>4, <2>7 DEF SendsInOrder, AbsentIsEmpty, Peer
  <2>10. /\ HasWrittenOwn(c)'
         /\ \A d \in Calls \ {c} : ~HasWrittenOwn(d)' /\ ~InFlight(d)'
    BY <2>1, <2>2 DEF HasWrittenOwn, InFlight
  <2>11. QED
    BY <2>1, <2>8, <2>9, <2>10 DEF SendsInOrder, InFlight
<1>6. ASSUME NEW c \in Calls, PeerGet(c)
      PROVE  SendsInOrder'
  <2>1. /\ call[c].pc = "peerget" /\ call'[c].pc = "peerwrite"
        /\ call'[c].found = doc[Peer(call[c].by)].exists
        /\ call'[c].by = call[c].by /\ call'[c].route = call[c].route
        /\ call'[c].own = call[c].own /\ call'[c].other = call[c].other
        /\ UNCHANGED <<doc, route>>
        /\ \A d \in Calls \ {c} : call'[d] = call[d]
    BY <1>0, <1>6 DEF PeerGet, Call
  <2>2. HasWrittenOwn(c) /\ Half(c)
    BY <1>0, <2>1 DEF SendsInOrder, HasWrittenOwn
  <2>3. Half(c)'
    BY <2>1, <2>2 DEF Half
  <2>4. \A d \in Calls : HasWrittenOwn(d)' <=> HasWrittenOwn(d)
    BY <2>1 DEF HasWrittenOwn
  <2>5. AbsentIsEmpty' /\ (Level => Level')
    BY <1>0, <2>1 DEF SendsInOrder, AbsentIsEmpty, Level
  <2>6. \A d \in Calls \ {c} : /\ ReadyToWrite(d) => ReadyToWrite(d)'
                               /\ Half(d) => Half(d)'
    BY <2>1 DEF ReadyToWrite, Half
  <2>7. QED
    BY <1>0, <2>1, <2>2, <2>3, <2>4, <2>5, <2>6 DEF SendsInOrder
<1>7. ASSUME NEW c \in Calls, PeerWrite(c)
      PROVE  SendsInOrder'
  <2> DEFINE u == call[c].by  v == Peer(u)  r == call[c].route
  <2>1. /\ call[c].pc = "peerwrite" /\ call'[c].pc = "done"
        /\ u \in Users /\ v \in Users /\ Peer(v) = u /\ u # v
        /\ \A d \in Calls \ {c} : call'[d] = call[d]
    BY <1>0, <1>7, PeerFacts DEF PeerWrite, OwnersOK, Call
  <2>2. \A d \in Calls : ~InFlight(d)' /\ ~HasWrittenOwn(d)'
    BY <1>0, <2>1 DEF InFlight, HasWrittenOwn
  <2>3. HasWrittenOwn(c) /\ Half(c)
    BY <1>0, <2>1 DEF SendsInOrder, HasWrittenOwn
  <2>4. /\ doc'[v] = IF call[c].found THEN UpdateDoc(doc[v], c, 0, call[c].other)
                     ELSE SetDoc(c, 0, call[c].other)
        /\ doc'[u] = doc[u]
    BY <1>0, <1>7, <2>1 DEF PeerWrite
  <2>5. /\ doc'[v].exists /\ doc'[v].msg = c
        /\ doc'[v].sender = IF call[c].found THEN doc[v].sender ELSE 0
        /\ doc'[v].receiver = IF call[c].found /\ call[c].other = 0
                              THEN doc[v].receiver ELSE call[c].other
    <3>1. CASE call[c].found
      <4>1. doc[v].exists /\ doc[v] \in Doc
        BY <1>0, <2>1, <2>3, <3>1 DEF Half
      <4>2. QED
        BY <2>4, <3>1, <4>1 DEF UpdateDoc, Doc
    <3>2. CASE ~call[c].found
      BY <2>4, <3>2 DEF SetDoc
    <3>3. QED
      BY <3>1, <3>2
  <2>6. ~doc[v].exists => doc[v].sender = 0 /\ doc[v].receiver = 0
    BY <1>0, <2>1 DEF SendsInOrder, AbsentIsEmpty, NoDoc
  <2>7. /\ doc'[u].exists /\ doc'[u].msg = c
        /\ doc'[u].sender # 0 <=> doc'[v].receiver # 0
        /\ doc'[v].sender # 0 <=> doc'[u].receiver # 0
    BY <2>1, <2>3, <2>4, <2>5, <2>6 DEF Half
  <2>8. Users = {u, v}
    BY <2>1
  <2>9. Level' /\ AbsentIsEmpty'
    BY <2>1, <2>5, <2>7, <2>8 DEF Level, AbsentIsEmpty
  <2>10. QED
    BY <2>2, <2>9 DEF SendsInOrder, InFlight
<1>8. ASSUME NEW c \in Calls, UpdateFails(c) \/ SendThrows(c)
      PROVE  FALSE
  <2>1. Agreement' /\ call'[c].pc = "aborted"
    BY <1>0, <1>8, AgreementStep DEF UpdateFails, SendThrows, Call
  <2>2. Undisturbed'
    BY DEF Serial
  <2>3. QED
    BY <2>1, <2>2 DEF Agreement
<1>9. ASSUME NEW u \in Users, RemovalLands(u) \/ Crash(u)
      PROVE  FALSE
  BY <1>0, <1>9 DEF RemovalLands, Crash, Serial, Undisturbed, TypeInv, Typed
<1>10. ASSUME NEW t \in Taps, NudgePeer(t) \/ NudgeOwn(t)
       PROVE  SendsInOrder'
  <2>1. /\ \A u \in Users :
             /\ doc'[u].exists = doc[u].exists /\ doc'[u].msg = doc[u].msg
             /\ doc'[u].sender = doc[u].sender
             /\ doc'[u].receiver = doc[u].receiver
             /\ ~doc[u].exists => doc'[u] = doc[u]
        /\ UNCHANGED <<call, route>>
    BY <1>0, <1>10 DEF NudgePeer, NudgeOwn, NudgeStep, Doc
  <2>2. QED
    BY <1>1, <2>1
<1>11. CASE UNCHANGED <<doc, call, route>>
  BY <1>1, <1>11
<1>12. QED
  BY <1>2, <1>3, <1>4, <1>5, <1>6, <1>7, <1>8, <1>9, <1>10, <1>11
     DEF Next, SendStep, InboxStep,
         SetListGoesOn, NudgeProgress, vars, Deliver, ProcessEntry,
         StartNudge, Tick

\* What one send at a time keeps.
LEMMA SerialInvHolds == Spec => []SerialInv
<1>1. Init => SerialInv
  BY DEF Init, SerialInv, OneAtATime, InFlight, MatchNotAnswer, SendsInOrder,
         AbsentIsEmpty, Level, HasWrittenOwn, NoDoc, Peer
<1>2. TypeInv /\ TypeInv' /\ RemovalsOK /\ Agreement /\ SerialInv /\ [Next]_vars
        => SerialInv'
  BY OneAtATimeStep, MatchNotAnswerStep, SendsInOrderStep DEF SerialInv
<1>3. QED
  BY <1>1, <1>2, TypesHold, RemovalsHold, AgreementHolds, PTL DEF Spec

\* One message at a time leaves two documents that agree in full.
THEOREM SerialTheorem == Spec => []SerialSendsAgree
<1>1. SerialInv => SerialSendsAgree
  <2> SUFFICES ASSUME SerialInv, Serial, Quiet, NEW u \in Users
               PROVE  /\ doc[u].msg = doc[Peer(u)].msg
                      /\ doc[u].sender # 0 <=> doc[Peer(u)].receiver # 0
    BY DEF SerialSendsAgree, Serial
  <2>1. \A c \in Calls : ~HasWrittenOwn(c)
    BY DEF Quiet, InFlight, HasWrittenOwn
  <2>2. Level
    BY <2>1 DEF SerialInv, SendsInOrder
  <2>3. QED
    BY <2>2 DEF Level
<1>2. QED
  BY <1>1, SerialInvHolds, PTL

\* Undisturbed and one at a time, no step takes a document away.
LEMMA DocsStay ==
    ASSUME TypeInv, TypeInv', RemovalsOK, [Next]_vars, Serial', NEW u \in Users,
           doc[u].exists
    PROVE  doc'[u].exists
BY VanishStep, UndisturbedBefore DEF Serial, Undisturbed

\* Rows and taps are about documents that are there.
LEMMA RealStep ==
    ASSUME TypeInv, TypeInv', RemovalsOK, MarksInv, [Next]_vars, Serial'
    PROVE  RowsAreReal' /\ TapsAreReal'
<1>0. /\ Serial /\ RowsAreReal /\ TapsAreReal /\ OwnersOK
      /\ \A u \in Users : removals[u] = <<>>
      /\ \A u \in Users : doc[u].exists => doc'[u].exists
      /\ tasks \in [Users -> SUBSET Doc] /\ entries \in [Users -> SUBSET Entry]
      /\ tap \in [Taps -> Tap]
  <2>1. Serial
    BY UndisturbedBefore DEF Serial
  <2>2. QED
    BY <2>1, DocsStay
       DEF Serial, Undisturbed, RemovalsOK, TypeInv, Typed, MarksInv
<1>1. CASE UNCHANGED <<tasks, entries, tap>>
  BY <1>0, <1>1 DEF RowsAreReal, TapsAreReal, OwnersOK
<1>2. ASSUME NEW u \in Users, Deliver(u)
      PROVE  RowsAreReal' /\ TapsAreReal'
  <2>1. LocalView(u) = doc[u]
    BY <1>0 DEF LocalView
  <2>2. UNCHANGED tap
    BY <1>2 DEF Deliver
  <2>3. QED
    BY <1>0, <1>2, <2>1, <2>2 DEF Deliver, RowsAreReal, TapsAreReal, OwnersOK
<1>3. ASSUME NEW u \in Users, NEW d \in tasks[u], NEW lag \in {0, NoonShift},
             ProcessEntry(u, d, lag)
      PROVE  RowsAreReal' /\ TapsAreReal'
  <2>1. doc'[u].exists
    BY <1>0 DEF RowsAreReal
  <2>2. \A v \in Users \ {u} : tasks'[v] = tasks[v] /\ entries'[v] = entries[v]
    BY <1>0, <1>3 DEF ProcessEntry
  <2>3. QED
    BY <1>0, <1>3, <2>1, <2>2 DEF ProcessEntry, RowsAreReal, TapsAreReal, OwnersOK
<1>4. ASSUME NEW t \in Taps, NEW u \in Users, StartNudge(t, u)
      PROVE  RowsAreReal' /\ TapsAreReal'
  <2>1. doc[u].exists
    BY <1>0, <1>4 DEF StartNudge, RowsAreReal
  <2>2. QED
    BY <1>0, <1>4, <2>1 DEF StartNudge, RowsAreReal, TapsAreReal, OwnersOK
<1>5. ASSUME NEW t \in Taps, NudgePeer(t) \/ NudgeOwn(t)
      PROVE  RowsAreReal' /\ TapsAreReal'
  <2>1. /\ tap[t].pc \in {"peer", "own"} /\ tap'[t].by = tap[t].by
        /\ \A x \in Taps \ {t} : tap'[x] = tap[x]
        /\ UNCHANGED <<tasks, entries>>
    BY <1>0, <1>5 DEF NudgePeer, NudgeOwn, NudgeStep, Tap
  <2>2. QED
    BY <1>0, <2>1 DEF RowsAreReal, TapsAreReal, OwnersOK
<1>6. ASSUME NEW u \in Users, Crash(u)
      PROVE  FALSE
  BY <1>0, <1>6 DEF Crash, Serial, Undisturbed, TypeInv, Typed
<1>7. QED
  BY <1>1, <1>2, <1>3, <1>4, <1>5, <1>6
     DEF Next, SendStep, InboxStep,
         SetListGoesOn, NudgeProgress, vars, OpenFromMatch,
         OpenFromNotification, OpenFromInbox, Open, StartSend, OwnGet, OwnWrite,
         PeerGet, PeerWrite, UpdateFails, SendThrows, RemovalLands, Tick

\* A send that finds the document keeps its mark, and one that does not find it
\* has no mark to lose.
LEMMA WritesKeepMarks ==
    ASSUME TypeInv, SendsInOrder, NoAnswer, NEW c \in Calls,
           OwnWrite(c) \/ PeerWrite(c)
    PROVE  \A u \in Users : doc'[u].nudged = doc[u].nudged
<1>0. /\ doc \in [Users -> Doc] /\ AbsentIsEmpty
      /\ call[c].by \in Users /\ Peer(call[c].by) \in Users
      /\ call[c].route \in Routes
  BY PeerFacts DEF TypeInv, Typed, SendsInOrder, OwnersOK, OwnWrite, PeerWrite
<1>1. CASE OwnWrite(c)
  <2>1. call[c].found <=> doc[call[c].by].exists
    BY <1>0, <1>1 DEF OwnWrite, SendsInOrder, ReadyToWrite, NoAnswer
  <2>2. \A u \in Users : u # call[c].by => doc'[u] = doc[u]
    BY <1>0, <1>1 DEF OwnWrite
  <2>3. doc'[call[c].by].nudged = doc[call[c].by].nudged
    <3>1. CASE call[c].found
      <4>1. doc'[call[c].by] = UpdateDoc(doc[call[c].by], c, call[c].own, 0)
        BY <1>0, <1>1, <3>1 DEF OwnWrite
      <4>2. QED
        BY <1>0, <4>1 DEF UpdateDoc, Doc
    <3>2. CASE ~call[c].found
      <4>1. doc'[call[c].by] = SetDoc(c, call[c].own, 0)
        BY <1>0, <1>1, <3>2 DEF OwnWrite
      <4>2. doc[call[c].by] = NoDoc
        BY <1>0, <2>1, <3>2 DEF AbsentIsEmpty
      <4>3. QED
        BY <4>1, <4>2 DEF SetDoc, NoDoc
    <3>3. QED
      BY <3>1, <3>2
  <2>4. QED
    BY <2>2, <2>3
<1>2. CASE PeerWrite(c)
  <2>1. call[c].found <=> doc[Peer(call[c].by)].exists
    BY <1>0, <1>2 DEF PeerWrite, SendsInOrder, Half, HasWrittenOwn, NoAnswer
  <2>2. \A u \in Users : u # Peer(call[c].by) => doc'[u] = doc[u]
    BY <1>0, <1>2 DEF PeerWrite
  <2>3. doc'[Peer(call[c].by)].nudged = doc[Peer(call[c].by)].nudged
    <3>1. CASE call[c].found
      <4>1. doc'[Peer(call[c].by)] = UpdateDoc(doc[Peer(call[c].by)], c, 0, call[c].other)
        BY <1>0, <1>2, <3>1 DEF PeerWrite
      <4>2. QED
        BY <1>0, <4>1 DEF UpdateDoc, Doc
    <3>2. CASE ~call[c].found
      <4>1. doc'[Peer(call[c].by)] = SetDoc(c, 0, call[c].other)
        BY <1>0, <1>2, <3>2 DEF PeerWrite
      <4>2. doc[Peer(call[c].by)] = NoDoc
        BY <1>0, <2>1, <3>2 DEF AbsentIsEmpty
      <4>3. QED
        BY <4>1, <4>2 DEF SetDoc, NoDoc
    <3>3. QED
      BY <3>1, <3>2
  <2>4. QED
    BY <2>2, <2>3
<1>3. QED
  BY <1>1, <1>2

\* A mark on one document alone belongs to a tap about to mark the other.
LEMMA MarkStep ==
    ASSUME TypeInv, TypeInv', RemovalsOK, SerialInv, MarksInv, [Next]_vars,
           Serial', NoAnswer'
    PROVE  OtherMarkFollows' /\ HalfMarked'
<1>0. /\ Serial /\ TapsAreReal /\ OwnersOK /\ SendsInOrder /\ MatchNotAnswer
      /\ \A u \in Users : removals[u] = <<>>
      /\ tap \in [Taps -> Tap] /\ route \in [Routes -> Route]
      /\ doc \in [Users -> Doc]
  <2>1. Serial
    BY UndisturbedBefore DEF Serial
  <2>2. QED
    BY <2>1 DEF Serial, Undisturbed, RemovalsOK, TypeInv, Typed, MarksInv,
                SerialInv
<1>1. NoAnswer
  <2>1. CASE UNCHANGED route
    BY <2>1 DEF NoAnswer
  <2>2. ASSUME NEW u \in Users, NEW r \in Routes,
               OpenFromMatch(u, r) \/ OpenFromNotification(u, r)
                 \/ OpenFromInbox(u, r)
        PROVE  NoAnswer
    <3>1. PICK m, a : Open(u, r, m, a)
      BY <2>2 DEF OpenFromMatch, OpenFromNotification, OpenFromInbox
    <3>2. /\ route[r].state = "unused"
          /\ \A q \in Routes \ {r} : route'[q] = route[q]
      BY <1>0, <3>1 DEF Open
    <3>3. QED
      BY <1>0, <3>2 DEF NoAnswer, MatchNotAnswer
  <2>3. ASSUME NEW c \in Calls, PeerWrite(c)
        PROVE  NoAnswer
    BY <1>0, <2>3 DEF PeerWrite, NoAnswer, Route
  <2>4. ASSUME NEW u \in Users, Crash(u)
        PROVE  NoAnswer
    BY <1>0, <2>4 DEF Crash, NoAnswer, Route
  <2>5. QED
    BY <2>1, <2>2, <2>3, <2>4
       DEF Next, SendStep, InboxStep,
           SetListGoesOn, NudgeProgress, vars, StartSend, OwnGet,
           OwnWrite, PeerGet, UpdateFails, SendThrows, Deliver, ProcessEntry,
           RemovalLands, StartNudge, NudgePeer, NudgeOwn, NudgeStep, Tick
<1>2. OtherMarkFollows /\ HalfMarked
  BY <1>0, <1>1 DEF MarksInv
<1>3. ASSUME \A u \in Users : doc'[u].nudged = doc[u].nudged, UNCHANGED tap
      PROVE  OtherMarkFollows' /\ HalfMarked'
  <2>1. \A t \in Taps : tap[t].pc = "own" => Peer(tap[t].by) \in Users
    BY <1>0, PeerFacts DEF OwnersOK
  <2>2. QED
    BY <1>2, <1>3, <2>1, PeerFacts DEF OtherMarkFollows, HalfMarked
<1>4. ASSUME NEW c \in Calls, OwnWrite(c) \/ PeerWrite(c)
      PROVE  OtherMarkFollows' /\ HalfMarked'
  <2>1. UNCHANGED tap
    BY <1>4 DEF OwnWrite, PeerWrite
  <2>2. QED
    BY <1>0, <1>1, <1>3, <1>4, <2>1, WritesKeepMarks
<1>5. ASSUME NEW t \in Taps, NEW u \in Users, StartNudge(t, u)
      PROVE  OtherMarkFollows' /\ HalfMarked'
  <2>1. /\ tap[t].pc = "unused" /\ tap'[t].pc = "peer"
        /\ \A x \in Taps \ {t} : tap'[x] = tap[x]
        /\ UNCHANGED doc
    BY <1>0, <1>5 DEF StartNudge
  <2>2. OtherMarkFollows'
    BY <1>2, <2>1, PeerFacts DEF OtherMarkFollows
  <2>3. HalfMarked'
    BY <1>2, <2>1 DEF HalfMarked
  <2>4. QED
    BY <2>2, <2>3
<1>6. ASSUME NEW t \in Taps, NudgePeer(t)
      PROVE  OtherMarkFollows' /\ HalfMarked'
  <2> DEFINE b == tap[t].by  v == Peer(b)
  <2>1. /\ b \in Users /\ v \in Users /\ Peer(v) = b /\ b # v /\ Users = {b, v}
        /\ tap[t].pc = "peer" /\ tap'[t].by = b
        /\ \A x \in Taps \ {t} : tap'[x] = tap[x]
    BY <1>0, <1>6, PeerFacts DEF NudgePeer, NudgeStep, OwnersOK, Tap
  <2>2. CASE doc[v].exists
    <3>1. /\ doc'[v].nudged = TRUE /\ doc'[b].nudged = doc[b].nudged
          /\ tap'[t].pc = "own"
      BY <1>0, <1>6, <2>1, <2>2 DEF NudgePeer, NudgeStep, Doc, Tap
    <3>2. OtherMarkFollows'
      BY <2>1, <3>1 DEF OtherMarkFollows
    <3>3. HalfMarked'
      <4>1. \A x \in Taps \ {t} : tap[x].pc = "own" =>
              Peer(tap[x].by) \in {b, v} /\ doc[Peer(tap[x].by)].nudged
        BY <1>0, <1>2, <2>1, PeerFacts DEF HalfMarked, OwnersOK
      <4>2. QED
        BY <2>1, <3>1, <4>1 DEF HalfMarked
    <3>4. QED
      BY <3>2, <3>3
  <2>3. CASE ~doc[v].exists
    <3>1. UNCHANGED doc /\ tap'[t].pc = "aborted"
      BY <1>0, <1>6, <2>3 DEF NudgePeer, NudgeStep, Tap
    <3>2. OtherMarkFollows'
      BY <1>2, <2>1, <3>1, PeerFacts DEF OtherMarkFollows
    <3>3. HalfMarked'
      BY <1>2, <2>1, <3>1 DEF HalfMarked
    <3>4. QED
      BY <3>2, <3>3
  <2>4. QED
    BY <2>2, <2>3
<1>7. ASSUME NEW t \in Taps, NudgeOwn(t)
      PROVE  OtherMarkFollows' /\ HalfMarked'
  <2> DEFINE b == tap[t].by  v == Peer(b)
  <2>1. /\ b \in Users /\ v \in Users /\ Peer(v) = b /\ b # v /\ Users = {b, v}
        /\ tap[t].pc = "own"
        /\ \A x \in Taps \ {t} : tap'[x] = tap[x]
    BY <1>0, <1>7, PeerFacts DEF NudgeOwn, NudgeStep, OwnersOK, Tap
  <2>2. doc[b].exists /\ doc[v].nudged
    BY <1>0, <1>2, <2>1 DEF TapsAreReal, HalfMarked
  <2>3. /\ doc'[b].nudged = TRUE /\ doc'[v].nudged = doc[v].nudged
        /\ tap'[t].pc = "done"
    <3>1. doc' = [doc EXCEPT ![b].nudged = TRUE] /\ tap' = [tap EXCEPT ![t].pc = "done"]
      BY <1>7, <2>2 DEF NudgeOwn, NudgeStep
    <3>2. tap[t] \in Tap /\ doc[b] \in Doc
      BY <1>0, <2>1
    <3>3. QED
      BY <1>0, <2>1, <3>1, <3>2 DEF Doc, Tap
  <2>4. \A w \in Users : doc'[w].nudged
    BY <2>1, <2>2, <2>3
  <2>5. \A x \in Taps : tap'[x].pc = "own" => Peer(tap'[x].by) \in Users
    BY <1>0, <2>1, <2>3, PeerFacts DEF OwnersOK
  <2>6. QED
    BY <2>4, <2>5, PeerFacts DEF OtherMarkFollows, HalfMarked
<1>8. ASSUME NEW u \in Users, RemovalLands(u) \/ Crash(u)
      PROVE  FALSE
  BY <1>0, <1>8 DEF RemovalLands, Crash, Serial, Undisturbed, TypeInv, Typed
<1>9. CASE UNCHANGED <<doc, tap>>
  BY <1>3, <1>9
<1>10. QED
  BY <1>4, <1>5, <1>6, <1>7, <1>8, <1>9
     DEF Next, SendStep, InboxStep,
         SetListGoesOn, NudgeProgress, vars, OpenFromMatch,
         OpenFromNotification, OpenFromInbox, Open, StartSend, OwnGet, PeerGet,
         UpdateFails, SendThrows, Deliver, ProcessEntry, Tick

\* One send at a time and no answer: after the taps the marks agree.
THEOREM MarksTheorem == Spec => []NudgeMarksAgree
<1>1. Init => MarksInv
  BY DEF Init, MarksInv, RowsAreReal, TapsAreReal, OtherMarkFollows, HalfMarked,
         NoDoc
<1>2. TypeInv /\ TypeInv' /\ RemovalsOK /\ SerialInv /\ MarksInv /\ [Next]_vars
        => MarksInv'
  BY RealStep, MarkStep DEF MarksInv
<1>3. MarksInv => NudgeMarksAgree
  BY UsersAssumption
     DEF MarksInv, Serial, NoAnswer, OtherMarkFollows, NudgeMarksAgree, Peer
<1>4. QED
  BY <1>1, <1>2, <1>3, TypesHold, RemovalsHold, SerialInvHolds, PTL DEF Spec


-----------------------------------------------------------------------------
(* What a delete takes away is what setList looked at.  The invariant: each   *)
(* call writes each document once, so that a document with the message that   *)
(* was looked at still has the clocks that were looked at; and whatever waits *)
(* to be deleted had a clock that has run out.                                *)

\* Call c has written u's document, or never will.
Past(c, u) ==
    /\ call[c].pc \notin {"unused", "get", "write"}
    /\ call[c].by # u => call[c].pc \notin {"peerget", "peerwrite"}

\* Document d, once a snapshot of u's, still tells the clocks of its message.
Current(u, d) ==
    /\ d.msg \in Calls /\ Past(d.msg, u)
    /\ doc[u].exists /\ doc[u].msg = d.msg => SameClocks(u, d)

LooksOK ==
    /\ \A u \in Users : doc[u].exists => Past(doc[u].msg, u)
    /\ \A u \in Users : \A d \in tasks[u] : Current(u, d)
    /\ \A u \in Users : \A i \in 1..Len(removals[u]) :
         Expired(removals[u][i].saw) /\ Current(u, removals[u][i].saw)

\* A call does not come back to a document it has written.
LEMMA PastKept ==
    ASSUME TypeInv, [Next]_vars, NEW c \in Calls, NEW u \in Users, Past(c, u)
    PROVE  Past(c, u)'
<1>1. call[c].pc # "unused" /\ call'[c].by = call[c].by
  BY CallsGrowStep DEF Past, CallsGrow
<1>2. CASE InFlight(c)
  <2>1. /\ call[c].pc \in {"peerget", "peerwrite"} /\ call[c].by = u
        /\ call'[c].pc \in {"peerget", "peerwrite", "done", "aborted"}
    BY <1>2, CallMoves DEF Past, InFlight
  <2>2. QED
    BY <1>1, <2>1 DEF Past
<1>3. CASE ~InFlight(c)
  <2>1. call[c].pc \in {"done", "aborted"}
    BY <1>1, <1>3 DEF TypeInv, Typed, Call, InFlight
  <2>2. call'[c].pc \in {"done", "aborted"}
    BY <2>1, DoneMoves
  <2>3. QED
    BY <2>2 DEF Past
<1>4. QED
  BY <1>2, <1>3

\* A step leaves a document's message and clocks, or takes the document away, or
\* is the one write of a call to it.
LEMMA DocMoves ==
    ASSUME TypeInv, [Next]_vars, NEW u \in Users, doc'[u].exists
    PROVE  \/ /\ doc[u].exists /\ doc'[u].msg = doc[u].msg
              /\ doc'[u].sender = doc[u].sender
              /\ doc'[u].receiver = doc[u].receiver
           \/ \E c \in Calls : doc'[u].msg = c /\ ~Past(c, u) /\ Past(c, u)'
<1> DEFINE Stays == /\ doc[u].exists /\ doc'[u].msg = doc[u].msg
                    /\ doc'[u].sender = doc[u].sender
                    /\ doc'[u].receiver = doc[u].receiver
<1>0. /\ doc \in [Users -> Doc] /\ call \in [Calls -> Call] /\ OwnersOK
      /\ doc[u] \in Doc
  BY DEF TypeInv, Typed
<1>1. CASE doc' = doc
  BY <1>1
<1>2. ASSUME NEW c \in Calls, OwnWrite(c)
      PROVE  Stays \/ (doc'[u].msg = c /\ ~Past(c, u) /\ Past(c, u)')
  <2>1. call[c].by \in Users /\ call[c].pc = "write"
    BY <1>0, <1>2 DEF OwnWrite, OwnersOK
  <2>2. CASE call[c].by # u
    BY <1>0, <1>2, <2>1, <2>2 DEF OwnWrite
  <2>3. CASE call[c].by = u
    <3>1. call'[c].pc \in {"peerget", "peerwrite"} /\ call'[c].by = u
      BY <1>0, <1>2, <2>3 DEF OwnWrite, FirstStep, Call
    <3>2. doc'[u].msg = c
      BY <1>0, <1>2, <2>3 DEF OwnWrite, UpdateDoc, SetDoc, Doc
    <3>3. QED
      BY <2>1, <3>1, <3>2 DEF Past
  <2>4. QED
    BY <2>2, <2>3
<1>3. ASSUME NEW c \in Calls, PeerWrite(c)
      PROVE  Stays \/ (doc'[u].msg = c /\ ~Past(c, u) /\ Past(c, u)')
  <2>1. /\ call[c].by \in Users /\ Peer(call[c].by) \in Users
        /\ Peer(call[c].by) # call[c].by /\ call[c].pc = "peerwrite"
    BY <1>0, <1>3, PeerFacts DEF PeerWrite, OwnersOK
  <2>2. CASE Peer(call[c].by) # u
    BY <1>0, <1>3, <2>1, <2>2 DEF PeerWrite
  <2>3. CASE Peer(call[c].by) = u
    <3>1. call'[c].pc = "done"
      BY <1>0, <1>3 DEF PeerWrite, Call
    <3>2. doc'[u].msg = c
      BY <1>0, <1>3, <2>3 DEF PeerWrite, UpdateDoc, SetDoc, Doc
    <3>3. QED
      BY <2>1, <2>3, <3>1, <3>2 DEF Past
  <2>4. QED
    BY <2>2, <2>3
<1>4. ASSUME NEW p \in Users, RemovalLands(p)
      PROVE  Stays
  <2>1. Head(removals[p]).user # u
    BY <1>0, <1>4 DEF RemovalLands, NoDoc
  <2>2. QED
    BY <1>0, <1>4, <2>1 DEF RemovalLands
<1>5. ASSUME NEW t \in Taps, NudgePeer(t) \/ NudgeOwn(t)
      PROVE  Stays
  BY <1>0, <1>5 DEF NudgePeer, NudgeOwn, NudgeStep, Doc
<1>6. QED
  BY <1>1, <1>2, <1>3, <1>4, <1>5
     DEF Next, SendStep, InboxStep, SetListGoesOn, NudgeProgress, vars,
         OpenFromMatch, OpenFromNotification, OpenFromInbox, Open, StartSend,
         OwnGet, PeerGet, UpdateFails, SendThrows, Deliver, ProcessEntry, Crash,
         StartNudge, Tick

\* A snapshot stays current as long as its message does.
LEMMA CurrentKept ==
    ASSUME TypeInv, [Next]_vars, NEW u \in Users, NEW d, Current(u, d)
    PROVE  Current(u, d)'
<1>1. d.msg \in Calls /\ Past(d.msg, u) /\ Past(d.msg, u)'
  BY PastKept DEF Current
<1>2. ASSUME doc'[u].exists, doc'[u].msg = d.msg
      PROVE  SameClocks(u, d)'
  <2>1. /\ doc[u].exists /\ doc'[u].msg = doc[u].msg
        /\ doc'[u].sender = doc[u].sender /\ doc'[u].receiver = doc[u].receiver
    BY <1>1, <1>2, DocMoves
  <2>2. QED
    BY <1>2, <2>1 DEF Current, SameClocks
<1>3. QED
  BY <1>1, <1>2 DEF Current

\* A clock that has run out for a document has run out for good.
LEMMA ExpiredKept ==
    ASSUME TypeInv, TypeInv', CallsGrow, NEW d \in Doc, Expired(d)
    PROVE  Expired(d)'
<1>1. PICK s \in {d.sender, d.receiver} :
        s # 0 /\ now - s > (IF d.nudged THEN NudgedLimit ELSE NudgeLimit)
  BY DEF Expired
<1>2. /\ now \in Int /\ now' \in Int /\ now <= now' /\ s \in Int
      /\ NudgeLimit \in Int /\ NudgedLimit \in Int
  BY BoundsAssumption, LimitsAssumption
     DEF TypeInv, Typed, CallsGrow, Doc, Time
<1>3. now' - s > (IF d.nudged THEN NudgedLimit ELSE NudgeLimit)
  <2> DEFINE l == IF d.nudged THEN NudgedLimit ELSE NudgeLimit
  <2>1. l \in Int
    BY <1>2
  <2>2. now - s > l
    BY <1>1
  <2>3. now' - s > l
    BY <1>2, <2>1, <2>2, LaterStillOver
  <2>4. QED
    BY <2>3
<1>4. QED
  BY <1>1, <1>3 DEF Expired

\* The documents setList has in hand are those of before or a fresh snapshot.
LEMMA TaskMoves ==
    ASSUME TypeInv, [Next]_vars, NEW u \in Users, NEW d \in tasks'[u]
    PROVE  d \in tasks[u] \/ (doc[u].exists /\ d = doc[u])
<1>0. tasks \in [Users -> SUBSET Doc]
  BY DEF TypeInv, Typed
<1>1. CASE UNCHANGED tasks
  BY <1>1
<1>2. ASSUME NEW v \in Users, Deliver(v)
      PROVE  d \in tasks[u] \/ (doc[u].exists /\ d = doc[u])
  <2>1. LocalView(v).exists => LocalView(v) = doc[v]
    BY DEF LocalView, NoDoc
  <2>2. QED
    BY <1>0, <1>2, <2>1 DEF Deliver
<1>3. ASSUME NEW v \in Users, NEW e \in tasks[v], NEW lag \in {0, NoonShift},
             ProcessEntry(v, e, lag)
      PROVE  d \in tasks[u]
  BY <1>0, <1>3 DEF ProcessEntry
<1>4. ASSUME NEW v \in Users, Crash(v)
      PROVE  d \in tasks[u]
  BY <1>0, <1>4 DEF Crash
<1>5. QED
  BY <1>1, <1>2, <1>3, <1>4
     DEF Next, SendStep, InboxStep, SetListGoesOn, NudgeProgress, vars,
         OpenFromMatch, OpenFromNotification, OpenFromInbox, Open, StartSend,
         OwnGet, OwnWrite, PeerGet, PeerWrite, UpdateFails, SendThrows,
         RemovalLands, StartNudge, NudgePeer, NudgeOwn, NudgeStep, Tick

\* What setList issues for d is about d, and d's clock has run out, even where
\* setList reads a time that lags.
LEMMA DeletesAreOfIt ==
    ASSUME TypeInv, NEW u \in Users, NEW d \in tasks[u],
           NEW lag \in {0, NoonShift}, NEW i \in 1..Len(Deletes(d, now - lag))
    PROVE  Deletes(d, now - lag)[i].saw = d /\ Expired(d)
<1>1. d \in Doc
  BY DEF TypeInv, Typed
<1>2. \A j \in 1..2 : BothDocs(d)[j].saw = d
  BY DEF BothDocs
<1>3. Len(BothDocs(d)) = 2 /\ BothDocs(d) \in Seq({BothDocs(d)[1], BothDocs(d)[2]})
  BY DEF BothDocs
<1>4. \/ RanOut(d, d.receiver, now - lag)
      \/ RanOut(d, d.sender, now - lag)
  <2>1. CASE ~(\/ RanOut(d, d.receiver, now - lag)
               \/ RanOut(d, d.sender, now - lag))
    <3>1. Deletes(d, now - lag) = <<>> \o <<>>
      BY <2>1 DEF Deletes
    <3>2. Len(Deletes(d, now - lag)) = 0
      BY <3>1
    <3>3. QED
      BY <3>2
  <2>2. QED
    BY <2>1
<1>5. Expired(d)
  <2>1. PICK s \in {d.sender, d.receiver} : RanOut(d, s, now - lag)
    BY <1>4
  <2>2. /\ now \in Int /\ lag \in Nat /\ s \in Int
        /\ NudgeLimit \in Int /\ NudgedLimit \in Int
    BY <1>1, BoundsAssumption, LimitsAssumption DEF TypeInv, Typed, Doc, Time
  <2>3. s # 0 /\ now - s > (IF d.nudged THEN NudgedLimit ELSE NudgeLimit)
    BY <2>1, <2>2 DEF RanOut
  <2>4. QED
    BY <2>3 DEF Expired
<1>6. Deletes(d, now - lag)[i].saw = d
  <2>1. CASE ~(/\ RanOut(d, d.receiver, now - lag)
               /\ RanOut(d, d.sender, now - lag))
    <3>0. /\ BothDocs(d) \o <<>> = BothDocs(d)
          /\ <<>> \o BothDocs(d) = BothDocs(d)
      BY <1>3
    <3>1. Deletes(d, now - lag) = BothDocs(d)
      BY <1>4, <2>1, <3>0 DEF Deletes
    <3>2. QED
      BY <1>2, <1>3, <3>1
  <2>2. CASE /\ RanOut(d, d.receiver, now - lag)
             /\ RanOut(d, d.sender, now - lag)
    BY <2>2 DEF Deletes, BothDocs
  <2>3. QED
    BY <2>1, <2>2
<1>7. QED
  BY <1>5, <1>6

\* A delete that waits to land waited before, or is about a document setList
\* had in hand and found expired.
LEMMA RemovalMoves ==
    ASSUME TypeInv, [Next]_vars, NEW u \in Users, NEW i \in 1..Len(removals'[u])
    PROVE  \/ \E j \in 1..Len(removals[u]) : removals'[u][i] = removals[u][j]
           \/ removals'[u][i].saw \in tasks[u] /\ Expired(removals'[u][i].saw)
<1>0. removals \in [Users -> Seq(Removal)] /\ removals[u] \in Seq(Removal)
  BY DEF TypeInv, Typed
<1>1. CASE removals'[u] = removals[u]
  BY <1>1
<1>2. ASSUME NEW v \in Users, NEW d \in tasks[v], NEW lag \in {0, NoonShift},
             ProcessEntry(v, d, lag), removals'[u] # removals[u]
      PROVE  \/ \E j \in 1..Len(removals[u]) : removals'[u][i] = removals[u][j]
             \/ /\ removals'[u][i].saw \in tasks[u]
                /\ Expired(removals'[u][i].saw)
  <2> DEFINE more == Deletes(d, now - lag)
  <2>1. v = u /\ removals'[u] = removals[u] \o more
    BY <1>0, <1>2 DEF ProcessEntry
  <2>2. d.msg \in Calls /\ call[d.msg].by \in Users /\ d \in Doc
    BY DEF TypeInv, Typed, DocsOK, Justified, OwnersOK
  <2>3. BothDocs(d) \in Seq(Removal)
    BY <2>2, PeerFacts DEF BothDocs, Removal
  <2>4. more \in Seq(Removal)
    BY <2>3 DEF Deletes
  <2>5. CASE i \in 1..Len(removals[u])
    BY <1>0, <2>1, <2>4, <2>5
  <2>6. CASE i \notin 1..Len(removals[u])
    <3>1. /\ i - Len(removals[u]) \in 1..Len(more)
          /\ removals'[u][i] = more[i - Len(removals[u])]
      <4> HIDE DEF more
      <4>1. QED
        BY <1>0, <2>1, <2>4, <2>6
    <3>2. more[i - Len(removals[u])].saw = d /\ Expired(d)
      BY <2>1, <3>1, DeletesAreOfIt
    <3>3. QED
      BY <2>1, <3>1, <3>2
  <2>7. QED
    BY <2>5, <2>6
<1>3. ASSUME NEW v \in Users, RemovalLands(v), removals'[u] # removals[u]
      PROVE  \E j \in 1..Len(removals[u]) : removals'[u][i] = removals[u][j]
  <2>1. removals[u] # <<>> /\ removals'[u] = Tail(removals[u])
    BY <1>0, <1>3 DEF RemovalLands
  <2>2. i + 1 \in 1..Len(removals[u]) /\ removals'[u][i] = removals[u][i + 1]
    BY <1>0, <2>1
  <2>3. QED
    BY <2>2
<1>4. QED
  BY <1>1, <1>2, <1>3
     DEF Next, SendStep, InboxStep, SetListGoesOn, NudgeProgress, vars,
         OpenFromMatch, OpenFromNotification, OpenFromInbox, Open, StartSend,
         OwnGet, OwnWrite, PeerGet, PeerWrite, UpdateFails, SendThrows, Deliver,
         Crash, StartNudge, NudgePeer, NudgeOwn, NudgeStep, Tick

\* Every step keeps snapshots and deletes true to the documents.
LEMMA LooksStep ==
    ASSUME TypeInv, TypeInv', LooksOK, [Next]_vars
    PROVE  LooksOK'
<1>0. CallsGrow
  BY CallsGrowStep
<1>1. ASSUME NEW u \in Users, doc'[u].exists PROVE Past(doc[u].msg, u)'
  <2>1. CASE doc[u].exists /\ doc'[u].msg = doc[u].msg
    <3>1. doc[u].msg \in Calls
      BY <2>1 DEF TypeInv, DocsOK, Justified
    <3>2. Past(doc[u].msg, u)
      BY <2>1 DEF LooksOK
    <3>3. \A c \in Calls : Past(c, u) => Past(c, u)'
      BY PastKept
    <3>4. PICK c \in Calls : c = doc[u].msg /\ Past(c, u)'
      BY <3>1, <3>2, <3>3
    <3>5. QED
      BY <2>1, <3>4 DEF Past
  <2>2. CASE \E c \in Calls : doc'[u].msg = c /\ ~Past(c, u) /\ Past(c, u)'
    BY <2>2 DEF Past
  <2>3. QED
    BY <1>1, <2>1, <2>2, DocMoves
<1>2. ASSUME NEW u \in Users, NEW d \in tasks'[u] PROVE Current(u, d)'
  <2>1. CASE d \in tasks[u]
    BY <2>1, CurrentKept DEF LooksOK
  <2>2. CASE doc[u].exists /\ d = doc[u]
    <3>1. Current(u, d)
      BY <2>2 DEF LooksOK, Current, SameClocks, TypeInv, DocsOK, Justified
    <3>2. QED
      BY <3>1, CurrentKept
  <2>3. QED
    BY <2>1, <2>2, TaskMoves
<1>3. ASSUME NEW u \in Users, NEW i \in 1..Len(removals'[u])
      PROVE  \E d : /\ d = removals'[u][i].saw
                    /\ Expired(d)' /\ Current(u, d)'
  <2>1. PICK d : d = removals'[u][i].saw
    OBVIOUS
  <2>2. Expired(d) /\ Current(u, d)
    <3>1. CASE \E j \in 1..Len(removals[u]) : removals'[u][i] = removals[u][j]
      BY <2>1, <3>1 DEF LooksOK
    <3>2. CASE d \in tasks[u] /\ Expired(d)
      BY <3>2 DEF LooksOK
    <3>3. QED
      BY <2>1, <3>1, <3>2, RemovalMoves
  <2>3. d \in Doc
    <3>1. removals'[u] \in Seq(Removal)
      BY DEF TypeInv, Typed
    <3>2. removals'[u][i] \in Removal
      BY <3>1
    <3>3. QED
      BY <2>1, <3>2 DEF Removal
  <2>4. QED
    BY <1>0, <2>1, <2>2, <2>3, CurrentKept, ExpiredKept
<1>4. \A u \in Users : \A i \in 1..Len(removals'[u]) :
        (Expired(removals[u][i].saw) /\ Current(u, removals[u][i].saw))'
  BY <1>3 DEF Expired, Current, SameClocks, Past
<1>5. QED
  BY <1>1, <1>2, <1>4 DEF LooksOK

\* In every reachable state a snapshot in hand or a delete under way is true to
\* the document, unless that has another message by now.
THEOREM LooksHold == Spec => []LooksOK
<1>1. Init => LooksOK
  BY DEF Init, LooksOK, NoDoc
<1>2. QED
  BY <1>1, LooksStep, TypesHold, PTL DEF Spec

\* A delete that lands takes away what setList had looked at, with a clock that
\* has run past the limit, or a document that has another message by now.
LEMMA RemovalStep ==
    ASSUME TypeInv, LooksOK, [Next]_vars, NEW u \in Users,
           doc[u].exists, ~doc'[u].exists
    PROVE  \E p \in Users :
             /\ removals[p] # <<>> /\ removals'[p] = Tail(removals[p])
             /\ Head(removals[p]).user = u
             /\ LET d == Head(removals[p]).saw IN
                  doc[u].msg = d.msg =>
                    Expired(d) /\ (p = u => SameClocks(u, d))
<1>1. PICK p \in Users : RemovalLands(p) /\ Head(removals[p]).user = u
  BY VanishLands
<1>2. /\ removals[p] # <<>> /\ removals'[p] = Tail(removals[p])
      /\ 1 \in 1..Len(removals[p]) /\ Head(removals[p]) = removals[p][1]
  BY <1>1 DEF RemovalLands, TypeInv, Typed
<1>3. Expired(removals[p][1].saw) /\ Current(p, removals[p][1].saw)
  BY <1>2 DEF LooksOK
<1>4. QED
  BY <1>1, <1>2, <1>3 DEF Current

\* No delete takes a conversation away early: what leaves an inbox is what
\* setList looked at, with the very clocks it had then and one of them run out,
\* unless a message has been written to it since.
THEOREM RemovalTheorem == Spec => RemovedOnlyAfterExpiry
<1>1. TypeInv /\ LooksOK /\ [Next]_vars =>
        [\A u \in Users : doc[u].exists /\ ~doc'[u].exists =>
           \E p \in Users :
             /\ removals[p] # <<>> /\ removals'[p] = Tail(removals[p])
             /\ Head(removals[p]).user = u
             /\ LET d == Head(removals[p]).saw IN
                  doc[u].msg = d.msg =>
                    Expired(d) /\ (p = u => SameClocks(u, d))]_vars
  BY RemovalStep
<1>2. QED
  BY <1>1, TypesHold, LooksHold, PTL DEF Spec, RemovedOnlyAfterExpiry
=============================================================================
