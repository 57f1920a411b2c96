---------------------------- MODULE ChatHistory ----------------------------
(***************************************************************************)
(* The messages a chat screen shows (lib/Pages/FirebaseChatScreen.dart;    *)
(* FirebaseGroupChatScreen.dart has the same code).  The screen starts     *)
(* live: a StreamBuilder shows the newest Limit messages.  The first older *)
(* page the user scrolls to turns the stream off for good; from then on    *)
(* each page adds a listener on the newest message (loadToTrue), and a     *)
(* listener that sees one the list does not start with asks for everything *)
(* newer (_newMessageListener).                                            *)
(*                                                                         *)
(* Messages are numbered by their timestamps, which are taken to be        *)
(* distinct and to arrive in order.                                        *)
(***************************************************************************)
EXTENDS Integers, Sequences, FiniteSets

CONSTANTS
    Limit,          \* messages of the live window and of a page (20)
    MaxMsgs,        \* bound on the messages of the conversation
    MaxPages,       \* bound on the page queries in one visit
    MaxQueries      \* bound on the page queries under way at once

ASSUME BoundsAssumption ==
    /\ Limit \in Nat \ {0} /\ MaxMsgs \in Nat
    /\ MaxPages \in Nat /\ MaxQueries \in Nat

VARIABLES
    sent,           \* the server holds the messages 1..sent
    paged,          \* _isLoading: the stream is off
    list,           \* listMessage, newest first
    last,           \* lastMessage, 0 for null
    templast,       \* templastMessage, 0 for null
    queries,        \* bounds of the page queries under way, in order
    pages,          \* page queries asked so far
    seen,           \* seen[i]: what the i-th listener reported last, 0 at first
    gets            \* queries of _newMessageListener under way

vars == <<sent, paged, list, last, templast, queries, pages, seen, gets>>

Msgs == 0..MaxMsgs
\* upto is the newest message the server put in the answer, 0 before that.
Get == [after : Msgs, upto : Msgs]

TypeOK ==
    /\ sent \in Msgs
    /\ paged \in BOOLEAN
    /\ list \in Seq(Msgs)
    /\ last \in Msgs /\ templast \in Msgs
    /\ queries \in Seq(Msgs)
    /\ pages \in 0..MaxPages
    /\ seen \in Seq(Msgs)
    /\ gets \subseteq Get

\* The messages hi, hi - 1, ..., lo + 1.
Down(hi, lo) == [i \in 1..(hi - lo) |-> hi + 1 - i]

\* Variant of Newest: a conversation is taken to fill the window.
NewestFull(hi) == Down(hi, hi - Limit)

\* The newest Limit messages up to hi.
Newest(hi) == Down(hi, IF hi > Limit THEN hi - Limit ELSE 0)

Init ==
    /\ sent \in Msgs
    /\ paged = FALSE
    /\ list = <<>>
    /\ last = 0 /\ templast = 0
    /\ queries = <<>>
    /\ pages = 0
    /\ seen = <<>>
    /\ gets = {}

\* Either user sends a message.
Arrive ==
    /\ sent < MaxMsgs
    /\ sent' = sent + 1
    /\ UNCHANGED <<paged, list, last, templast, queries, pages, seen, gets>>

\* The builder of the stream, which also runs again on any rebuild.
LiveSnapshot ==
    /\ ~paged
    /\ list' = Newest(sent)
    /\ last' = IF sent = 0 THEN last ELSE sent
    /\ UNCHANGED <<sent, paged, templast, queries, pages, seen, gets>>

\* _scrollListener at the far end of the list.
ScrollToEnd ==
    /\ list # <<>>
    /\ Len(queries) < MaxQueries
    /\ pages < MaxPages
    /\ pages' = pages + 1
    /\ queries' = Append(queries, list[Len(list)])
    /\ UNCHANGED <<sent, paged, list, last, templast, seen, gets>>

\* Variant of PageArrives: the page is put before what is there.
PageArrivesInFront ==
    /\ queries # <<>>
    /\ queries' = Tail(queries)
    /\ list' = Newest(Head(queries) - 1) \o list
    /\ paged' = TRUE
    /\ seen' = Append(seen, 0)
    /\ UNCHANGED <<sent, last, templast, pages, gets>>

\* A page arrives: loadToTrue turns the stream off and adds a listener.
PageArrives ==
    /\ queries # <<>>
    /\ queries' = Tail(queries)
    /\ list' = list \o Newest(Head(queries) - 1)
    /\ paged' = TRUE
    /\ seen' = Append(seen, 0)
    /\ UNCHANGED <<sent, last, templast, pages, gets>>

\* _newMessageListener, which asks once for what came after lastMessage.
NewMessageListener ==
    IF last = templast
    THEN UNCHANGED <<templast, gets>>
    ELSE /\ templast' = last
         /\ gets' = gets \union {[after |-> last, upto |-> 0]}

\* The i-th listener of loadToTrue reports the newest message.
ListenerFires(i) ==
    /\ sent # 0 /\ seen[i] # sent
    /\ seen' = [seen EXCEPT ![i] = sent]
    /\ IF last # sent THEN NewMessageListener ELSE UNCHANGED <<templast, gets>>
    /\ UNCHANGED <<sent, paged, list, last, queries, pages>>

\* The server answers a query of _newMessageListener.
GetAnswered(g) ==
    /\ g.upto = 0
    /\ gets' = (gets \ {g}) \union {[g EXCEPT !.upto = sent]}
    /\ UNCHANGED <<sent, paged, list, last, templast, queries, pages, seen>>

\* Variant of GetArrives: templastMessage follows lastMessage.
GetArrivesDeaf(g) ==
    LET new == Down(g.upto, g.after) \o list IN
    /\ g.upto # 0
    /\ gets' = gets \ {g}
    /\ list' = new
    /\ last' = new[1]
    /\ templast' = new[1]
    /\ UNCHANGED <<sent, paged, queries, pages, seen>>

\* Variant of GetArrives: one message is left out.
GetArrivesShort(g) ==
    LET new == Down(g.upto, g.after + 1) \o list IN
    /\ g.upto # 0
    /\ gets' = gets \ {g}
    /\ list' = new
    /\ last' = new[1]
    /\ UNCHANGED <<sent, paged, templast, queries, pages, seen>>

\* Its answer arrives and goes to the front of the list.
GetArrives(g) ==
    LET new == Down(g.upto, g.after) \o list IN
    /\ g.upto # 0
    /\ gets' = gets \ {g}
    /\ list' = new
    /\ last' = new[1]
    /\ UNCHANGED <<sent, paged, templast, queries, pages, seen>>

Fire == \E i \in 1..Len(seen) : ListenerFires(i)
Answer == \E g \in gets : GetAnswered(g) \/ GetArrives(g)

Next == Arrive \/ LiveSnapshot \/ ScrollToEnd \/ PageArrives \/ Fire \/ Answer

Spec == Init /\ [][Next]_vars

\* Listeners report and queries are answered in the end: weak fairness of Fire
\* and of Answer, whose enabling conditions are spelled out.
Unreported == sent # 0 /\ \E i \in 1..Len(seen) : seen[i] # sent
ListenersReport == []<>~Unreported \/ []<><<Fire>>_vars
QueriesAnswered == []<>(gets = {}) \/ []<><<Answer>>_vars

FairSpec == Spec /\ ListenersReport /\ QueriesAnswered

-----------------------------------------------------------------------------
(* Properties. *)

Shown == {list[i] : i \in 1..Len(list)}

\* With one page query at a time the messages are shown newest first and none
\* twice, although every page has left a listener behind and they all report
\* the same new message to _newMessageListener.
NewestFirst ==
    MaxQueries = 1 =>
      \A i \in 1..Len(list), j \in 1..Len(list) : i < j => list[i] > list[j]

\* The newest rows, as many as a window, are consecutive messages: what
\* _newMessageListener puts in front of the window leaves no message out.
NoHolesOnTop ==
    \A i \in 2..Len(list) : i <= Limit => list[i - 1] = list[i] + 1

\* With one page query at a time there is at most one place where rows that
\* stand next to each other are not consecutive messages: where the first page
\* met a window that had moved on while the page was on its way.  Every later
\* page and every answer to _newMessageListener joins what is there.
TornOnce ==
    MaxQueries = 1 =>
      \A i \in 2..Len(list), j \in 2..Len(list) :
        list[i - 1] # list[i] + 1 /\ list[j - 1] # list[j] + 1 => i = j

\* When _newMessageListener has nothing under way it is ready for the next
\* message: templastMessage has not caught up with lastMessage.
NeverDeaf == paged /\ gets = {} => last # templast

\* A message that came while a query was under way may be missing (the
\* listeners' reports of it were dropped), but the report of any later message
\* brings it along.
MissedMessageComesWithNext ==
    \A m \in 1..MaxMsgs :
      /\ paged /\ gets = {} /\ last < m /\ m <= sent
      /\ \E i \in 1..Len(seen) : seen[i] # sent
      ~> m \in Shown
=============================================================================
