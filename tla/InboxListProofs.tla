--------------------------- MODULE InboxListProofs ---------------------------
(***************************************************************************)
(* Proofs about InboxList, for any accounts and peers and all bounds.      *)
(***************************************************************************)
EXTENDS InboxList, SequenceTheorems, FiniteSetTheorems, TLAPS

(***************************************************************************)
(* What the operators on lists return.                                     *)
(***************************************************************************)

\* An order of a finite set reaches each element at one place.
LEMMA OrderFacts ==
    ASSUME NEW S, IsFiniteSet(S), NEW s \in SetToSeqs(S)
    PROVE  /\ s \in Seq(S) /\ Len(s) = Cardinality(S)
           /\ \A p \in S : \E i \in 1..Len(s) : s[i] = p
           /\ \A i, j \in 1..Len(s) : s[i] = s[j] => i = j
<1>1. Cardinality(S) \in Nat
  BY FS_CardinalityType
<1>2. s \in [1..Cardinality(S) -> S]
      /\ \A i, j \in 1..Cardinality(S) : i # j => s[i] # s[j]
  BY DEF SetToSeqs
<1>3. s \in Seq(S) /\ Len(s) = Cardinality(S)
  BY <1>1, <1>2
<1>4. s \in Injection(1..Cardinality(S), S)
  BY <1>2 DEF Injection, IsInjective
<1>5. Cardinality(1..Cardinality(S)) = Cardinality(S)
  BY <1>1, FS_Interval
<1>6. s \in Surjection(1..Cardinality(S), S)
  BY <1>4, <1>5, FS_Injection
<1>7. QED
  BY <1>2, <1>3, <1>6 DEF Surjection

\* Without its i-th element a sequence is one shorter.
LEMMA RemoveFacts ==
    ASSUME NEW S, NEW s \in Seq(S), NEW i \in 1..Len(s)
    PROVE  /\ RemoveAt(s, i) \in Seq(S) /\ Len(RemoveAt(s, i)) = Len(s) - 1
           /\ \A j \in 1..(Len(s) - 1) :
                 RemoveAt(s, i)[j] = IF j < i THEN s[j] ELSE s[j + 1]
<1> DEFINE front == SubSeq(s, 1, i - 1)
           back == SubSeq(s, i + 1, Len(s))
<1>1. Len(s) \in Nat /\ i \in Nat /\ \A j \in 1..Len(s) : s[j] \in S
  BY ElementOfSeq, LenProperties
<1>2. /\ front \in Seq(S) /\ Len(front) = i - 1
      /\ \A j \in 1..(i - 1) : front[j] = s[j]
  <2>1. \A j \in 1..(i - 1) : s[j] \in S
    BY <1>1
  <2>2. /\ front \in Seq(S)
        /\ Len(front) = IF 1 <= i - 1 THEN i - 1 - 1 + 1 ELSE 0
        /\ \A j \in 1..(i - 1 - 1 + 1) : front[j] = s[1 + j - 1]
    BY <1>1, <2>1, SubSeqProperties
  <2> QED BY <1>1, <2>2
<1>3. /\ back \in Seq(S) /\ Len(back) = Len(s) - i
      /\ \A j \in 1..(Len(s) - i) : back[j] = s[i + j]
  <2>1. \A j \in (i + 1)..Len(s) : s[j] \in S
    BY <1>1
  <2>2. /\ back \in Seq(S)
        /\ Len(back) = IF i + 1 <= Len(s) THEN Len(s) - (i + 1) + 1 ELSE 0
        /\ \A j \in 1..(Len(s) - (i + 1) + 1) : back[j] = s[(i + 1) + j - 1]
    BY <1>1, <2>1, SubSeqProperties
  <2> QED BY <1>1, <2>2
<1>4. RemoveAt(s, i) = front \o back
  BY DEF RemoveAt
<1> HIDE DEF front, back
<1>5. /\ front \o back \in Seq(S) /\ Len(front \o back) = Len(front) + Len(back)
      /\ \A j \in 1..(Len(front) + Len(back)) :
            (front \o back)[j] =
               IF j <= Len(front) THEN front[j] ELSE back[j - Len(front)]
  BY <1>2, <1>3, ConcatProperties
<1>6. QED
  BY <1>1, <1>2, <1>3, <1>4, <1>5

LEMMA OpenFinite ==
    ASSUME NEW u \in Accounts
    PROVE  IsFiniteSet(Unopened(u)) /\ IsFiniteSet(Opened(u))
BY PeersAssumption, FS_Subset DEF Unopened, Opened

\* setList makes one row for each conversation without a stamp.
LEMMA RowsFacts ==
    ASSUME TypeOK, NEW u \in Accounts, NEW rs \in Rows(u)
    PROVE  /\ rs \in Seq(Row)
           /\ \A i \in 1..Len(rs) : /\ rs[i].peer \in Unopened(u)
                                    /\ rs[i] = RowOf(u, rs[i].peer)
           /\ \A p \in Unopened(u) : \E i \in 1..Len(rs) : rs[i].peer = p
           /\ \A i, j \in 1..Len(rs) : rs[i].peer = rs[j].peer => i = j
<1>1. PICK s \in SetToSeqs(Unopened(u)) :
         rs = [i \in 1..Len(s) |-> RowOf(u, s[i])]
  BY DEF Rows
<1>2. /\ s \in Seq(Unopened(u)) /\ Len(s) \in Nat
      /\ \A p \in Unopened(u) : \E i \in 1..Len(s) : s[i] = p
      /\ \A i, j \in 1..Len(s) : s[i] = s[j] => i = j
      /\ \A i \in 1..Len(s) : s[i] \in Unopened(u)
  BY OpenFinite, OrderFacts, LenProperties, ElementOfSeq
<1>3. \A p \in Unopened(u) : RowOf(u, p) \in Row /\ RowOf(u, p).peer = p
  <2>1. \A p \in Unopened(u) : p \in Peers /\ doc[u][p] \in Number
    BY DEF TypeOK, Unopened
  <2>2. 0 \in Number
    BY BoundsAssumption DEF Number
  <2> QED BY <2>1, <2>2 DEF RowOf, Row
<1>4. rs \in Seq(Row) /\ Len(rs) = Len(s)
  BY <1>1, <1>2, <1>3
<1>5. \A i \in 1..Len(s) : rs[i] = RowOf(u, s[i])
  BY <1>1
<1>6. \A i \in 1..Len(s) : rs[i].peer = s[i]
  BY <1>2, <1>3, <1>5
<1>7. QED
  BY <1>2, <1>4, <1>5, <1>6

\* setList asks one query for each conversation with a stamp.
LEMMA TasksFacts ==
    ASSUME TypeOK, NEW u \in Accounts, NEW ts \in Tasks(u)
    PROVE  /\ ts \in Seq(Task)
           /\ \A i \in 1..Len(ts) : /\ ts[i].peer \in Opened(u)
                                    /\ ts[i] = TaskOf(u, ts[i].peer)
           /\ \A p \in Opened(u) : \E i \in 1..Len(ts) : ts[i].peer = p
           /\ \A i, j \in 1..Len(ts) : ts[i].peer = ts[j].peer => i = j
<1>1. PICK s \in SetToSeqs(Opened(u)) :
         ts = [i \in 1..Len(s) |-> TaskOf(u, s[i])]
  BY DEF Tasks
<1>2. /\ s \in Seq(Opened(u)) /\ Len(s) \in Nat
      /\ \A p \in Opened(u) : \E i \in 1..Len(s) : s[i] = p
      /\ \A i, j \in 1..Len(s) : s[i] = s[j] => i = j
      /\ \A i \in 1..Len(s) : s[i] \in Opened(u)
  BY OpenFinite, OrderFacts, LenProperties, ElementOfSeq
<1>3. \A p \in Opened(u) : TaskOf(u, p) \in Task /\ TaskOf(u, p).peer = p
  <2>1. \A p \in Opened(u) : p \in Peers /\ doc[u][p] \in Number
                               /\ stamps[p] \in Number
    BY DEF TypeOK, Opened
  <2>2. user \in Accounts \union {Nobody}
    BY DEF TypeOK
  <2> QED BY <2>1, <2>2 DEF TaskOf, Task
<1>4. ts \in Seq(Task) /\ Len(ts) = Len(s)
  BY <1>1, <1>2, <1>3
<1>5. \A i \in 1..Len(s) : ts[i] = TaskOf(u, s[i])
  BY <1>1
<1>6. \A i \in 1..Len(s) : ts[i].peer = s[i]
  BY <1>2, <1>3, <1>5
<1>7. QED
  BY <1>2, <1>4, <1>5, <1>6

(***************************************************************************)
(* Types.                                                                  *)
(***************************************************************************)

\* The bound on all messages bounds those of a conversation.
LEMMA RoomLeft ==
    ASSUME TypeOK, NEW u \in Accounts, NEW p \in Peers,
           Cardinality(Sent) < MaxSent
    PROVE  sent[u][p] + 1 \in Number
<1> DEFINE Pairs == (Accounts \X Peers) \X (1..MaxSent)
           Triples == Accounts \X Peers \X (1..MaxSent)
           flat == [x \in Pairs |-> <<x[1][1], x[1][2], x[2]>>]
<1>1. MaxSent \in Nat /\ sent[u][p] \in 0..MaxSent
  BY BoundsAssumption DEF TypeOK, Number
<1>2. IsFiniteSet(1..MaxSent) /\ Cardinality(1..MaxSent) = MaxSent
  BY <1>1, FS_Interval
<1>3. IsFiniteSet(Triples)
  <2>1. IsFiniteSet(Accounts \X Peers)
    BY PeersAssumption, FS_Product
  <2>2. IsFiniteSet(Pairs)
    BY <2>1, <1>2, FS_Product
  <2>3. flat \in [Pairs -> Triples]
    OBVIOUS
  <2>4. \A t \in Triples : \E x \in Pairs : flat[x] = t
    <3> TAKE t \in Triples
    <3>1. <<<<t[1], t[2]>>, t[3]>> \in Pairs
      OBVIOUS
    <3>2. flat[<<<<t[1], t[2]>>, t[3]>>] = t
      BY <3>1
    <3> QED BY <3>1, <3>2
  <2>5. flat \in Surjection(Pairs, Triples)
    BY <2>3, <2>4 DEF Surjection
  <2> QED BY <2>2, <2>5, FS_Surjection
<1>4. IsFiniteSet(Sent)
  BY <1>3, FS_Subset DEF Sent
<1>5. SUFFICES ASSUME sent[u][p] = MaxSent
               PROVE  FALSE
  BY <1>1 DEF Number
<1> DEFINE g == [m \in 1..MaxSent |-> <<u, p, m>>]
<1>6. \A m \in 1..MaxSent : <<u, p, m>> \in Sent
  BY <1>1, <1>5 DEF Sent
<1>7. g \in Injection(1..MaxSent, Sent)
  BY <1>6 DEF Injection, IsInjective
<1>8. MaxSent <= Cardinality(Sent)
  BY <1>2, <1>4, <1>7, FS_Injection
<1>9. Cardinality(Sent) \in Nat
  BY <1>4, FS_CardinalityType
<1>10. QED
  BY <1>1, <1>8, <1>9

\* A query counts some of the messages there are.
LEMMA NewerFacts ==
    ASSUME TypeOK, NEW t \in Task
    PROVE  Newer(t) \in Number
<1>1. 0 \in Number /\ MaxSent \in Nat
  BY BoundsAssumption DEF Number
<1>2. CASE t.asker = Nobody
  BY <1>1, <1>2 DEF Newer
<1>3. CASE t.asker # Nobody
  <2> DEFINE N == {m \in landed[t.asker][t.peer] : m > t.stamp}
  <2>1. N \subseteq 1..MaxSent
    BY <1>3 DEF Task, TypeOK
  <2>2. IsFiniteSet(1..MaxSent) /\ Cardinality(1..MaxSent) = MaxSent
    BY <1>1, FS_Interval
  <2>3. IsFiniteSet(N) /\ Cardinality(N) <= MaxSent
    BY <2>1, <2>2, FS_Subset
  <2>4. Cardinality(N) \in Nat
    BY <2>3, FS_CardinalityType
  <2>5. Newer(t) = Cardinality(N)
    BY <1>3 DEF Newer
  <2> HIDE DEF N
  <2> QED BY <1>1, <2>3, <2>4, <2>5 DEF Number
<1>4. QED
  BY <1>2, <1>3

LEMMA CountedRowFacts ==
    ASSUME TypeOK, NEW t \in Task
    PROVE  CountedRow(t) \in Row
BY NewerFacts DEF CountedRow, Task, Row

\* Showing a chat clears one count at most.
LEMMA ShownRows ==
    ASSUME TypeOK, ShowMessages
    PROVE  /\ rows' \in Seq(Row) /\ Len(rows') = Len(rows)
           /\ \A i \in 1..Len(rows) :
                 \/ rows'[i] = rows[i]
                 \/ /\ i = chat[1].row
                    /\ rows'[i] = [rows[i] EXCEPT !.count = 0]
<1> DEFINE k == chat[1].row
           x == [rows[k] EXCEPT !.count = 0]
<1>1. /\ rows \in Seq(Row) /\ chat \in Seq(Chat) /\ chat # <<>>
      /\ k <= Len(rows) /\ Len(rows) \in Nat
  BY LenProperties DEF TypeOK, ShowMessages
<1>2. k \in Nat
  <2>1. 1 \in 1..Len(chat)
    BY <1>1, EmptySeq
  <2>2. chat[1] \in Chat
    BY <1>1, <2>1, ElementOfSeq
  <2> QED BY <2>2 DEF Chat
<1>3. CASE k = 0
  BY <1>1, <1>3 DEF ShowMessages
<1>4. CASE k # 0
  <2>1. k \in 1..Len(rows)
    BY <1>1, <1>2, <1>4
  <2>2. rows[k] \in Row
    BY <1>1, <2>1, ElementOfSeq
  <2>3. 0 \in Number
    BY BoundsAssumption DEF Number
  <2>4. x \in Row
    BY <2>2, <2>3 DEF Row
  <2>5. rows' = [rows EXCEPT ![k] = x]
    BY <1>4 DEF ShowMessages
  <2> HIDE DEF x
  <2>6. rows' \in Seq(Row) /\ Len(rows') = Len(rows)
    BY <1>1, <2>1, <2>4, <2>5, ExceptSeq
  <2>7. \A i \in 1..Len(rows) : rows'[i] = IF i = k THEN x ELSE rows[i]
    BY <1>1, <2>1, <2>5
  <2> QED BY <2>6, <2>7 DEF x
<1>5. QED
  BY <1>3, <1>4

\* A new listener has seen nothing.
LEMMA ListenFacts ==
    ASSUME TypeOK, NEW u \in Accounts
    PROVE  /\ Listen(u) \in Seq(Listener)
           /\ Len(Listen(u)) = Len(listeners) + 1
           /\ \A l \in 1..Len(listeners) : Listen(u)[l] = listeners[l]
<1> DEFINE new == [owner |-> u, seen |-> [p \in Peers |-> Unseen]]
<1>1. new \in Listener
  BY DEF Listener
<1>2. listeners \in Seq(Listener)
  BY DEF TypeOK
<1>3. Listen(u) = Append(listeners, new)
  BY DEF Listen
<1> HIDE DEF new
<1>4. QED
  BY <1>1, <1>2, <1>3

LEMMA TypesInit == Init => TypeOK
<1> SUFFICES ASSUME Init PROVE TypeOK
  OBVIOUS
<1>1. 0 \in Number /\ 0 \in 0..MaxSwitches
  BY BoundsAssumption DEF Number
<1>2. QED
  BY <1>1 DEF Init, TypeOK

LEMMA TypesPeer ==
    ASSUME TypeOK, NEW u \in Accounts, NEW p \in Peers,
           Post(u, p) \/ LandMessage(u, p) \/ LandInbox(u, p)
    PROVE  TypeOK'
<1>1. CASE Post(u, p)
  <2>1. sent[u][p] + 1 \in Number
    BY <1>1, RoomLeft DEF Post
  <2> QED BY <1>1, <2>1 DEF Post, TypeOK, prefs, list
<1>2. CASE LandMessage(u, p)
  <2>1. PICK m \in (1..sent[u][p]) \ landed[u][p] :
           landed' = [landed EXCEPT ![u][p] = @ \union {m}]
    BY <1>2 DEF LandMessage
  <2>2. m \in 1..MaxSent
    BY BoundsAssumption DEF TypeOK, Number
  <2> QED BY <1>2, <2>1, <2>2 DEF LandMessage, TypeOK, prefs, list
<1>3. CASE LandInbox(u, p)
  <2>1. sent[u][p] \in 1..MaxSent /\ sent[u][p] \in Number
    BY <1>3, BoundsAssumption DEF LandInbox, TypeOK, Number
  <2>2. early' \in SUBSET (Accounts \X Peers \X (1..MaxSent))
    BY <1>3, <2>1 DEF LandInbox, TypeOK
  <2> QED BY <1>3, <2>1, <2>2 DEF LandInbox, TypeOK, prefs, list
<1>4. QED
  BY <1>1, <1>2, <1>3

LEMMA TypesDeliver ==
    ASSUME TypeOK, NEW l \in 1..Len(listeners), Deliver(l)
    PROVE  TypeOK'
<1> DEFINE u == listeners[l].owner
<1>1. listeners \in Seq(Listener) /\ listeners[l] \in Listener
  BY ElementOfSeq DEF TypeOK
<1>2. u \in Accounts /\ doc[u] \in [Peers -> Number \union {Unseen}]
  BY <1>1 DEF Listener, TypeOK
<1>3. listeners' \in Seq(Listener) /\ Len(listeners') = Len(listeners)
  <2>1. [listeners[l] EXCEPT !.seen = doc[u]] \in Listener
    BY <1>1, <1>2 DEF Listener
  <2>2. listeners' = [listeners EXCEPT ![l] = [listeners[l] EXCEPT !.seen = doc[u]]]
    BY <1>1 DEF Deliver, Report
  <2> QED BY <1>1, <2>1, <2>2, ExceptSeq
<1>4. rows' \in Seq(Row)
  BY <1>2, RowsFacts DEF Deliver
<1>5. tasks' \in Seq(Task)
  <2>1. PICK more \in Tasks(u) : tasks' = tasks \o more
    BY DEF Deliver, Report
  <2>2. more \in Seq(Task) /\ tasks \in Seq(Task)
    BY <1>2, TasksFacts DEF TypeOK
  <2> QED BY <2>1, <2>2, ConcatProperties
<1>6. /\ chat' \in Seq(Chat) /\ Len(chat') <= 1
      /\ chat' # <<>> => chat # <<>> /\ chat'[1].row = 0
  <2> DEFINE e(i) == [chat[i] EXCEPT !.row = 0]
  <2>1. chat \in Seq(Chat) /\ Len(chat) \in Nat /\ Len(chat) <= 1
    BY LenProperties DEF TypeOK
  <2>2. \A i \in 1..Len(chat) : e(i) \in Chat /\ e(i).row = 0
    <3>1. \A x \in Chat : LET y == [x EXCEPT !.row = 0]
                          IN  y \in Chat /\ y.row = 0
      BY DEF Chat
    <3>2. \A i \in 1..Len(chat) : chat[i] \in Chat
      BY <2>1, ElementOfSeq
    <3> QED BY <3>1, <3>2
  <2>3. chat' = [i \in 1..Len(chat) |-> e(i)]
    BY DEF Deliver, Report
  <2> HIDE DEF e
  <2>4. chat' \in Seq(Chat) /\ Len(chat') = Len(chat)
    BY <2>1, <2>2, <2>3
  <2>5. chat' # <<>> => Len(chat) # 0 /\ chat # <<>>
    BY <2>1, <2>4, EmptySeq
  <2>6. chat' # <<>> => chat'[1] = e(1) /\ 1 \in 1..Len(chat)
    BY <2>1, <2>3, <2>5
  <2> QED BY <2>1, <2>2, <2>4, <2>5, <2>6
<1>7. Len(rows') \in Nat
  BY <1>4, LenProperties
<1>8. UNCHANGED <<sent, landed, doc, early, user, stamps, missed, starting,
                  switches>> /\ last' = l /\ clean' \in BOOLEAN
  BY DEF Deliver, Report, server, prefs
<1>9. /\ sent' \in [Accounts -> [Peers -> Number]]
      /\ landed' \in [Accounts -> [Peers -> SUBSET (1..MaxSent)]]
      /\ doc' \in [Accounts -> [Peers -> Number]]
      /\ early' \in SUBSET (Accounts \X Peers \X (1..MaxSent))
  BY <1>8 DEF TypeOK
<1>10. /\ user' \in Accounts \union {Nobody}
       /\ stamps' \in [Peers -> Number \union {Unstamped}]
       /\ missed' \in [Peers -> SUBSET (1..MaxSent)]
       /\ starting' \in BOOLEAN /\ clean' \in BOOLEAN
       /\ switches' \in 0..MaxSwitches
  BY <1>8 DEF TypeOK
<1>11. last' \in 0..Len(listeners')
  BY <1>3, <1>8
<1>12. chat' # <<>> => user' # Nobody /\ chat'[1].row <= Len(rows')
  <2>1. chat' # <<>> => user # Nobody /\ chat'[1].row = 0
    BY <1>6 DEF TypeOK
  <2> QED BY <1>7, <1>8, <2>1
<1>13. QED
  BY <1>3, <1>4, <1>5, <1>6, <1>9, <1>10, <1>11, <1>12 DEF TypeOK

LEMMA TypesAnswer ==
    ASSUME TypeOK, NEW i \in 1..Len(tasks), Answer(i)
    PROVE  TypeOK'
<1> DEFINE t == tasks[i]
           r == CountedRow(t)
<1>1. tasks \in Seq(Task) /\ rows \in Seq(Row) /\ t \in Task
  BY ElementOfSeq DEF TypeOK
<1>2. r \in Row
  BY <1>1, CountedRowFacts
<1>3. rows' = Append(rows, r) /\ tasks' = RemoveAt(tasks, i)
  BY DEF Answer
<1> HIDE DEF r
<1>4. rows' \in Seq(Row) /\ Len(rows') = Len(rows) + 1 /\ Len(rows) \in Nat
  BY <1>1, <1>2, <1>3
<1>5. tasks' \in Seq(Task)
  BY <1>1, <1>3, RemoveFacts
<1>6. chat \in Seq(Chat)
      /\ (chat # <<>> => chat[1].row \in Nat)
  <2>1. chat \in Seq(Chat)
    BY DEF TypeOK
  <2>2. chat # <<>> => 1 \in 1..Len(chat)
    BY <2>1, EmptySeq
  <2>3. chat # <<>> => chat[1] \in Chat
    BY <2>1, <2>2, ElementOfSeq
  <2> QED BY <2>1, <2>3 DEF Chat
<1>7. UNCHANGED <<sent, landed, doc, early, user, stamps, missed, starting,
                  listeners, last, clean, chat, switches>>
  BY DEF Answer, server, prefs
<1>8. /\ sent' \in [Accounts -> [Peers -> Number]]
      /\ landed' \in [Accounts -> [Peers -> SUBSET (1..MaxSent)]]
      /\ doc' \in [Accounts -> [Peers -> Number]]
      /\ early' \in SUBSET (Accounts \X Peers \X (1..MaxSent))
      /\ user' \in Accounts \union {Nobody}
      /\ stamps' \in [Peers -> Number \union {Unstamped}]
      /\ missed' \in [Peers -> SUBSET (1..MaxSent)]
  BY <1>7 DEF TypeOK
<1>9. /\ starting' \in BOOLEAN /\ clean' \in BOOLEAN
      /\ listeners' \in Seq(Listener) /\ last' \in 0..Len(listeners')
      /\ chat' \in Seq(Chat) /\ Len(chat') <= 1
      /\ switches' \in 0..MaxSwitches
  BY <1>7 DEF TypeOK
<1>10. chat' # <<>> => user' # Nobody /\ chat'[1].row <= Len(rows')
  <2>1. chat # <<>> => user # Nobody /\ chat[1].row <= Len(rows)
    BY DEF TypeOK
  <2> QED BY <1>4, <1>6, <1>7, <2>1
<1>11. QED
  BY <1>4, <1>5, <1>8, <1>9, <1>10 DEF TypeOK

LEMMA StampFacts ==
    ASSUME TypeOK, user \in Accounts, NEW p \in Peers, Stamp(p)
    PROVE  /\ stamps' \in [Peers -> Number \union {Unstamped}]
           /\ missed' \in [Peers -> SUBSET (1..MaxSent)]
<1>1. sent[user][p] \in Number
  BY DEF TypeOK
<1>2. (1..sent[user][p]) \ landed[user][p] \in SUBSET (1..MaxSent)
  BY <1>1, BoundsAssumption DEF Number
<1>3. QED
  BY <1>1, <1>2 DEF Stamp, TypeOK

\* The chat page, opened and shown.
LEMMA TypesChat ==
    ASSUME TypeOK, (\E i \in 1..Len(rows) : OpenChat(i)) \/ ShowMessages \/ CloseChat
    PROVE  TypeOK'
<1>1. rows \in Seq(Row) /\ tasks \in Seq(Task) /\ Len(rows) \in Nat
  BY LenProperties DEF TypeOK
<1>2. CASE \E i \in 1..Len(rows) : OpenChat(i)
  <2>1. PICK i \in 1..Len(rows) : OpenChat(i)
    BY <1>2
  <2> DEFINE p == rows[i].peer
             c == [peer |-> p, row |-> i]
  <2>2. p \in Peers /\ i \in Nat
    <3>1. rows[i] \in Row
      BY <1>1, ElementOfSeq
    <3> QED BY <1>1, <3>1 DEF Row
  <2>3. user \in Accounts /\ sent[user][p] \in Number
    BY <2>1, <2>2 DEF OpenChat, TypeOK
  <2>4. /\ stamps' \in [Peers -> Number \union {Unstamped}]
        /\ missed' \in [Peers -> SUBSET (1..MaxSent)]
    <3>1. Stamp(p)
      BY <2>1 DEF OpenChat
    <3> QED BY <2>2, <2>3, <3>1, StampFacts
  <2>5. rows' = rows /\ tasks' = tasks
    BY <2>1 DEF OpenChat, list
  <2>6. c \in Chat /\ chat' = <<c>>
    BY <2>1, <2>2 DEF OpenChat, Chat
  <2>7. chat' \in Seq(Chat) /\ Len(chat') <= 1 /\ chat'[1].row = i
    BY <2>6
  <2>9. UNCHANGED <<sent, landed, doc, early, user, starting, listeners, last,
                    clean, switches>>
    BY <2>1 DEF OpenChat, server, list
  <2>10. user # Nobody
    BY <2>1 DEF OpenChat
  <2> HIDE DEF p, c
  <2>11. /\ sent' \in [Accounts -> [Peers -> Number]]
         /\ landed' \in [Accounts -> [Peers -> SUBSET (1..MaxSent)]]
         /\ doc' \in [Accounts -> [Peers -> Number]]
         /\ early' \in SUBSET (Accounts \X Peers \X (1..MaxSent))
         /\ user' \in Accounts \union {Nobody}
    BY <2>9 DEF TypeOK
  <2>12. /\ starting' \in BOOLEAN /\ clean' \in BOOLEAN
         /\ listeners' \in Seq(Listener) /\ last' \in 0..Len(listeners')
         /\ switches' \in 0..MaxSwitches
    BY <2>9 DEF TypeOK
  <2>13. chat' # <<>> => user' # Nobody /\ chat'[1].row <= Len(rows')
    BY <1>1, <2>5, <2>7, <2>9, <2>10
  <2> QED
    BY <1>1, <2>4, <2>5, <2>7, <2>11, <2>12, <2>13 DEF TypeOK
<1>3. CASE ShowMessages
  <2> DEFINE p == chat[1].peer
  <2>1. chat \in Seq(Chat) /\ chat # <<>> /\ user \in Accounts
        /\ chat[1].row <= Len(rows)
    BY <1>3 DEF ShowMessages, TypeOK
  <2>2. 1 \in 1..Len(chat)
    BY <2>1, EmptySeq
  <2>3. p \in Peers /\ chat[1].row \in Nat
    <3>1. chat[1] \in Chat
      BY <2>1, <2>2, ElementOfSeq
    <3> QED BY <3>1 DEF Chat
  <2>4. /\ stamps' \in [Peers -> Number \union {Unstamped}]
        /\ missed' \in [Peers -> SUBSET (1..MaxSent)]
    <3>1. Stamp(p)
      BY <1>3 DEF ShowMessages
    <3> QED BY <2>1, <2>3, <3>1, StampFacts
  <2>5. rows' \in Seq(Row) /\ Len(rows') = Len(rows)
    BY <1>3, ShownRows
  <2>6. UNCHANGED <<sent, landed, doc, early, user, starting, listeners, tasks,
                    last, clean, chat, switches>>
    BY <1>3 DEF ShowMessages, server
  <2> QED BY <2>4, <2>5, <2>6 DEF TypeOK
<1>4. CASE CloseChat
  <2>1. chat' = <<>>
    BY <1>4 DEF CloseChat
  <2>2. chat' \in Seq(Chat) /\ Len(chat') <= 1
    BY <2>1
  <2> QED BY <1>4, <2>1, <2>2 DEF CloseChat, TypeOK, server, prefs, list
<1>5. QED
  BY <1>2, <1>3, <1>4

LEMMA TypesSession ==
    ASSUME TypeOK, (\E u \in Accounts : Login(u)) \/ Logout \/ Restart \/ Start
    PROVE  TypeOK'
<1>1. chat \in Seq(Chat) /\ <<>> \in Seq(Chat) /\ Len(<<>>) <= 1
      /\ listeners \in Seq(Listener) /\ Len(listeners) \in Nat
  BY LenProperties DEF TypeOK
<1>2. CASE \E u \in Accounts : Login(u)
  <2>1. PICK u \in Accounts : Login(u)
    BY <1>2
  <2>2. listeners' \in Seq(Listener) /\ Len(listeners') = Len(listeners) + 1
    BY <2>1, ListenFacts DEF Login
  <2>3. switches' \in 0..MaxSwitches
    BY <2>1, BoundsAssumption DEF Login, TypeOK
  <2>4. chat = <<>>
    BY <2>1 DEF Login, TypeOK
  <2>5. UNCHANGED <<sent, landed, doc, early, stamps, missed, starting,
                    tasks, rows, last, clean, chat>> /\ user' = u
    BY <2>1 DEF Login, server, list
  <2> QED BY <1>1, <2>2, <2>3, <2>4, <2>5 DEF TypeOK
<1>3. CASE Logout
  <2>1. /\ stamps' \in [Peers -> Number \union {Unstamped}]
        /\ missed' \in [Peers -> SUBSET (1..MaxSent)]
    BY <1>3 DEF Logout
  <2> QED BY <1>1, <1>3, <2>1 DEF Logout, TypeOK, server, list
<1>4. CASE Restart
  <2>1. switches' \in 0..MaxSwitches
    BY <1>4, BoundsAssumption DEF Restart, TypeOK
  <2>2. listeners' \in Seq(Listener) /\ tasks' \in Seq(Task)
        /\ rows' \in Seq(Row) /\ last' \in 0..Len(listeners')
    BY <1>4 DEF Restart
  <2> QED BY <1>1, <1>4, <2>1, <2>2 DEF Restart, TypeOK, server, prefs
<1>5. CASE Start
  <2>1. listeners' \in Seq(Listener)
        /\ Len(listeners') \in {Len(listeners), Len(listeners) + 1}
    BY <1>1, <1>5, ListenFacts DEF Start, TypeOK
  <2>2. last \in 0..Len(listeners')
    BY <1>1, <2>1 DEF TypeOK
  <2>3. UNCHANGED <<sent, landed, doc, early, user, stamps, missed, tasks,
                    rows, last, clean, chat, switches>> /\ starting' = FALSE
    BY <1>5 DEF Start, server, prefs, list
  <2> QED BY <2>1, <2>2, <2>3 DEF TypeOK
<1>6. QED
  BY <1>2, <1>3, <1>4, <1>5

LEMMA TypesNext == TypeOK /\ [Next]_vars => TypeOK'
<1> SUFFICES ASSUME TypeOK, [Next]_vars
             PROVE  TypeOK'
  OBVIOUS
<1>1. CASE UNCHANGED vars
  BY <1>1 DEF vars, server, prefs, list, TypeOK
<1>2. CASE Next
  BY <1>2, TypesPeer, TypesDeliver, TypesAnswer, TypesChat, TypesSession
     DEF Next
<1>3. QED
  BY <1>1, <1>2

\* The documents, the preferences, the list and the queries keep to their
\* types, and a page is open for an account that is logged in only.
THEOREM InboxTypes == Spec => []TypeOK
<1>1. QED
  BY TypesInit, TypesNext, PTL DEF Spec

(***************************************************************************)
(* The list.  The invariants speak of the snapshot that came last: what it *)
(* said of a conversation is in a row or in a query under way, and, if no  *)
(* query was under way when it came, nothing else is in either.            *)
(***************************************************************************)

\* x, a row or a query, is what listener l has seen last.
Tells(x, l) == x.owner = l.owner /\ x.msg = l.seen[x.peer]

AllListed ==
    last # 0 => \A p \in Peers : listeners[last].seen[p] > 0 =>
        \/ \E i \in 1..Len(rows) :
              rows[i].peer = p /\ Tells(rows[i], listeners[last])
        \/ \E i \in 1..Len(tasks) :
              tasks[i].peer = p /\ Tells(tasks[i], listeners[last])

NoneTwice ==
    (last # 0 /\ clean) =>
        /\ \A i \in 1..Len(rows) : Tells(rows[i], listeners[last])
        /\ \A i \in 1..Len(tasks) : Tells(tasks[i], listeners[last])
        /\ \A i, j \in 1..Len(rows) : rows[i].peer = rows[j].peer => i = j
        /\ \A i, j \in 1..Len(tasks) : tasks[i].peer = tasks[j].peer => i = j
        /\ \A i \in 1..Len(rows), j \in 1..Len(tasks) :
              rows[i].peer # tasks[j].peer

ListInv == AllListed /\ NoneTwice

Same(x, y) == x.owner = y.owner /\ x.peer = y.peer /\ x.msg = y.msg

\* A step that leaves the list alone up to counts and flags.
ListKept ==
    /\ last' = last /\ clean' = clean
    /\ last # 0 => listeners'[last] = listeners[last]
    /\ Len(rows') = Len(rows) /\ Len(tasks') = Len(tasks)
    /\ \A i \in 1..Len(rows) : Same(rows'[i], rows[i])
    /\ \A i \in 1..Len(tasks) : Same(tasks'[i], tasks[i])

LEMMA KeptKeeps ==
    ASSUME ListInv, ListKept
    PROVE  ListInv'
<1> USE DEF ListKept
<1>1. last # 0 =>
         /\ \A i \in 1..Len(rows) : Tells(rows[i], listeners[last]) <=>
               Tells(rows'[i], listeners'[last'])
         /\ \A i \in 1..Len(tasks) : Tells(tasks[i], listeners[last]) <=>
               Tells(tasks'[i], listeners'[last'])
  BY DEF Same, Tells
<1>2. /\ \A i \in 1..Len(rows) : rows'[i].peer = rows[i].peer
      /\ \A i \in 1..Len(tasks) : tasks'[i].peer = tasks[i].peer
  BY DEF Same
<1>3. AllListed'
  <2> SUFFICES ASSUME last' # 0, NEW p \in Peers, listeners'[last'].seen[p] > 0
               PROVE  \/ \E i \in 1..Len(rows') : /\ rows'[i].peer = p
                             /\ Tells(rows'[i], listeners'[last'])
                      \/ \E i \in 1..Len(tasks') : /\ tasks'[i].peer = p
                             /\ Tells(tasks'[i], listeners'[last'])
    BY DEF AllListed, Tells
  <2>1. listeners[last].seen[p] > 0 /\ last # 0
    OBVIOUS
  <2>2. CASE \E i \in 1..Len(rows) :
                rows[i].peer = p /\ Tells(rows[i], listeners[last])
    BY <1>1, <1>2, <2>1, <2>2
  <2>3. CASE \E i \in 1..Len(tasks) :
                tasks[i].peer = p /\ Tells(tasks[i], listeners[last])
    BY <1>1, <1>2, <2>1, <2>3
  <2> QED BY <2>1, <2>2, <2>3 DEF ListInv, AllListed
<1>4. NoneTwice'
  <2> SUFFICES ASSUME last' # 0, clean'
               PROVE  NoneTwice'
    BY DEF NoneTwice
  <2>1. /\ \A i \in 1..Len(rows) : Tells(rows[i], listeners[last])
        /\ \A i \in 1..Len(tasks) : Tells(tasks[i], listeners[last])
        /\ \A i, j \in 1..Len(rows) : rows[i].peer = rows[j].peer => i = j
        /\ \A i, j \in 1..Len(tasks) : tasks[i].peer = tasks[j].peer => i = j
        /\ \A i \in 1..Len(rows), j \in 1..Len(tasks) :
              rows[i].peer # tasks[j].peer
    BY DEF ListInv, NoneTwice
  <2>2. /\ \A i \in 1..Len(rows') : Tells(rows'[i], listeners'[last'])
        /\ \A i \in 1..Len(tasks') : Tells(tasks'[i], listeners'[last'])
    BY <1>1, <2>1
  <2>3. /\ \A i, j \in 1..Len(rows') : rows'[i].peer = rows'[j].peer => i = j
        /\ \A i, j \in 1..Len(tasks') : tasks'[i].peer = tasks'[j].peer => i = j
        /\ \A i \in 1..Len(rows'), j \in 1..Len(tasks') :
              rows'[i].peer # tasks'[j].peer
    BY <1>2, <2>1
  <2> QED BY <2>2, <2>3 DEF NoneTwice, Tells
<1>5. QED
  BY <1>3, <1>4 DEF ListInv

LEMMA ChatKeeps ==
    ASSUME TypeOK, (\E i \in 1..Len(rows) : OpenChat(i)) \/ ShowMessages \/ CloseChat
    PROVE  ListKept
<1>5. CASE \E i \in 1..Len(rows) : OpenChat(i)
  BY <1>5 DEF OpenChat, list, ListKept, Same
<1>6. CASE ShowMessages
  <2>1. UNCHANGED <<tasks, last, clean, listeners>>
    BY <1>6 DEF ShowMessages
  <2>2. Len(rows') = Len(rows)
        /\ \A i \in 1..Len(rows) : Same(rows'[i], rows[i])
    <3>1. \A x \in Row : Same([x EXCEPT !.count = 0], x) /\ Same(x, x)
      BY DEF Same, Row
    <3>2. \A i \in 1..Len(rows) : rows[i] \in Row
      BY ElementOfSeq DEF TypeOK
    <3> QED BY <1>6, <3>1, <3>2, ShownRows
  <2> QED BY <2>1, <2>2 DEF ListKept, Same
<1>7. CASE CloseChat
  BY <1>7 DEF CloseChat, list, ListKept, Same
<1>8. QED
  BY <1>5, <1>6, <1>7

\* The peers' steps, and the sessions but for a restart.
LEMMA OtherKeeps ==
    ASSUME TypeOK,
           \/ \E u \in Accounts, p \in Peers :
                 Post(u, p) \/ LandMessage(u, p) \/ LandInbox(u, p)
           \/ \E u \in Accounts : Login(u)
           \/ Logout \/ Start \/ UNCHANGED vars
    PROVE  ListKept
<1>1. last # 0 => last \in 1..Len(listeners)
  BY LenProperties DEF TypeOK
<1>2. UNCHANGED list
  BY DEF Post, LandMessage, LandInbox, Login, Logout, Start, vars
<1>3. listeners' = listeners \/ \E u \in Accounts : listeners' = Listen(u)
  <2>1. ASSUME Start PROVE listeners' = listeners \/ listeners' = Listen(user)
    BY <2>1 DEF Start
  <2>2. ASSUME Start, user = Nobody PROVE listeners' = listeners
    BY <2>2 DEF Start
  <2>3. user \in Accounts \union {Nobody}
    BY DEF TypeOK
  <2> QED
    BY <2>1, <2>2, <2>3 DEF Post, LandMessage, LandInbox, Login, Logout, vars
<1>4. last # 0 => listeners'[last] = listeners[last]
  BY <1>1, <1>3, ListenFacts
<1>5. QED
  BY <1>2, <1>4 DEF ListKept, list, Same

LEMMA RestartLists == Restart => ListInv'
BY DEF Restart, ListInv, AllListed, NoneTwice

\* An answer turns a query into a row.
LEMMA AnswerLists ==
    ASSUME TypeOK, ListInv, NEW i \in 1..Len(tasks), Answer(i)
    PROVE  ListInv'
<1> DEFINE t == tasks[i]
           r == CountedRow(t)
           n == Len(rows)
           k == Len(tasks)
<1>1. tasks \in Seq(Task) /\ rows \in Seq(Row) /\ n \in Nat /\ k \in Nat
  BY LenProperties DEF TypeOK
<1>2. rows' = Append(rows, r) /\ tasks' = RemoveAt(tasks, i)
      /\ UNCHANGED <<listeners, last, clean>>
  BY DEF Answer
<1>3. r.owner = t.owner /\ r.peer = t.peer /\ r.msg = t.msg
  BY DEF CountedRow
<1>4. r \in Row
  <2>1. t \in Task
    BY <1>1, ElementOfSeq
  <2> QED BY <2>1, CountedRowFacts
<1> HIDE DEF r
<1>5. /\ Len(rows') = n + 1 /\ rows'[n + 1] = r
      /\ \A j \in 1..n : rows'[j] = rows[j]
  BY <1>1, <1>2, <1>4
<1>6. /\ Len(tasks') = k - 1
      /\ \A j \in 1..(k - 1) :
            tasks'[j] = IF j < i THEN tasks[j] ELSE tasks[j + 1]
  BY <1>1, <1>2, RemoveFacts
<1> HIDE DEF n, k
<1>7. i \in 1..k /\ k \in Nat /\ n \in Nat
  BY <1>1 DEF k, n
<1>8. ASSUME last # 0 PROVE Tells(r, listeners[last]) <=> Tells(t, listeners[last])
  BY <1>3 DEF Tells
<1>9. AllListed'
  <2> SUFFICES ASSUME last # 0, NEW p \in Peers, listeners[last].seen[p] > 0
               PROVE  \/ \E j \in 1..(n + 1) : /\ rows'[j].peer = p
                             /\ Tells(rows'[j], listeners[last])
                      \/ \E j \in 1..(k - 1) : /\ tasks'[j].peer = p
                             /\ Tells(tasks'[j], listeners[last])
    BY <1>2, <1>5, <1>6 DEF AllListed, Tells
  <2>1. CASE \E j \in 1..n : rows[j].peer = p /\ Tells(rows[j], listeners[last])
    BY <1>5, <1>7, <2>1
  <2>2. CASE \E j \in 1..k : tasks[j].peer = p /\ Tells(tasks[j], listeners[last])
    <3>1. PICK j \in 1..k : tasks[j].peer = p /\ Tells(tasks[j], listeners[last])
      BY <2>2
    <3>2. CASE j = i
      BY <1>3, <1>5, <1>7, <1>8, <3>1, <3>2
    <3>3. CASE j < i
      <4>1. j \in 1..(k - 1)
        BY <1>7, <3>1, <3>3
      <4> QED BY <1>6, <3>1, <3>3, <4>1
    <3>4. CASE j > i
      <4>1. j - 1 \in 1..(k - 1) /\ ~(j - 1 < i) /\ j - 1 + 1 = j
        BY <1>7, <3>1, <3>4
      <4>2. tasks'[j - 1] = tasks[j]
        BY <1>6, <4>1
      <4> QED BY <3>1, <4>1, <4>2
    <3> QED BY <1>7, <3>1, <3>2, <3>3, <3>4
  <2> QED BY <2>1, <2>2 DEF ListInv, AllListed, n, k
<1>10. NoneTwice'
  <2> SUFFICES ASSUME last' # 0, clean'
               PROVE  NoneTwice'
    BY DEF NoneTwice
  <2> DEFINE from(j) == IF j < i THEN j ELSE j + 1
  <2>1. /\ \A j \in 1..n : Tells(rows[j], listeners[last])
        /\ \A j \in 1..k : Tells(tasks[j], listeners[last])
        /\ \A j, m \in 1..n : rows[j].peer = rows[m].peer => j = m
        /\ \A j, m \in 1..k : tasks[j].peer = tasks[m].peer => j = m
        /\ \A j \in 1..n, m \in 1..k : rows[j].peer # tasks[m].peer
    BY <1>2 DEF ListInv, NoneTwice, n, k
  <2>2. \A j \in 1..(k - 1) : /\ from(j) \in 1..k /\ from(j) # i
                               /\ tasks'[j] = tasks[from(j)]
    BY <1>6, <1>7
  <2>3. \A j, m \in 1..(k - 1) : from(j) = from(m) => j = m
    BY <1>7
  <2> HIDE DEF from
  <2>4. \A j \in 1..(n + 1) : j = n + 1 \/ j \in 1..n
    BY <1>7
  <2>5. \A j \in 1..(n + 1) : Tells(rows'[j], listeners[last])
    BY <1>2, <1>5, <1>7, <1>8, <2>1, <2>4
  <2>6. \A j \in 1..(k - 1) : Tells(tasks'[j], listeners[last])
    BY <2>1, <2>2
  <2>7. \A j, m \in 1..(n + 1) : rows'[j].peer = rows'[m].peer => j = m
    BY <1>3, <1>5, <1>7, <2>1, <2>4
  <2>8. \A j, m \in 1..(k - 1) : tasks'[j].peer = tasks'[m].peer => j = m
    BY <2>1, <2>2, <2>3
  <2>9. \A j \in 1..(n + 1), m \in 1..(k - 1) : rows'[j].peer # tasks'[m].peer
    <3>1. ASSUME NEW j \in 1..n, NEW m \in 1..(k - 1)
          PROVE  rows'[j].peer # tasks'[m].peer
      BY <1>5, <2>1, <2>2
    <3>2. ASSUME NEW m \in 1..(k - 1) PROVE r.peer # tasks'[m].peer
      BY <1>3, <1>7, <2>1, <2>2
    <3> QED BY <1>5, <2>4, <3>1, <3>2
  <2>10. listeners'[last'] = listeners[last] /\ Len(rows') = n + 1
         /\ Len(tasks') = k - 1
    BY <1>2, <1>5, <1>6
  <2>11. /\ \A j \in 1..Len(rows') : Tells(rows'[j], listeners'[last'])
         /\ \A j \in 1..Len(tasks') : Tells(tasks'[j], listeners'[last'])
    BY <2>5, <2>6, <2>10
  <2>12. /\ \A j, m \in 1..Len(rows') : rows'[j].peer = rows'[m].peer => j = m
         /\ \A j, m \in 1..Len(tasks') : tasks'[j].peer = tasks'[m].peer => j = m
         /\ \A j \in 1..Len(rows'), m \in 1..Len(tasks') :
               rows'[j].peer # tasks'[m].peer
    BY <2>7, <2>8, <2>9, <2>10
  <2> QED BY <2>11, <2>12 DEF NoneTwice, Tells
<1>11. QED
  BY <1>9, <1>10 DEF ListInv

\* A snapshot is in the new rows and the new queries, each document once.
LEMMA DeliverLists ==
    ASSUME TypeOK, NEW l \in 1..Len(listeners), Deliver(l)
    PROVE  ListInv'
<1> DEFINE u == listeners[l].owner
           k == Len(tasks)
<1>1. /\ listeners \in Seq(Listener) /\ listeners[l] \in Listener
      /\ tasks \in Seq(Task) /\ k \in Nat /\ l \in Nat /\ l # 0
  BY ElementOfSeq, LenProperties DEF TypeOK
<1>2. u \in Accounts
  BY <1>1 DEF Listener
<1>3. PICK more \in Tasks(u) : tasks' = tasks \o more
  BY DEF Deliver, Report
<1>4. /\ rows' \in Rows(u) /\ last' = l /\ clean' = (tasks = <<>>)
      /\ listeners'[l].owner = u /\ listeners'[l].seen = doc[u]
  <2>1. listeners' = [listeners EXCEPT ![l].seen = doc[u]]
    BY DEF Deliver, Report
  <2>2. listeners'[l] = [listeners[l] EXCEPT !.seen = doc[u]]
    BY <1>1, <2>1
  <2> QED BY <1>1, <2>2 DEF Deliver, Report, Listener
<1>5. /\ \A i \in 1..Len(rows') : /\ rows'[i].peer \in Unopened(u)
                                   /\ rows'[i] = RowOf(u, rows'[i].peer)
      /\ \A p \in Unopened(u) : \E i \in 1..Len(rows') : rows'[i].peer = p
      /\ \A i, j \in 1..Len(rows') : rows'[i].peer = rows'[j].peer => i = j
  BY <1>2, <1>4, RowsFacts
<1>6. /\ more \in Seq(Task) /\ Len(more) \in Nat
      /\ \A i \in 1..Len(more) : /\ more[i].peer \in Opened(u)
                                  /\ more[i] = TaskOf(u, more[i].peer)
      /\ \A p \in Opened(u) : \E i \in 1..Len(more) : more[i].peer = p
      /\ \A i, j \in 1..Len(more) : more[i].peer = more[j].peer => i = j
  BY <1>2, <1>3, TasksFacts, LenProperties
<1>7. /\ Len(tasks') = k + Len(more)
      /\ \A i \in 1..Len(more) : tasks'[k + i] = more[i]
  <2>1. \A i \in 1..(k + Len(more)) : (tasks \o more)[i] =
                     IF i <= k THEN tasks[i] ELSE more[i - k]
    BY <1>1, <1>6, ConcatProperties
  <2>2. Len(tasks') = k + Len(more)
    BY <1>1, <1>3, <1>6, ConcatProperties
  <2>3. ASSUME NEW i \in 1..Len(more)
        PROVE  tasks'[k + i] = more[i]
    <3>1. k + i \in 1..(k + Len(more)) /\ ~(k + i <= k) /\ k + i - k = i
      BY <1>1, <1>6
    <3> QED BY <1>3, <2>1, <3>1
  <2> QED BY <2>2, <2>3
<1>8. \A i \in 1..Len(rows') : Tells(rows'[i], listeners'[l])
  <2>1. \A p : RowOf(u, p).owner = u /\ RowOf(u, p).msg = doc[u][p]
    BY DEF RowOf
  <2> QED BY <1>4, <1>5, <2>1 DEF Tells
<1>9. \A i \in 1..Len(more) : Tells(more[i], listeners'[l])
  <2>1. \A p : TaskOf(u, p).owner = u /\ TaskOf(u, p).msg = doc[u][p]
    BY DEF TaskOf
  <2> QED BY <1>4, <1>6, <2>1 DEF Tells
<1> HIDE DEF u, k
<1>10. AllListed'
  <2> SUFFICES ASSUME NEW p \in Peers, doc[u][p] > 0
               PROVE  \/ \E i \in 1..Len(rows') : /\ rows'[i].peer = p
                             /\ Tells(rows'[i], listeners'[l])
                      \/ \E i \in 1..Len(tasks') : /\ tasks'[i].peer = p
                             /\ Tells(tasks'[i], listeners'[l])
    BY <1>4 DEF AllListed, Tells
  <2>1. CASE p \in Unopened(u)
    BY <1>5, <1>8, <2>1
  <2>2. CASE p \in Opened(u)
    <3>1. PICK i \in 1..Len(more) : more[i].peer = p
      BY <1>6, <2>2
    <3>2. k + i \in 1..Len(tasks')
      BY <1>1, <1>6, <1>7 DEF k
    <3> QED BY <1>7, <1>9, <3>1, <3>2
  <2> QED BY <2>1, <2>2 DEF Unopened, Opened
<1>11. NoneTwice'
  <2> SUFFICES ASSUME tasks = <<>>
               PROVE  NoneTwice'
    BY <1>4 DEF NoneTwice
  <2>1. tasks' = more
    BY <1>3, <1>6, ConcatEmptySeq
  <2>2. \A i \in 1..Len(rows'), j \in 1..Len(more) : rows'[i].peer # more[j].peer
    BY <1>5, <1>6 DEF Opened, Unopened
  <2>3. \A i \in 1..Len(tasks') : Tells(tasks'[i], listeners'[l])
    BY <1>9, <2>1
  <2> QED BY <1>4, <1>5, <1>6, <1>8, <2>1, <2>2, <2>3 DEF NoneTwice, Tells
<1>12. QED
  BY <1>10, <1>11 DEF ListInv

LEMMA ListNext == TypeOK /\ ListInv /\ [Next]_vars => ListInv'
<1> SUFFICES ASSUME TypeOK, ListInv, [Next]_vars
             PROVE  ListInv'
  OBVIOUS
<1>1. CASE \E i \in 1..Len(tasks) : Answer(i)
  BY <1>1, AnswerLists
<1>2. CASE \E l \in 1..Len(listeners) : Deliver(l)
  BY <1>2, DeliverLists
<1>3. CASE (\E i \in 1..Len(rows) : OpenChat(i)) \/ ShowMessages \/ CloseChat
  BY <1>3, ChatKeeps, KeptKeeps
<1>4. CASE Restart
  BY <1>4, RestartLists
<1>5. CASE \/ \E u \in Accounts, p \in Peers :
                 Post(u, p) \/ LandMessage(u, p) \/ LandInbox(u, p)
           \/ \E u \in Accounts : Login(u)
           \/ Logout \/ Start \/ UNCHANGED vars
  BY <1>5, OtherKeeps, KeptKeeps
<1>6. QED
  BY <1>1, <1>2, <1>3, <1>4, <1>5 DEF Next

LEMMA ListHolds == Spec => []ListInv
<1>1. Init => ListInv
  BY DEF Init, ListInv, AllListed, NoneTwice
<1>2. QED
  BY <1>1, ListNext, InboxTypes, PTL DEF Spec

\* Once the list is settled every conversation has its row: what the last
\* snapshot said of it is no query any more, so it is a row.
THEOREM ListedTheorem == Spec => []EveryConversationListed
<1>1. TypeOK /\ ListInv => EveryConversationListed
  <2> SUFFICES ASSUME TypeOK, ListInv, NEW u \in Accounts, Settled(u),
                      NEW p \in Peers, doc[u][p] > 0
               PROVE  \E i \in 1..Len(rows) : Shows(rows[i], u, p)
    BY DEF EveryConversationListed
  <2>1. Len(tasks) = 0 /\ last # 0
    BY DEF Settled
  <2>2. PICK i \in 1..Len(rows) :
           rows[i].peer = p /\ Tells(rows[i], listeners[last])
    BY <2>1 DEF ListInv, AllListed, Settled
  <2> QED BY <2>2 DEF Settled, Tells, Shows
<1>2. QED
  BY <1>1, InboxTypes, ListHolds, PTL

\* Without a late count the settled list is the inbox and nothing else.
THEOREM ExactTheorem == Spec => []ListExact
<1>1. ListInv => ListExact
  BY DEF ListInv, NoneTwice, ListExact, Settled, Tells, Shows
<1>2. QED
  BY <1>1, ListHolds, PTL

(***************************************************************************)
(* The badges.  A count never exceeds what has come since its stamp; while *)
(* that stamp is still there it misses no message the inbox document       *)
(* spoke of but the early ones, for each message the document speaks of is *)
(* there or was early.                                                     *)
(***************************************************************************)

Above(u, p, n) == {m \in landed[u][p] : m > n}
Known(u, p, n, k) == {m \in (n + 1)..k : <<u, p, m>> \notin early}

\* The premise of BadgeCountsUnread.
Current(r) == user = r.owner /\ user = r.asker /\ r.stamp = stamps[r.peer]

\* Enough for BadgeCountsUnread of one row (CountedIsEnough).
Counted(r) ==
    r.asker # Nobody =>
        /\ r.stamp \in Number
        /\ r.msg <= doc[r.owner][r.peer]
        /\ r.count <= Cardinality(Above(r.asker, r.peer, r.stamp))
        /\ Current(r) =>
              r.count >= Cardinality(Known(r.asker, r.peer, r.stamp, r.msg))

\* What makes the row of a query counted.
Asked(t) == t.msg <= doc[t.owner][t.peer]

Cleared == user = Nobody => \A p \in Peers : stamps[p] = Unstamped

Arrived ==
    \A u \in Accounts, p \in Peers : \A m \in 1..doc[u][p] :
        m \in landed[u][p] \/ <<u, p, m>> \in early

InTurn ==
    \A u \in Accounts, p \in Peers :
        doc[u][p] <= sent[u][p] /\ sent[u][p] <= doc[u][p] + 1

PageRow ==
    (chat # <<>> /\ chat[1].row # 0) => rows[chat[1].row].peer = chat[1].peer

BadgeInv ==
    /\ Cleared /\ Arrived /\ InTurn /\ PageRow
    /\ \A i \in 1..Len(tasks) : Asked(tasks[i])
    /\ \A i \in 1..Len(rows) : Counted(rows[i])

LEMMA NumbersFinite == IsFiniteSet(1..MaxSent)
<1>1. 1 \in Int /\ MaxSent \in Int
  BY BoundsAssumption
<1>2. QED
  BY <1>1, FS_Interval

LEMMA AboveFinite ==
    ASSUME TypeOK, NEW u \in Accounts, NEW p \in Peers, NEW n
    PROVE  IsFiniteSet(landed[u][p]) /\ IsFiniteSet(Above(u, p, n))
<1>1. landed[u][p] \subseteq 1..MaxSent
  BY DEF TypeOK
<1>3. IsFiniteSet(landed[u][p])
  BY <1>1, NumbersFinite, FS_Subset
<1>4. QED
  BY <1>3, FS_Subset DEF Above

\* The numbers in a counted row.
LEMMA RowNumbers ==
    ASSUME NEW r \in Row, r.asker # Nobody, r.stamp \in Number
    PROVE  /\ r.owner \in Accounts /\ r.asker \in Accounts /\ r.peer \in Peers
           /\ r.msg \in Nat /\ r.count \in Nat /\ r.stamp \in Nat
BY BoundsAssumption DEF Row, Number

LEMMA KnownFinite ==
    ASSUME NEW u, NEW p, NEW n \in Nat, NEW k \in Nat
    PROVE  IsFiniteSet(Known(u, p, n, k))
<1>1. n + 1 \in Int /\ k \in Int
  OBVIOUS
<1>2. IsFiniteSet((n + 1)..k)
  BY <1>1, FS_Interval
<1>3. QED
  BY <1>2, FS_Subset DEF Known

\* More messages, later documents, and more messages that came after their
\* documents keep a row counted.
LEMMA CountedKept ==
    ASSUME TypeOK, TypeOK', NEW r \in Row, Counted(r),
           user' = user, stamps' = stamps,
           \A u \in Accounts, p \in Peers : landed[u][p] \subseteq landed'[u][p],
           \A u \in Accounts, p \in Peers : doc[u][p] <= doc'[u][p],
           early \subseteq early'
    PROVE  Counted(r)'
<1> DEFINE u == r.asker
           p == r.peer
           n == r.stamp
<1> SUFFICES ASSUME u # Nobody
             PROVE  /\ n \in Number
                    /\ r.msg <= doc'[r.owner][p]
                    /\ r.count <= Cardinality(Above(u, p, n)')
                    /\ Current(r) => r.count >= Cardinality(Known(u, p, n, r.msg)')
  BY DEF Counted, Current, Above, Known
<1>1. /\ n \in Number /\ r.msg <= doc[r.owner][p]
      /\ r.count <= Cardinality(Above(u, p, n))
      /\ Current(r) => r.count >= Cardinality(Known(u, p, n, r.msg))
  BY DEF Counted
<1>2. /\ r.owner \in Accounts /\ u \in Accounts /\ p \in Peers
      /\ r.msg \in Nat /\ r.count \in Nat /\ n \in Nat
  BY <1>1, RowNumbers
<1>3. r.msg <= doc'[r.owner][p]
  <2>1. doc[r.owner][p] \in Nat /\ doc'[r.owner][p] \in Nat
    <3>1. doc[r.owner][p] \in Number /\ doc'[r.owner][p] \in Number
      BY <1>2 DEF TypeOK
    <3> QED BY <3>1, BoundsAssumption DEF Number
  <2>2. doc[r.owner][p] <= doc'[r.owner][p]
    BY <1>2
  <2> QED BY <1>1, <1>2, <2>1, <2>2
<1>4. Above(u, p, n) \subseteq Above(u, p, n)'
  BY <1>2 DEF Above
<1>5. IsFiniteSet(Above(u, p, n)')
  <2>1. landed' \in [Accounts -> [Peers -> SUBSET (1..MaxSent)]]
    BY DEF TypeOK
  <2>2. landed'[u][p] \subseteq 1..MaxSent
    BY <1>2, <2>1
  <2>3. Above(u, p, n)' \subseteq 1..MaxSent
    BY <2>2 DEF Above
  <2> QED BY NumbersFinite, <2>3, FS_Subset
<1>6. Known(u, p, n, r.msg)' \subseteq Known(u, p, n, r.msg)
  BY DEF Known
<1>7. IsFiniteSet(Known(u, p, n, r.msg))
  BY <1>2, KnownFinite
<1>8. Cardinality(Above(u, p, n)) <= Cardinality(Above(u, p, n)')
      /\ IsFiniteSet(Above(u, p, n))
  BY <1>4, <1>5, FS_Subset
<1>9. Cardinality(Known(u, p, n, r.msg)') <= Cardinality(Known(u, p, n, r.msg))
      /\ IsFiniteSet(Known(u, p, n, r.msg)')
  BY <1>6, <1>7, FS_Subset
<1>10. /\ Cardinality(Above(u, p, n)) \in Nat
       /\ Cardinality(Above(u, p, n)') \in Nat
       /\ Cardinality(Known(u, p, n, r.msg)) \in Nat
       /\ Cardinality(Known(u, p, n, r.msg)') \in Nat
  BY <1>5, <1>7, <1>8, <1>9, FS_CardinalityType
<1>11. QED
  BY <1>1, <1>2, <1>3, <1>8, <1>9, <1>10

\* The row of a query is counted.
LEMMA AnswerCounted ==
    ASSUME TypeOK, Arrived, NEW t \in Task, Asked(t)
    PROVE  Counted(CountedRow(t))
<1> DEFINE u == t.asker
           p == t.peer
           n == t.stamp
           r == CountedRow(t)
<1>1. /\ r.owner = t.owner /\ r.asker = u /\ r.peer = p /\ r.msg = t.msg
      /\ r.stamp = n /\ r.count = Newer(t)
  BY DEF CountedRow
<1>2. /\ t.owner \in Accounts /\ p \in Peers /\ n \in Number
      /\ u \in Accounts \union {Nobody} /\ t.msg \in Number
  BY DEF Task
<1> HIDE DEF r
<1> SUFFICES ASSUME u # Nobody
             PROVE  /\ Newer(t) <= Cardinality(Above(u, p, n))
                    /\ u = t.owner =>
                          Newer(t) >= Cardinality(Known(u, p, n, t.msg))
  BY <1>1, <1>2 DEF Counted, Current, Asked, r
<1>3. u \in Accounts /\ n \in Nat /\ t.msg \in Nat
  BY <1>2, BoundsAssumption DEF Number
<1>4. Newer(t) = Cardinality(Above(u, p, n))
  BY DEF Newer, Above
<1>5. IsFiniteSet(Above(u, p, n))
  BY <1>2, <1>3, AboveFinite
<1>6. Cardinality(Above(u, p, n)) \in Nat
  BY <1>5, FS_CardinalityType
<1>7. ASSUME u = t.owner
      PROVE  Cardinality(Known(u, p, n, t.msg)) <= Cardinality(Above(u, p, n))
             /\ Cardinality(Known(u, p, n, t.msg)) \in Nat
  <2>1. doc[u][p] \in Nat /\ t.msg <= doc[u][p]
    <3>1. doc[u][p] \in Number
      BY <1>2, <1>3 DEF TypeOK
    <3> QED BY <1>7, <3>1, BoundsAssumption DEF Number, Asked
  <2>2. Known(u, p, n, t.msg) \subseteq Above(u, p, n)
    <3> SUFFICES ASSUME NEW m \in (n + 1)..t.msg, <<u, p, m>> \notin early
                 PROVE  m \in landed[u][p] /\ m > n
      BY DEF Known, Above
    <3>1. m \in 1..doc[u][p] /\ m > n
      BY <1>3, <2>1
    <3> QED BY <1>2, <1>3, <3>1 DEF Arrived
  <2>3. IsFiniteSet(Known(u, p, n, t.msg))
    BY <1>3, KnownFinite
  <2> QED BY <1>5, <2>2, <2>3, FS_Subset, FS_CardinalityType
<1>8. QED
  BY <1>4, <1>6, <1>7

LEMMA BadgePeer ==
    ASSUME TypeOK, TypeOK', BadgeInv, NEW u \in Accounts, NEW p \in Peers,
           Post(u, p) \/ LandMessage(u, p) \/ LandInbox(u, p)
    PROVE  BadgeInv'
<1>1. /\ UNCHANGED <<user, stamps, tasks, rows, chat>>
      /\ \A v \in Accounts, q \in Peers : landed[v][q] \subseteq landed'[v][q]
      /\ early \subseteq early'
  <2>1. UNCHANGED <<user, stamps, tasks, rows, chat>>
    BY DEF Post, LandMessage, LandInbox, prefs, list
  <2>2. \A v \in Accounts, q \in Peers : landed[v][q] \subseteq landed'[v][q]
    <3>1. CASE landed' = landed
      BY <3>1
    <3>2. CASE LandMessage(u, p)
      <4>1. PICK m \in (1..sent[u][p]) \ landed[u][p] :
               landed' = [landed EXCEPT ![u][p] = @ \union {m}]
        BY <3>2 DEF LandMessage
      <4> QED BY <4>1 DEF TypeOK
    <3> QED BY <3>1, <3>2 DEF Post, LandInbox
  <2>3. early \subseteq early'
    BY DEF Post, LandMessage, LandInbox
  <2> QED BY <2>1, <2>2, <2>3
<1>2. \A v \in Accounts, q \in Peers :
         doc[v][q] \in Nat /\ doc'[v][q] \in Nat /\ doc[v][q] <= doc'[v][q]
  <2>1. \A v \in Accounts, q \in Peers :
           doc[v][q] \in Nat /\ doc'[v][q] \in Nat /\ sent[v][q] \in Nat
    BY BoundsAssumption DEF TypeOK, Number
  <2>2. CASE doc' = doc
    BY <2>1, <2>2
  <2>3. CASE LandInbox(u, p)
    <3>1. doc[u][p] <= sent[u][p] /\ doc' = [doc EXCEPT ![u][p] = sent[u][p]]
      BY <2>1, <2>3 DEF LandInbox
    <3>2. ASSUME NEW v \in Accounts, NEW q \in Peers
          PROVE  doc'[v][q] = IF v = u /\ q = p THEN sent[u][p] ELSE doc[v][q]
      BY <3>1 DEF TypeOK
    <3> QED BY <2>1, <3>1, <3>2
  <2> QED BY <2>2, <2>3 DEF Post, LandMessage
<1>3. Arrived'
  <2> SUFFICES ASSUME NEW v \in Accounts, NEW q \in Peers,
                      NEW m \in 1..doc'[v][q]
               PROVE  m \in landed'[v][q] \/ <<v, q, m>> \in early'
    BY DEF Arrived
  <2>1. CASE m \in 1..doc[v][q]
    BY <1>1, <2>1 DEF BadgeInv, Arrived
  <2>2. CASE m \notin 1..doc[v][q]
    <3>1. LandInbox(u, p)
      BY <2>2 DEF Post, LandMessage
    <3>2. v = u /\ q = p
      BY <2>2, <3>1 DEF LandInbox, TypeOK
    <3>3. doc'[u][p] = sent[u][p]
      BY <3>1 DEF LandInbox, TypeOK
    <3>4. m = sent[u][p]
      <4>1. doc[u][p] \in Nat /\ sent[u][p] \in Nat
        BY BoundsAssumption DEF TypeOK, Number
      <4>2. sent[u][p] <= doc[u][p] + 1
        BY DEF BadgeInv, InTurn
      <4> QED BY <1>2, <2>2, <3>2, <3>3, <4>1, <4>2
    <3> QED BY <3>1, <3>2, <3>4 DEF LandInbox
  <2> QED BY <2>1, <2>2
<1>4. InTurn'
  <2> SUFFICES ASSUME NEW v \in Accounts, NEW q \in Peers
               PROVE  doc'[v][q] <= sent'[v][q] /\ sent'[v][q] <= doc'[v][q] + 1
    BY DEF InTurn
  <2>1. /\ doc[v][q] \in Nat /\ sent[v][q] \in Nat
        /\ doc[v][q] <= sent[v][q] /\ sent[v][q] <= doc[v][q] + 1
    BY BoundsAssumption DEF TypeOK, Number, BadgeInv, InTurn
  <2>2. CASE Post(u, p)
    BY <2>1, <2>2 DEF Post, TypeOK
  <2>3. CASE LandMessage(u, p)
    BY <2>1, <2>3 DEF LandMessage
  <2>4. CASE LandInbox(u, p)
    BY <2>1, <2>4 DEF LandInbox, TypeOK
  <2> QED BY <2>2, <2>3, <2>4
<1>5. ASSUME NEW i \in 1..Len(tasks) PROVE Asked(tasks[i])'
  <2>1. tasks[i] \in Task
    BY ElementOfSeq DEF TypeOK
  <2>2. /\ tasks[i].owner \in Accounts /\ tasks[i].peer \in Peers
        /\ tasks[i].msg \in Nat
    BY <2>1, BoundsAssumption DEF Task, Number
  <2>3. Asked(tasks[i])
    BY DEF BadgeInv
  <2>4. tasks[i].msg <= doc'[tasks[i].owner][tasks[i].peer]
    BY <1>2, <2>2, <2>3 DEF Asked
  <2> QED BY <1>1, <2>3, <2>4 DEF Asked
<1>6. ASSUME NEW i \in 1..Len(rows) PROVE Counted(rows[i])'
  <2>1. rows[i] \in Row
    BY ElementOfSeq DEF TypeOK
  <2>2. Counted(rows[i])
    BY DEF BadgeInv
  <2>3. ASSUME NEW r \in Row, r = rows[i], r = rows'[i] PROVE Counted(rows[i])'
    <3>1. Counted(r)'
      BY <1>1, <1>2, <2>2, <2>3, CountedKept
    <3> QED BY <1>1, <2>3, <3>1 DEF Counted, Current, Above, Known
  <2> QED BY <1>1, <2>1, <2>3
<1>7. Cleared' /\ PageRow'
  BY <1>1 DEF BadgeInv, Cleared, PageRow
<1>8. QED
  BY <1>1, <1>3, <1>4, <1>5, <1>6, <1>7 DEF BadgeInv

LEMMA BadgeDeliver ==
    ASSUME TypeOK, TypeOK', BadgeInv, NEW l \in 1..Len(listeners), Deliver(l)
    PROVE  BadgeInv'
<1> DEFINE u == listeners[l].owner
           k == Len(tasks)
<1>1. /\ listeners[l] \in Listener /\ tasks \in Seq(Task) /\ k \in Nat
      /\ chat \in Seq(Chat) /\ Len(chat) \in Nat
  BY ElementOfSeq, LenProperties DEF TypeOK
<1>2. u \in Accounts
  BY <1>1 DEF Listener
<1>3. UNCHANGED <<sent, landed, doc, early, user, stamps>>
  BY DEF Deliver, Report, server, prefs
<1>4. ASSUME NEW i \in 1..Len(rows') PROVE Counted(rows[i])'
  <2>1. rows'[i] = RowOf(u, rows'[i].peer)
    BY <1>2, RowsFacts DEF Deliver
  <2>2. \A p : RowOf(u, p).asker = Nobody
    BY DEF RowOf
  <2>3. rows'[i].asker = Nobody
    BY <2>1, <2>2
  <2> QED BY <2>3 DEF Counted
<1>5. ASSUME NEW i \in 1..Len(tasks') PROVE Asked(tasks[i])'
  <2>1. PICK more \in Tasks(u) : tasks' = tasks \o more
    BY DEF Deliver, Report
  <2>2. more \in Seq(Task) /\ Len(more) \in Nat
        /\ \A j \in 1..Len(more) : /\ more[j].peer \in Opened(u)
                                   /\ more[j] = TaskOf(u, more[j].peer)
    BY <1>2, TasksFacts, LenProperties
  <2>3. /\ Len(tasks') = k + Len(more)
        /\ \A j \in 1..(k + Len(more)) :
              tasks'[j] = IF j <= k THEN tasks[j] ELSE more[j - k]
    BY <1>1, <2>1, <2>2, ConcatProperties
  <2>5. ASSUME NEW p \in Opened(u) PROVE Asked(TaskOf(u, p))
    <3>1. /\ TaskOf(u, p).owner = u /\ TaskOf(u, p).peer = p
          /\ TaskOf(u, p).msg = doc[u][p]
      BY DEF TaskOf
    <3>2. doc[u][p] \in Nat
      <4>1. p \in Peers
        BY DEF Opened
      <4>2. doc[u][p] \in Number
        BY <1>2, <4>1 DEF TypeOK
      <4> QED BY <4>2, BoundsAssumption DEF Number
    <3> QED BY <3>1, <3>2 DEF Asked
  <2>6. Asked(tasks'[i])
    <3>1. CASE i <= k
      <4>1. i \in 1..k /\ tasks'[i] = tasks[i]
        BY <1>1, <2>2, <2>3, <3>1
      <4> QED BY <4>1 DEF BadgeInv
    <3>2. CASE ~(i <= k)
      <4>1. i - k \in 1..Len(more) /\ tasks'[i] = more[i - k]
        BY <1>1, <2>2, <2>3, <3>2
      <4> QED BY <2>2, <2>5, <4>1
    <3> QED BY <3>1, <3>2
  <2> QED BY <1>3, <2>6 DEF Asked
<1>6. PageRow'
  <2>1. chat' = [i \in 1..Len(chat) |-> [chat[i] EXCEPT !.row = 0]]
    BY DEF Deliver, Report
  <2>2. chat' # <<>> => 1 \in 1..Len(chat')
    BY EmptySeq DEF TypeOK
  <2>3. Len(chat') = Len(chat)
    BY <1>1, <2>1
  <2>4. chat' # <<>> => chat'[1] = [chat[1] EXCEPT !.row = 0] /\ chat[1] \in Chat
    BY <1>1, <2>1, <2>2, <2>3, ElementOfSeq
  <2>5. chat' # <<>> => chat'[1].row = 0
    BY <2>4 DEF Chat
  <2> QED BY <2>5 DEF PageRow
<1>7. Cleared' /\ Arrived' /\ InTurn'
  BY <1>3 DEF BadgeInv, Cleared, Arrived, InTurn
<1>8. QED
  BY <1>4, <1>5, <1>6, <1>7 DEF BadgeInv

LEMMA BadgeAnswer ==
    ASSUME TypeOK, TypeOK', BadgeInv, NEW i \in 1..Len(tasks), Answer(i)
    PROVE  BadgeInv'
<1> DEFINE t == tasks[i]
           r == CountedRow(t)
<1>1. /\ tasks \in Seq(Task) /\ rows \in Seq(Row) /\ t \in Task
      /\ Len(rows) \in Nat /\ chat \in Seq(Chat) /\ Len(tasks) \in Nat
  BY ElementOfSeq, LenProperties DEF TypeOK
<1>2. rows' = Append(rows, r) /\ tasks' = RemoveAt(tasks, i)
      /\ UNCHANGED <<sent, landed, doc, early, user, stamps, chat>>
  BY DEF Answer, server, prefs
<1>3. Counted(r)
  BY <1>1, AnswerCounted DEF BadgeInv
<1>4. r \in Row
  BY <1>1, CountedRowFacts
<1> HIDE DEF r
<1>5. /\ Len(rows') = Len(rows) + 1 /\ rows'[Len(rows) + 1] = r
      /\ \A j \in 1..Len(rows) : rows'[j] = rows[j]
  BY <1>1, <1>2, <1>4
<1>6. ASSUME NEW j \in 1..Len(rows') PROVE Counted(rows[j])'
  <2>1. Counted(rows'[j])
    <3>1. j = Len(rows) + 1 \/ j \in 1..Len(rows)
      BY <1>1, <1>5
    <3> QED BY <1>3, <1>5, <3>1 DEF BadgeInv
  <2> QED BY <1>2, <2>1 DEF Counted, Current, Above, Known
<1>7. ASSUME NEW j \in 1..Len(tasks') PROVE Asked(tasks[j])'
  <2>1. /\ Len(tasks') = Len(tasks) - 1
        /\ tasks'[j] = IF j < i THEN tasks[j] ELSE tasks[j + 1]
    BY <1>1, <1>2, RemoveFacts
  <2>2. \E m \in 1..Len(tasks) : tasks'[j] = tasks[m]
    <3>1. CASE j < i
      BY <1>1, <2>1, <3>1
    <3>2. CASE ~(j < i)
      <4>1. j + 1 \in 1..Len(tasks)
        BY <1>1, <2>1
      <4> QED BY <2>1, <3>2, <4>1
    <3> QED BY <3>1, <3>2
  <2>3. Asked(tasks'[j])
    BY <2>2 DEF BadgeInv
  <2> QED BY <1>2, <2>3 DEF Asked
<1>8. PageRow'
  <2>1. chat # <<>> => chat[1] \in Chat /\ chat[1].row <= Len(rows)
    <3>1. chat # <<>> => 1 \in 1..Len(chat)
      BY <1>1, EmptySeq
    <3>2. chat # <<>> => chat[1] \in Chat
      BY <1>1, <3>1, ElementOfSeq
    <3> QED BY <3>2 DEF TypeOK
  <2>2. (chat # <<>> /\ chat[1].row # 0) => chat[1].row \in 1..Len(rows)
    BY <1>1, <2>1 DEF Chat
  <2> QED BY <1>2, <1>5, <2>2 DEF BadgeInv, PageRow
<1>9. Cleared' /\ Arrived' /\ InTurn'
  BY <1>2 DEF BadgeInv, Cleared, Arrived, InTurn
<1>10. QED
  BY <1>6, <1>7, <1>8, <1>9 DEF BadgeInv

\* Row x is row y, or y without its count if it is about p.
Cleaned(x, y, p) ==
    x = y \/ (y.peer = p /\ x = [y EXCEPT !.count = 0])

\* A stamp leaves the rows of other peers as they are, and a row of its peer
\* counted from that very stamp speaks of no message sent after it.
LEMMA BadgeStamp ==
    ASSUME TypeOK, TypeOK', BadgeInv, NEW p \in Peers,
           user # Nobody, Stamp(p),
           UNCHANGED <<sent, landed, doc, early, user, tasks>>,
           Len(rows') = Len(rows),
           \A i \in 1..Len(rows) : Cleaned(rows'[i], rows[i], p)
    PROVE  /\ Cleared' /\ Arrived' /\ InTurn'
           /\ \A i \in 1..Len(tasks') : Asked(tasks[i])'
           /\ \A i \in 1..Len(rows') : Counted(rows[i])'
<1>1. stamps'[p] = sent[user][p]
      /\ \A q \in Peers : q # p => stamps'[q] = stamps[q]
  BY DEF Stamp, TypeOK
<1>2. \A i \in 1..Len(tasks') : Asked(tasks[i])'
  BY DEF BadgeInv, Asked
<1>3. ASSUME NEW i \in 1..Len(rows') PROVE Counted(rows[i])'
  <2> DEFINE y == rows[i]
             x == rows'[i]
  <2>1. y \in Row /\ Counted(y) /\ Cleaned(x, y, p)
    BY ElementOfSeq DEF TypeOK, BadgeInv
  <2>2. /\ x.owner = y.owner /\ x.asker = y.asker /\ x.peer = y.peer
        /\ x.msg = y.msg /\ x.stamp = y.stamp
        /\ x.count = y.count \/ (y.peer = p /\ x.count = 0)
    BY <2>1 DEF Cleaned, Row
  <2> SUFFICES ASSUME y.asker # Nobody
               PROVE  /\ x.stamp \in Number /\ x.msg <= doc[x.owner][x.peer]
                      /\ x.count <= Cardinality(Above(x.asker, x.peer, x.stamp))
                      /\ (user = x.owner /\ user = x.asker /\ x.stamp = stamps'[x.peer]) =>
                            x.count >= Cardinality(Known(x.asker, x.peer, x.stamp, x.msg))
    BY <2>2 DEF Counted, Current, Above, Known
  <2> HIDE DEF x, y
  <2>3. /\ y.stamp \in Number /\ y.msg <= doc[y.owner][y.peer]
        /\ y.count <= Cardinality(Above(y.asker, y.peer, y.stamp))
        /\ Current(y) =>
              y.count >= Cardinality(Known(y.asker, y.peer, y.stamp, y.msg))
    BY <2>1 DEF Counted
  <2>4. /\ y.owner \in Accounts /\ y.asker \in Accounts /\ y.peer \in Peers
        /\ y.msg \in Nat /\ y.count \in Nat /\ y.stamp \in Nat
    BY <2>1, <2>3, RowNumbers
  <2>5. Cardinality(Above(y.asker, y.peer, y.stamp)) \in Nat
    BY <2>4, AboveFinite, FS_CardinalityType
  <2>6. x.count <= Cardinality(Above(y.asker, y.peer, y.stamp)) /\ x.count \in Nat
    BY <2>2, <2>3, <2>4, <2>5
  <2>7. ASSUME y.owner = user, y.asker = user, y.stamp = stamps'[y.peer]
        PROVE  x.count >= Cardinality(Known(y.asker, y.peer, y.stamp, y.msg))
    <3>1. CASE y.peer # p
      <4>1. x.count = y.count /\ Current(y)
        BY <1>1, <2>2, <2>4, <2>7, <3>1 DEF Current
      <4> QED BY <2>3, <4>1
    <3>2. CASE y.peer = p
      <4>1. doc[user][p] \in Nat /\ sent[user][p] \in Nat
        <5>1. doc[user][p] \in Number /\ sent[user][p] \in Number
          BY <2>4, <2>7 DEF TypeOK
        <5> QED BY <5>1, BoundsAssumption DEF Number
      <4>2. doc[user][p] <= sent[user][p]
        BY <2>4, <2>7 DEF BadgeInv, InTurn
      <4>3. y.msg <= y.stamp
        BY <1>1, <2>3, <2>4, <2>7, <3>2, <4>1, <4>2
      <4>4. Known(y.asker, y.peer, y.stamp, y.msg) = {}
        BY <2>4, <4>3 DEF Known
      <4> QED BY <2>6, <4>4, FS_EmptySet
    <3> QED BY <3>1, <3>2
  <2> QED BY <2>2, <2>3, <2>6, <2>7
<1>4. Cleared' /\ Arrived' /\ InTurn'
  BY DEF BadgeInv, Cleared, Arrived, InTurn
<1>5. QED
  BY <1>2, <1>3, <1>4

LEMMA BadgeOpen ==
    ASSUME TypeOK, TypeOK', BadgeInv, NEW i \in 1..Len(rows), OpenChat(i)
    PROVE  BadgeInv'
<1> DEFINE p == rows[i].peer
<1>1. rows[i] \in Row
  BY ElementOfSeq DEF TypeOK
<1>2. p \in Peers
  BY <1>1 DEF Row
<1>3. /\ user # Nobody /\ Stamp(p) /\ chat' = <<[peer |-> p, row |-> i]>>
      /\ UNCHANGED <<sent, landed, doc, early, user, tasks, rows>>
  BY DEF OpenChat, server, list
<1>4. \A j \in 1..Len(rows) : Cleaned(rows'[j], rows[j], p)
  BY <1>3 DEF Cleaned
<1>5. /\ Cleared' /\ Arrived' /\ InTurn'
      /\ \A j \in 1..Len(tasks') : Asked(tasks[j])'
      /\ \A j \in 1..Len(rows') : Counted(rows[j])'
  BY <1>2, <1>3, <1>4, BadgeStamp
<1>6. PageRow'
  BY <1>3 DEF PageRow
<1>7. QED
  BY <1>5, <1>6 DEF BadgeInv

LEMMA BadgeShow ==
    ASSUME TypeOK, TypeOK', BadgeInv, ShowMessages
    PROVE  BadgeInv'
<1> DEFINE p == chat[1].peer
           k == chat[1].row
<1>1. chat \in Seq(Chat) /\ chat # <<>> /\ user # Nobody
      /\ k <= Len(rows) /\ rows \in Seq(Row) /\ Len(rows) \in Nat
  BY LenProperties DEF TypeOK, ShowMessages
<1>2. chat[1] \in Chat
  <2>1. 1 \in 1..Len(chat)
    BY <1>1, EmptySeq
  <2> QED BY <1>1, <2>1, ElementOfSeq
<1>3. p \in Peers /\ k \in Nat
  BY <1>2 DEF Chat
<1>4. /\ Stamp(p)
      /\ UNCHANGED <<sent, landed, doc, early, user, tasks, chat>>
  BY DEF ShowMessages, server
<1>5. \A j \in 1..Len(rows) : j = k => rows[j].peer = p
  BY <1>1, <1>3 DEF BadgeInv, PageRow
<1>6. /\ Len(rows') = Len(rows)
      /\ \A j \in 1..Len(rows) : Cleaned(rows'[j], rows[j], p)
  BY <1>5, ShownRows DEF Cleaned
<1>7. /\ Cleared' /\ Arrived' /\ InTurn'
      /\ \A j \in 1..Len(tasks') : Asked(tasks[j])'
      /\ \A j \in 1..Len(rows') : Counted(rows[j])'
  BY <1>1, <1>3, <1>4, <1>6, BadgeStamp
<1>8. PageRow'
  <2>1. k # 0 => k \in 1..Len(rows)
    BY <1>1, <1>3
  <2>2. k # 0 => rows[k] \in Row /\ rows[k].peer = p /\ Cleaned(rows'[k], rows[k], p)
    BY <1>1, <1>5, <1>6, <2>1, ElementOfSeq
  <2>3. k # 0 => rows'[k].peer = p
    BY <2>2 DEF Cleaned, Row
  <2> QED BY <1>4, <2>3 DEF PageRow
<1>9. QED
  BY <1>7, <1>8 DEF BadgeInv

LEMMA BadgeOther ==
    ASSUME TypeOK, TypeOK', BadgeInv,
           \/ \E u \in Accounts : Login(u)
           \/ Logout \/ Restart \/ Start \/ CloseChat \/ UNCHANGED vars
    PROVE  BadgeInv'
<1>1. UNCHANGED <<sent, landed, doc, early>>
  BY DEF Login, Logout, Restart, Start, CloseChat, vars, server
<1>2. Arrived' /\ InTurn'
  BY <1>1 DEF BadgeInv, Arrived, InTurn
<1>3. CASE \/ \E u \in Accounts : Login(u)
           \/ Logout
  <2>1. \A p \in Peers : stamps'[p] = Unstamped
    BY <1>3 DEF Login, Logout, BadgeInv, Cleared
  <2>2. UNCHANGED <<tasks, rows>> /\ chat' = <<>>
    BY <1>3 DEF Login, Logout, list, TypeOK
  <2>3. ASSUME NEW i \in 1..Len(tasks') PROVE Asked(tasks[i])'
    BY <1>1, <2>2 DEF BadgeInv, Asked
  <2>4. ASSUME NEW i \in 1..Len(rows') PROVE Counted(rows[i])'
    <3>1. rows[i] \in Row /\ rows'[i] = rows[i] /\ Counted(rows[i])
      BY <2>2, ElementOfSeq DEF TypeOK, BadgeInv
    <3>2. rows[i].asker # Nobody => rows[i].stamp \in Number
      BY <3>1 DEF Counted
    <3>3. rows[i].peer \in Peers /\ Unstamped \notin Number
      BY <3>1, BoundsAssumption DEF Row, Number, Unstamped
    <3>4. rows[i].asker # Nobody => rows[i].stamp # stamps'[rows[i].peer]
      BY <2>1, <3>2, <3>3
    <3> QED BY <1>1, <3>1, <3>4 DEF Counted, Current, Above
  <2> QED BY <1>2, <2>1, <2>2, <2>3, <2>4 DEF BadgeInv, Cleared, PageRow
<1>4. CASE Restart
  <2>1. Len(tasks') = 0 /\ Len(rows') = 0 /\ chat' = <<>> /\ UNCHANGED prefs
    BY <1>4 DEF Restart
  <2> QED BY <1>2, <2>1 DEF BadgeInv, Cleared, PageRow, prefs
<1>5. CASE Start \/ CloseChat \/ UNCHANGED vars
  <2>1. UNCHANGED <<user, stamps, tasks, rows>> /\ chat' \in {chat, <<>>}
    BY <1>5 DEF Start, CloseChat, vars, prefs, list
  <2>2. ASSUME NEW i \in 1..Len(tasks') PROVE Asked(tasks[i])'
    BY <1>1, <2>1 DEF BadgeInv, Asked
  <2>3. ASSUME NEW i \in 1..Len(rows') PROVE Counted(rows[i])'
    BY <1>1, <2>1 DEF BadgeInv, Counted, Current, Above, Known
  <2>4. Cleared' /\ PageRow'
    BY <2>1 DEF BadgeInv, Cleared, PageRow
  <2> QED BY <1>2, <2>2, <2>3, <2>4 DEF BadgeInv
<1>6. QED
  BY <1>3, <1>4, <1>5

LEMMA BadgeInit == Init => BadgeInv
<1> SUFFICES ASSUME Init PROVE BadgeInv
  OBVIOUS
<1>1. Len(tasks) = 0 /\ Len(rows) = 0 /\ chat = <<>>
  BY DEF Init
<1>2. Cleared /\ Arrived /\ InTurn
  BY DEF Init, Cleared, Arrived, InTurn
<1>3. QED
  BY <1>1, <1>2 DEF BadgeInv, PageRow

LEMMA BadgeNext == TypeOK /\ TypeOK' /\ BadgeInv /\ [Next]_vars => BadgeInv'
<1> SUFFICES ASSUME TypeOK, TypeOK', BadgeInv, [Next]_vars
             PROVE  BadgeInv'
  OBVIOUS
<1>1. CASE \E u \in Accounts, p \in Peers :
              Post(u, p) \/ LandMessage(u, p) \/ LandInbox(u, p)
  BY <1>1, BadgePeer
<1>2. CASE \E l \in 1..Len(listeners) : Deliver(l)
  BY <1>2, BadgeDeliver
<1>3. CASE \E i \in 1..Len(tasks) : Answer(i)
  BY <1>3, BadgeAnswer
<1>4. CASE \E i \in 1..Len(rows) : OpenChat(i)
  BY <1>4, BadgeOpen
<1>5. CASE ShowMessages
  BY <1>5, BadgeShow
<1>6. CASE \/ \E u \in Accounts : Login(u)
           \/ Logout \/ Restart \/ Start \/ CloseChat \/ UNCHANGED vars
  BY <1>6, BadgeOther
<1>7. QED
  BY <1>1, <1>2, <1>3, <1>4, <1>5, <1>6 DEF Next

\* What is newer than the stamp has not been shown, and what is neither shown
\* nor was in flight at the stamp is newer.
LEMMA CountedIsEnough ==
    ASSUME TypeOK, NEW r \in Row, Counted(r), Current(r), user # Nobody
    PROVE  /\ r.count <= Cardinality(landed[user][r.peer] \ Shown(r.peer))
           /\ r.count >= Cardinality({m \in (1..r.msg) \ Shown(r.peer) :
                 m \notin missed[r.peer] /\ <<user, r.peer, m>> \notin early})
<1> DEFINE p == r.peer
           n == stamps[p]
           unseen == landed[user][p] \ Shown(p)
           owed == {m \in (1..r.msg) \ Shown(p) :
                      m \notin missed[p] /\ <<user, p, m>> \notin early}
<1>0. user = r.owner /\ user = r.asker /\ r.stamp = n
  BY DEF Current
<1>1. user \in Accounts /\ p \in Peers /\ n \in Nat /\ r.msg \in Nat
      /\ r.count \in Nat
  <2>1. r.asker # Nobody /\ r.stamp \in Number
    BY <1>0 DEF Counted
  <2> QED BY <1>0, <2>1, RowNumbers
<1>2. /\ r.count <= Cardinality(Above(user, p, n))
      /\ r.count >= Cardinality(Known(user, p, n, r.msg))
  BY <1>0 DEF Counted
<1>3. Above(user, p, n) \subseteq unseen /\ IsFiniteSet(unseen)
  <2>1. IsFiniteSet(landed[user][p]) /\ landed[user][p] \subseteq Nat
    <3>1. landed[user][p] \subseteq 1..MaxSent
      BY <1>1 DEF TypeOK
    <3>2. IsFiniteSet(landed[user][p])
      BY <3>1, NumbersFinite, FS_Subset
    <3>3. 1..MaxSent \subseteq Nat
      BY BoundsAssumption
    <3> QED BY <3>1, <3>2, <3>3
  <2>2. IsFiniteSet(unseen)
    <3>1. unseen \subseteq landed[user][p]
      OBVIOUS
    <3> QED BY <2>1, <3>1, FS_Subset
  <2>3. ASSUME NEW m \in landed[user][p], m > n PROVE m \notin Shown(p)
    BY <1>1, <2>3 DEF Shown
  <2> QED BY <2>2, <2>3 DEF Above
<1>4. owed \subseteq Known(user, p, n, r.msg)
      /\ IsFiniteSet(Known(user, p, n, r.msg))
  <2>1. ASSUME NEW m \in owed PROVE m \in (n + 1)..r.msg
    BY <1>1 DEF Shown
  <2>2. owed \subseteq Known(user, p, n, r.msg)
    BY <2>1 DEF Known
  <2>3. n + 1 \in Int /\ r.msg \in Int
    BY <1>1
  <2>4. IsFiniteSet((n + 1)..r.msg)
    BY <2>3, FS_Interval
  <2> QED BY <2>2, <2>4, FS_Subset DEF Known
<1>5. Cardinality(Above(user, p, n)) <= Cardinality(unseen)
      /\ IsFiniteSet(Above(user, p, n))
  BY <1>3, FS_Subset
<1>6. Cardinality(owed) <= Cardinality(Known(user, p, n, r.msg))
      /\ IsFiniteSet(owed)
  BY <1>4, FS_Subset
<1>7. /\ Cardinality(unseen) \in Nat /\ Cardinality(owed) \in Nat
      /\ Cardinality(Above(user, p, n)) \in Nat
      /\ Cardinality(Known(user, p, n, r.msg)) \in Nat
  BY <1>3, <1>4, <1>5, <1>6, FS_CardinalityType
<1>8. QED
  BY <1>1, <1>2, <1>5, <1>6, <1>7

\* BadgeCountsUnread: a badge counted from the stamp there still is counts
\* nothing that was on the screen, and of the rest it misses only what its inbox
\* document ran ahead of and what was in flight when the chat stamped.
THEOREM BadgeTheorem == Spec => []BadgeCountsUnread
<1>1. TypeOK /\ BadgeInv => BadgeCountsUnread
  <2> SUFFICES ASSUME TypeOK, BadgeInv, NEW i \in 1..Len(rows),
                      Current(rows[i])
               PROVE  LET r == rows[i]
                          p == r.peer
                      IN  /\ r.count <= Cardinality(landed[user][p] \ Shown(p))
                          /\ r.count >= Cardinality({m \in (1..r.msg) \ Shown(p) :
                               m \notin missed[p] /\ <<user, p, m>> \notin early})
    BY DEF BadgeCountsUnread, Current
  <2>1. rows[i] \in Row /\ Counted(rows[i])
    BY ElementOfSeq DEF TypeOK, BadgeInv
  <2>2. user # Nobody
    BY <2>1, AccountsAssumption DEF Row, Current
  <2> QED BY <2>1, <2>2, CountedIsEnough
<1>2. Init => TypeOK
  BY TypesInit
<1>3. QED
  BY <1>1, <1>2, BadgeInit, BadgeNext, TypesNext, InboxTypes, PTL DEF Spec
=============================================================================
