------------------------- MODULE ChatHistoryProofs -------------------------
(***************************************************************************)
(* Proofs about ChatHistory, for every window size and all bounds.         *)
(***************************************************************************)
EXTENDS ChatHistory, SequenceTheorems, TLAPS

Rows == Msgs \ {0}

\* What the stream and the queries deliver is a sequence of messages from hi
\* downwards.
LEMMA DownFacts ==
    ASSUME NEW hi \in Msgs, NEW lo \in Msgs, lo <= hi
    PROVE  /\ Down(hi, lo) \in Seq(Rows)
           /\ Len(Down(hi, lo)) = hi - lo
           /\ \A i \in 1..(hi - lo) : Down(hi, lo)[i] = hi + 1 - i
<1>1. hi \in Nat /\ lo \in Nat /\ hi - lo \in Nat
  BY BoundsAssumption DEF Msgs
<1>2. \A i \in 1..(hi - lo) : hi + 1 - i \in Rows
  BY <1>1, BoundsAssumption DEF Msgs, Rows
<1>3. QED
  BY <1>1, <1>2 DEF Down

\* The window below hi: its first row is hi and it is empty only for 0.
LEMMA NewestFacts ==
    ASSUME NEW hi \in Msgs
    PROVE  /\ Newest(hi) \in Seq(Rows)
           /\ Newest(hi) = <<>> <=> hi = 0
           /\ hi # 0 => Newest(hi)[1] = hi
<1> DEFINE lo == IF hi > Limit THEN hi - Limit ELSE 0
<1>1. lo \in Msgs /\ lo <= hi /\ hi \in Nat /\ (hi # 0 => lo < hi)
  BY BoundsAssumption DEF Msgs
<1>2. Newest(hi) = Down(hi, lo)
  BY DEF Newest
<1> HIDE DEF lo
<1>3. /\ Down(hi, lo) \in Seq(Rows) /\ Len(Down(hi, lo)) = hi - lo
      /\ \A i \in 1..(hi - lo) : Down(hi, lo)[i] = hi + 1 - i
  BY <1>1, DownFacts
<1>4. hi # 0 => 1 \in 1..(hi - lo) /\ hi + 1 - 1 = hi
  BY <1>1 DEF Msgs
<1>5. Down(hi, lo) = <<>> <=> hi - lo = 0
  BY <1>3, EmptySeq
<1>6. hi - lo = 0 <=> hi = 0
  BY <1>1 DEF Msgs
<1>7. QED
  BY <1>2, <1>3, <1>4, <1>5, <1>6

-----------------------------------------------------------------------------
(* The invariant: there is at most one query of _newMessageListener, it     *)
(* asks for what comes after the first row, and templastMessage is the      *)
(* first row exactly while it is under way.                                  *)

ListOK ==
    /\ list \in Seq(Rows)
    /\ last <= sent
    /\ list # <<>> => list[1] = last
    /\ paged => list # <<>>

QueriesOK ==
    /\ queries \in Seq(Rows)
    /\ queries # <<>> => list # <<>>

GetsOK ==
    /\ \A g \in gets : /\ paged /\ g.after = last /\ templast = last
                       /\ last < sent /\ g.upto <= sent
                       /\ g.upto # 0 => last < g.upto
    /\ gets = {} => templast = 0 \/ templast < last
    /\ ~paged => templast = 0
    /\ seen # <<>> => paged

\* Two answers of the server to the same question are the same query.
SoleGet == \A g \in gets : \A h \in gets : g = h

Inv == TypeOK /\ ListOK /\ QueriesOK /\ GetsOK /\ SoleGet

\* The screen opens with an empty list and nothing asked for.
LEMMA InitInv == Init => Inv
<1> SUFFICES ASSUME Init PROVE Inv
  OBVIOUS
<1>1. 0 \in Msgs /\ 0 \in 0..MaxPages /\ sent \in Msgs /\ 0 <= sent
  <2>1. sent \in Msgs
    BY DEF Init
  <2>2. MaxMsgs \in Nat /\ MaxPages \in Nat
    BY BoundsAssumption
  <2>3. QED
    BY <2>1, <2>2 DEF Msgs
<1>2. TypeOK
  <2>1. sent \in Msgs /\ paged \in BOOLEAN /\ last \in Msgs /\ templast \in Msgs
        /\ pages \in 0..MaxPages /\ gets \subseteq Get
    BY <1>1 DEF Init
  <2>2. list \in Seq(Msgs) /\ queries \in Seq(Msgs) /\ seen \in Seq(Msgs)
    BY DEF Init
  <2>3. QED
    BY <2>1, <2>2 DEF TypeOK
<1>3. ListOK /\ QueriesOK /\ GetsOK /\ SoleGet
  BY <1>1 DEF Init, ListOK, QueriesOK, GetsOK, SoleGet
<1>4. QED
  BY <1>2, <1>3 DEF Inv

\* The first row of a list that grows at its end stays.
LEMMA FirstRowKept ==
    ASSUME NEW s \in Seq(Rows), NEW t \in Seq(Rows), s # <<>>
    PROVE  s \o t \in Seq(Rows) /\ s \o t # <<>> /\ (s \o t)[1] = s[1]
<1>1. Len(s) # 0 /\ Len(s) \in Nat /\ Len(t) \in Nat
  BY EmptySeq
<1>2. /\ s \o t \in Seq(Rows) /\ Len(s \o t) = Len(s) + Len(t)
      /\ \A i \in 1..(Len(s) + Len(t)) :
           (s \o t)[i] = IF i <= Len(s) THEN s[i] ELSE t[i - Len(s)]
  BY ConcatProperties
<1>3. 1 \in 1..(Len(s) + Len(t)) /\ 1 <= Len(s)
  BY <1>1
<1>4. QED
  BY <1>1, <1>2, <1>3, EmptySeq

\* Every step of the screen, of its listeners and of the server keeps it.
LEMMA InvStep == Inv /\ [Next]_vars => Inv'
<1> SUFFICES ASSUME Inv, [Next]_vars PROVE Inv'
  OBVIOUS
<1>0. /\ TypeOK /\ ListOK /\ QueriesOK /\ GetsOK /\ SoleGet
      /\ sent \in Nat /\ last \in Nat /\ templast \in Nat
      /\ Rows \subseteq Msgs
  BY BoundsAssumption DEF Inv, TypeOK, Msgs, Rows
<1>1. CASE Arrive
  <2>1. sent' \in Msgs /\ sent' = sent + 1
    BY <1>0, <1>1, BoundsAssumption DEF Arrive, Msgs
  <2>2. TypeOK' /\ QueriesOK' /\ SoleGet'
    BY <1>0, <1>1, <2>1 DEF Arrive, TypeOK, QueriesOK, SoleGet
  <2>3. ListOK'
    BY <1>0, <1>1, <2>1 DEF Arrive, ListOK
  <2>4. \A g \in gets : g.upto \in Nat
    BY <1>0, BoundsAssumption DEF TypeOK, Get, Msgs
  <2>5. GetsOK'
    BY <1>0, <1>1, <2>1, <2>4 DEF Arrive, GetsOK
  <2>6. QED
    BY <2>2, <2>3, <2>5 DEF Inv
<1>2. CASE LiveSnapshot
  <2>1. /\ list' \in Seq(Rows) /\ (list' = <<>> <=> sent = 0)
        /\ (sent # 0 => list'[1] = sent)
    BY <1>0, <1>2, NewestFacts DEF LiveSnapshot, TypeOK
  <2>2. gets = {} /\ templast = 0 /\ seen = <<>>
    BY <1>0, <1>2 DEF LiveSnapshot, GetsOK
  <2>3. queries # <<>> => sent # 0
    <3>1. CASE list # <<>>
      <4>1. list[1] \in Rows
        BY <1>0, <3>1, EmptySeq DEF ListOK
      <4>2. QED
        BY <1>0, <3>1, <4>1 DEF ListOK, Rows, Msgs
    <3>2. QED
      BY <1>0, <3>1 DEF QueriesOK
  <2>4. list' \in Seq(Msgs)
    BY <1>0, <2>1
  <2>5. TypeOK' /\ ListOK' /\ QueriesOK'
    BY <1>0, <1>2, <2>1, <2>3, <2>4
       DEF LiveSnapshot, TypeOK, ListOK, QueriesOK
  <2>6. GetsOK' /\ SoleGet'
    BY <1>0, <1>2, <2>2 DEF LiveSnapshot, GetsOK, SoleGet
  <2>7. QED
    BY <2>5, <2>6 DEF Inv
<1>3. CASE ScrollToEnd
  <2>1. list[Len(list)] \in Rows
    BY <1>0, <1>3, EmptySeq DEF ScrollToEnd, ListOK
  <2>2. queries' \in Seq(Rows) /\ queries' \in Seq(Msgs)
    BY <1>0, <1>3, <2>1 DEF ScrollToEnd, QueriesOK
  <2>3. pages' \in 0..MaxPages
    BY <1>0, <1>3, BoundsAssumption DEF ScrollToEnd, TypeOK
  <2>4. QED
    BY <1>0, <1>3, <2>2, <2>3
       DEF ScrollToEnd, Inv, TypeOK, ListOK, QueriesOK, GetsOK, SoleGet
<1>4. CASE PageArrives
  <2>1. Head(queries) \in Rows /\ queries' \in Seq(Rows) /\ queries' \in Seq(Msgs)
    BY <1>0, <1>4 DEF PageArrives, QueriesOK
  <2>2. Head(queries) - 1 \in Msgs
    BY <2>1, BoundsAssumption DEF Rows, Msgs
  <2>3. Newest(Head(queries) - 1) \in Seq(Rows)
    BY <2>2, NewestFacts
  <2>4. list' \in Seq(Rows) /\ list' # <<>> /\ list'[1] = list[1]
    BY <1>0, <1>4, <2>3, FirstRowKept DEF PageArrives, QueriesOK, ListOK
  <2>5. list' \in Seq(Msgs) /\ seen' \in Seq(Msgs)
    <3>1. 0 \in Msgs /\ seen \in Seq(Msgs)
      BY <1>0, BoundsAssumption DEF TypeOK, Msgs
    <3>2. QED
      BY <1>0, <1>4, <2>4, <3>1 DEF PageArrives
  <2>6. TypeOK' /\ ListOK' /\ QueriesOK'
    BY <1>0, <1>4, <2>1, <2>4, <2>5
       DEF PageArrives, TypeOK, ListOK, QueriesOK
  <2>7. GetsOK' /\ SoleGet'
    BY <1>0, <1>4 DEF PageArrives, GetsOK, SoleGet
  <2>8. QED
    BY <2>6, <2>7 DEF Inv
<1>5. ASSUME NEW i \in 1..Len(seen), ListenerFires(i)
      PROVE  Inv'
  <2>1. paged /\ seen' \in Seq(Msgs) /\ seen' # <<>>
    BY <1>0, <1>5, EmptySeq DEF ListenerFires, GetsOK, TypeOK
  <2>2. last # 0
    <3>1. list # <<>> /\ list[1] = last
      BY <1>0, <2>1 DEF ListOK
    <3>2. QED
      BY <1>0, <3>1, EmptySeq DEF ListOK, Rows
  <2>3. CASE UNCHANGED <<templast, gets>>
    BY <1>0, <1>5, <2>1, <2>3
       DEF ListenerFires, Inv, TypeOK, ListOK, QueriesOK, GetsOK, SoleGet
  <2>4. CASE ~UNCHANGED <<templast, gets>>
    <3>1. /\ last # sent /\ last # templast /\ templast' = last
          /\ gets' = gets \union {[after |-> last, upto |-> 0]}
      BY <1>5, <2>4 DEF ListenerFires, NewMessageListener
    <3>2. gets = {}
      BY <1>0, <3>1 DEF GetsOK
    <3>3. [after |-> last, upto |-> 0] \in Get
      BY <1>0, BoundsAssumption DEF Get, Msgs, TypeOK
    <3>4. TypeOK' /\ ListOK' /\ QueriesOK'
      BY <1>0, <1>5, <2>1, <3>1, <3>2, <3>3
         DEF ListenerFires, TypeOK, ListOK, QueriesOK
    <3>5. last < sent
      BY <1>0, <3>1 DEF ListOK
    <3>6. GetsOK' /\ SoleGet'
      <4>1. UNCHANGED <<sent, last, paged>>
        BY <1>5 DEF ListenerFires
      <4>2. \A g \in gets' : g = [after |-> last, upto |-> 0]
        BY <3>1, <3>2
      <4>3. \A g \in gets' : g.after = last /\ g.upto = 0
        BY <4>2
      <4>4. gets' # {}
        BY <3>1
      <4>5. QED
        BY <1>0, <2>1, <3>1, <3>5, <4>1, <4>2, <4>3, <4>4 DEF GetsOK, SoleGet
    <3>7. QED
      BY <3>4, <3>6 DEF Inv
  <2>5. QED
    BY <2>3, <2>4
<1>6. ASSUME NEW g \in gets, GetAnswered(g)
      PROVE  Inv'
  <2> DEFINE h == [g EXCEPT !.upto = sent]
  <2>1. h \in Get /\ h.after = g.after /\ h.upto = sent
    BY <1>0 DEF TypeOK, Get
  <2>2. gets' = {h}
    BY <1>0, <1>6 DEF GetAnswered, SoleGet
  <2>3. g.after = last /\ templast = last /\ last < sent /\ paged /\ sent # 0
    BY <1>0 DEF GetsOK
  <2>4. TypeOK' /\ ListOK' /\ QueriesOK'
    BY <1>0, <1>6, <2>1, <2>2 DEF GetAnswered, TypeOK, ListOK, QueriesOK
  <2> HIDE DEF h
  <2>5. GetsOK' /\ SoleGet'
    BY <1>0, <1>6, <2>1, <2>2, <2>3 DEF GetAnswered, GetsOK, SoleGet
  <2>6. QED
    BY <2>4, <2>5 DEF Inv
<1>7. ASSUME NEW g \in gets, GetArrives(g)
      PROVE  Inv'
  <2>1. /\ g.after = last /\ templast = last /\ g.upto # 0 /\ last < g.upto
        /\ g.upto <= sent /\ paged /\ g.upto \in Msgs /\ last \in Msgs
    BY <1>0, <1>7 DEF GetArrives, GetsOK, TypeOK, Get
  <2> DEFINE d == Down(g.upto, g.after)
  <2>2. d \in Seq(Rows) /\ Len(d) = g.upto - last /\ d[1] = g.upto
    <3>1. 1 \in 1..(g.upto - last) /\ g.upto + 1 - 1 = g.upto
      BY <2>1, BoundsAssumption DEF Msgs
    <3>2. last <= g.upto
      BY <2>1, BoundsAssumption DEF Msgs
    <3>3. /\ Down(g.upto, last) \in Seq(Rows)
          /\ Len(Down(g.upto, last)) = g.upto - last
          /\ \A i \in 1..(g.upto - last) :
               Down(g.upto, last)[i] = g.upto + 1 - i
      BY <2>1, <3>2, DownFacts
    <3>4. QED
      BY <2>1, <3>1, <3>3
  <2> HIDE DEF d
  <2>3. d # <<>>
    BY <1>0, <2>1, <2>2, EmptySeq, BoundsAssumption DEF Msgs
  <2>4. d \o list \in Seq(Rows) /\ d \o list # <<>> /\ (d \o list)[1] = g.upto
    BY <1>0, <2>2, <2>3, FirstRowKept DEF ListOK
  <2>5. /\ list' = d \o list /\ last' = g.upto /\ gets' = {}
        /\ UNCHANGED <<sent, paged, templast, queries, pages, seen>>
    BY <1>0, <1>7, <2>4 DEF GetArrives, SoleGet, d
  <2>6. list' \in Seq(Msgs)
    BY <1>0, <2>4, <2>5
  <2>7. TypeOK' /\ ListOK' /\ QueriesOK'
    BY <1>0, <2>1, <2>4, <2>5, <2>6 DEF TypeOK, ListOK, QueriesOK
  <2>8. GetsOK' /\ SoleGet'
    BY <1>0, <2>1, <2>5 DEF GetsOK, SoleGet
  <2>9. QED
    BY <2>7, <2>8 DEF Inv
<1>8. CASE UNCHANGED vars
  BY <1>0, <1>8 DEF vars, Inv, TypeOK, ListOK, QueriesOK, GetsOK, SoleGet
<1>9. QED
  BY <1>1, <1>2, <1>3, <1>4, <1>5, <1>6, <1>7, <1>8 DEF Next, Fire, Answer

\* The invariant holds in every reachable state of a chat screen.
THEOREM HistoryInvariant == Spec => []Inv
BY InitInv, InvStep, PTL DEF Spec

\* The list, the queries and the markers of a chat screen keep to their types.
THEOREM HistoryTypes == Spec => []TypeOK
BY HistoryInvariant, PTL DEF Inv

\* Whatever the window size, and however many listeners the pages have left
\* behind, a screen with nothing under way reacts to the next message.
THEOREM NeverDeafTheorem == Spec => []NeverDeaf
<1>1. Inv => NeverDeaf
  <2> SUFFICES ASSUME Inv, paged, gets = {} PROVE last # templast
    BY DEF NeverDeaf
  <2>1. list # <<>> /\ list[1] = last /\ list \in Seq(Rows)
    BY DEF Inv, ListOK
  <2>2. last \in Nat /\ last # 0
    BY <2>1, EmptySeq, BoundsAssumption DEF Rows, Msgs
  <2>3. templast = 0 \/ templast < last
    BY DEF Inv, GetsOK
  <2>4. QED
    BY <2>2, <2>3
<1>2. QED
  BY <1>1, HistoryInvariant, PTL
-----------------------------------------------------------------------------
(* The order of the list. *)

\* The window below hi, row by row.
LEMMA NewestRows ==
    ASSUME NEW hi \in Msgs
    PROVE  /\ Newest(hi) \in Seq(Rows)
           /\ Len(Newest(hi)) = IF hi > Limit THEN Limit ELSE hi
           /\ \A i \in 1..Len(Newest(hi)) : Newest(hi)[i] = hi + 1 - i
<1> DEFINE lo == IF hi > Limit THEN hi - Limit ELSE 0
<1>1. lo \in Msgs /\ lo <= hi
  BY BoundsAssumption DEF Msgs
<1>2. hi - lo = IF hi > Limit THEN Limit ELSE hi
  BY BoundsAssumption DEF Msgs
<1>3. Newest(hi) = Down(hi, lo)
  BY DEF Newest
<1> HIDE DEF lo
<1>4. /\ Down(hi, lo) \in Seq(Rows) /\ Len(Down(hi, lo)) = hi - lo
      /\ \A i \in 1..(hi - lo) : Down(hi, lo)[i] = hi + 1 - i
  BY <1>1, DownFacts
<1>5. QED
  BY <1>2, <1>3, <1>4

\* The rows up to a window's length count down from the newest.  A list that is
\* shorter holds the whole conversation, so that every page below it is empty;
\* without this, a page could leave a gap in the window.
TopRows ==
    /\ \A i \in 1..Len(list) : i <= Limit => list[i] = last + 1 - i
    /\ Len(list) < Limit => /\ Len(list) = last
                            /\ \A i \in 1..Len(queries) : queries[i] = 1
    /\ ~paged => Len(list) <= last /\ Len(list) <= Limit

LEMMA InitTop == Init => TopRows
BY BoundsAssumption DEF Init, TopRows

LEMMA TopStep ==
    ASSUME Inv, TopRows, [Next]_vars
    PROVE  TopRows'
<1>0. /\ list \in Seq(Rows) /\ queries \in Seq(Rows)
      /\ sent \in Msgs /\ last \in Msgs /\ last <= sent
      /\ sent \in Nat /\ last \in Nat /\ Limit \in Nat \ {0}
      /\ Len(list) \in Nat /\ Len(queries) \in Nat
  BY BoundsAssumption DEF Inv, TypeOK, ListOK, QueriesOK, Msgs
<1>1. CASE LiveSnapshot
  <2>1. /\ Len(list') = IF sent > Limit THEN Limit ELSE sent
        /\ \A i \in 1..Len(list') : list'[i] = sent + 1 - i
    BY <1>0, <1>1, NewestRows DEF LiveSnapshot
  <2>2. last' = sent /\ queries' = queries
    BY <1>0, <1>1 DEF LiveSnapshot
  <2>3. Len(list') < Limit => Len(list) < Limit
    BY <1>0, <1>1, <2>1 DEF LiveSnapshot, TopRows
  <2>4. QED
    BY <1>0, <2>1, <2>2, <2>3 DEF TopRows
<1>2. CASE ScrollToEnd
  <2>1. UNCHANGED <<list, last, paged>>
        /\ queries' = Append(queries, list[Len(list)])
    BY <1>2 DEF ScrollToEnd
  <2>2. list # <<>> => Len(list) \in 1..Len(list)
    BY <1>0, EmptySeq
  <2>3. Len(list) < Limit => list[Len(list)] = 1
    BY <1>0, <1>2, <2>2 DEF TopRows, ScrollToEnd
  <2>4. /\ Len(queries') = Len(queries) + 1
        /\ \A i \in 1..Len(queries) : queries'[i] = queries[i]
        /\ queries'[Len(queries) + 1] = list[Len(list)]
    BY <1>0, <2>1
  <2>5. Len(list) < Limit => \A i \in 1..Len(queries') : queries'[i] = 1
    BY <1>0, <2>3, <2>4 DEF TopRows
  <2>6. QED
    BY <2>1, <2>5 DEF TopRows
<1>3. CASE PageArrives
  <2> DEFINE page == Newest(Head(queries) - 1)
  <2>1. /\ queries # <<>> /\ queries' = Tail(queries) /\ list' = list \o page
        /\ paged' /\ last' = last
    BY <1>3 DEF PageArrives
  <2>2. Head(queries) = queries[1] /\ queries[1] \in Rows /\ 1 \in 1..Len(queries)
    BY <1>0, <2>1, EmptySeq
  <2>3. Head(queries) - 1 \in Msgs
    BY <2>2, BoundsAssumption DEF Rows, Msgs
  <2>4. page \in Seq(Rows) /\ Len(page) \in Nat
    BY <2>3, NewestRows
  <2>5. Len(list) < Limit => Len(page) = 0
    <3>1. Len(list) < Limit => Head(queries) - 1 = 0
      BY <2>2 DEF TopRows
    <3>2. QED
      BY <1>0, <2>3, <3>1, NewestRows
  <2> HIDE DEF page
  <2>6. /\ Len(list') = Len(list) + Len(page)
        /\ \A i \in 1..(Len(list) + Len(page)) :
             list'[i] = IF i <= Len(list) THEN list[i] ELSE page[i - Len(list)]
    BY <1>0, <2>1, <2>4, ConcatProperties
  <2>7. \A i \in 1..Len(list') : i <= Limit => list'[i] = last + 1 - i
    BY <1>0, <2>4, <2>5, <2>6 DEF TopRows
  <2>8. \A i \in 1..Len(queries') : i + 1 \in 1..Len(queries)
                                    /\ queries'[i] = queries[i + 1]
    BY <1>0, <2>1
  <2>9. Len(list') < Limit => /\ Len(list') = last
                              /\ \A i \in 1..Len(queries') : queries'[i] = 1
    <3>1. SUFFICES ASSUME Len(list') < Limit
                   PROVE  /\ Len(list') = last
                          /\ \A i \in 1..Len(queries') : queries'[i] = 1
      OBVIOUS
    <3>2. Len(list) < Limit
      BY <1>0, <2>4, <2>6, <3>1
    <3>3. Len(list) = last /\ Len(list') = Len(list)
      BY <1>0, <2>5, <2>6, <3>2 DEF TopRows
    <3>4. \A i \in 1..Len(queries) : queries[i] = 1
      BY <3>2 DEF TopRows
    <3>5. QED
      BY <2>8, <3>3, <3>4
  <2>10. QED
    BY <2>1, <2>7, <2>9 DEF TopRows
<1>4. ASSUME NEW g \in gets, GetArrives(g)
      PROVE  TopRows'
  <2> DEFINE d == Down(g.upto, g.after)
  <2>1. /\ g.after = last /\ last < g.upto /\ paged
        /\ g.upto \in Msgs /\ g.upto \in Nat
    BY <1>4, BoundsAssumption DEF GetArrives, Inv, GetsOK, TypeOK, Get, Msgs
  <2>2. /\ d \in Seq(Rows) /\ Len(d) = g.upto - last
        /\ \A i \in 1..Len(d) : d[i] = g.upto + 1 - i
    <3>1. last <= g.upto
      BY <1>0, <2>1
    <3>2. /\ Down(g.upto, last) \in Seq(Rows)
          /\ Len(Down(g.upto, last)) = g.upto - last
          /\ \A i \in 1..(g.upto - last) :
               Down(g.upto, last)[i] = g.upto + 1 - i
      BY <1>0, <2>1, <3>1, DownFacts
    <3>3. QED
      BY <2>1, <3>2
  <2> HIDE DEF d
  <2>3. /\ Len(d \o list) = Len(d) + Len(list)
        /\ \A i \in 1..(Len(d) + Len(list)) :
             (d \o list)[i] = IF i <= Len(d) THEN d[i] ELSE list[i - Len(d)]
    BY <1>0, <2>2, ConcatProperties
  <2>4. 1 \in 1..Len(d) /\ d[1] = g.upto /\ (d \o list)[1] = g.upto
    BY <1>0, <2>1, <2>2, <2>3
  <2>5. list' = d \o list /\ last' = g.upto /\ paged' = paged /\ queries' = queries
    BY <1>4, <2>4 DEF GetArrives, d
  <2>6. ASSUME NEW i \in 1..(Len(d) + Len(list)), i <= Limit
        PROVE  list'[i] = g.upto + 1 - i
    <3>1. CASE i <= Len(d)
      BY <1>0, <2>2, <2>3, <2>5, <3>1
    <3>2. CASE ~(i <= Len(d))
      <4>1. i - Len(d) \in 1..Len(list) /\ i - Len(d) <= Limit
        <5>1. \A k, m, x, lim \in Nat :
                 /\ k \in 1..(m + x) /\ k <= lim /\ ~(k <= m)
                 => k - m \in 1..x /\ k - m <= lim
          OBVIOUS
        <5>2. Len(d) \in Nat /\ Len(list) \in Nat /\ Limit \in Nat /\ i \in Nat
          BY <1>0, <2>1, <2>2, BoundsAssumption
        <5>3. QED
          BY <2>6, <3>2, <5>1, <5>2, Zenon
      <4>2. list[i - Len(d)] = last + 1 - (i - Len(d))
        BY <4>1 DEF TopRows
      <4>3. list'[i] = list[i - Len(d)]
        BY <2>3, <2>5, <3>2
      <4>4. i \in Int /\ Len(d) = g.upto - last
        BY <1>0, <2>1, <2>2
      <4>5. last + 1 - (i - (g.upto - last)) = g.upto + 1 - i
        <5>1. \A a, b, c \in Int : b + 1 - (c - (a - b)) = a + 1 - c
          OBVIOUS
        <5>2. g.upto \in Int /\ last \in Int
          BY <1>0, <2>1
        <5>3. QED
          BY <4>4, <5>1, <5>2, Zenon
      <4>6. QED
        BY <4>2, <4>3, <4>4, <4>5, Zenon
    <3>3. QED
      BY <3>1, <3>2
  <2>7. Len(list') < Limit => Len(list') = g.upto /\ Len(list) < Limit
    <3>1. Len(list') = (g.upto - last) + Len(list)
      BY <2>2, <2>3, <2>5
    <3>2. Len(list') < Limit => Len(list) < Limit
      BY <1>0, <2>1, <3>1
    <3>3. Len(list) < Limit => Len(list) = last
      BY DEF TopRows
    <3>4. QED
      BY <1>0, <2>1, <3>1, <3>2, <3>3
  <2>8. QED
    BY <2>1, <2>3, <2>5, <2>6, <2>7 DEF TopRows
<1>5. CASE Arrive \/ Fire \/ UNCHANGED vars \/ \E g \in gets : GetAnswered(g)
  <2>1. UNCHANGED <<paged, list, last, queries>>
    BY <1>5 DEF Arrive, Fire, ListenerFires, GetAnswered, vars
  <2>2. QED
    BY <2>1 DEF TopRows
<1>6. QED
  BY <1>1, <1>2, <1>3, <1>4, <1>5 DEF Next, Answer

\* However many listeners report, and whenever the pages come, the newest rows
\* leave no message out.
THEOREM NoHolesTheorem == Spec => []NoHolesOnTop
<1>1. ASSUME Inv, TopRows PROVE NoHolesOnTop
  <2>1. SUFFICES ASSUME NEW i \in 2..Len(list), i <= Limit
                 PROVE  list[i - 1] = list[i] + 1
    BY DEF NoHolesOnTop
  <2>2. /\ Len(list) \in Nat /\ Limit \in Nat /\ last \in Nat
    BY <1>1, BoundsAssumption DEF Inv, TypeOK, ListOK, Msgs
  <2>3. i \in 1..Len(list) /\ i - 1 \in 1..Len(list) /\ i - 1 <= Limit
    BY <2>1, <2>2
  <2>4. list[i] = last + 1 - i /\ list[i - 1] = last + 1 - (i - 1)
    BY <1>1, <2>1, <2>3 DEF TopRows
  <2>5. QED
    BY <2>2, <2>4
<1>2. QED
  BY <1>1, InitTop, TopStep, HistoryInvariant, PTL DEF Spec

\* With one page query at a time, the page asked for starts below the row that is
\* last when it comes: the stream can only have taken rows away at that end.
OrderOK ==
    MaxQueries = 1 =>
      /\ \A i \in 1..Len(list), j \in 1..Len(list) : i < j => list[i] > list[j]
      /\ Len(queries) <= 1
      /\ queries # <<>> => list[Len(list)] >= queries[1]

LEMMA InitOrder == Init => OrderOK
BY DEF Init, OrderOK

\* A sequence of messages that has any has a first and a last, and they are
\* numbers.
LEMMA RowNumbers ==
    ASSUME NEW s \in Seq(Rows)
    PROVE  /\ Len(s) \in Nat
           /\ \A i \in 1..Len(s) : s[i] \in Nat /\ s[i] # 0
           /\ s # <<>> => 1 \in 1..Len(s) /\ Len(s) \in 1..Len(s)
<1>1. Len(s) \in Nat /\ \A i \in 1..Len(s) : s[i] \in Rows
  OBVIOUS
<1>2. Rows \subseteq Nat /\ 0 \notin Rows
  BY BoundsAssumption DEF Rows, Msgs
<1>3. s # <<>> => Len(s) # 0
  BY EmptySeq
<1>4. Len(s) # 0 => 1 \in 1..Len(s) /\ Len(s) \in 1..Len(s)
  BY <1>1
<1>5. QED
  BY <1>1, <1>2, <1>3, <1>4, Zenon

\* Two lists that fall, the second from below the first's last row, fall
\* together.
LEMMA FallingConcat ==
    ASSUME NEW s \in Seq(Rows), NEW t \in Seq(Rows),
           \A i \in 1..Len(s), j \in 1..Len(s) : i < j => s[i] > s[j],
           \A i \in 1..Len(t), j \in 1..Len(t) : i < j => t[i] > t[j],
           \A i \in 1..Len(s), j \in 1..Len(t) : s[i] > t[j]
    PROVE  \A i \in 1..Len(s \o t), j \in 1..Len(s \o t) :
             i < j => (s \o t)[i] > (s \o t)[j]
<1>1. Len(s) \in Nat /\ Len(t) \in Nat
  OBVIOUS
<1>2. /\ Len(s \o t) = Len(s) + Len(t)
      /\ \A i \in 1..(Len(s) + Len(t)) :
           (s \o t)[i] = IF i <= Len(s) THEN s[i] ELSE t[i - Len(s)]
  BY ConcatProperties
<1>3. SUFFICES ASSUME NEW i \in 1..(Len(s) + Len(t)),
                      NEW j \in 1..(Len(s) + Len(t)), i < j
               PROVE  (s \o t)[i] > (s \o t)[j]
  BY <1>2
<1>4. CASE j <= Len(s)
  BY <1>1, <1>2, <1>3, <1>4
<1>5. CASE i <= Len(s) /\ ~(j <= Len(s))
  <2>1. i \in 1..Len(s) /\ j - Len(s) \in 1..Len(t)
    BY <1>1, <1>3, <1>5
  <2>2. QED
    BY <1>2, <1>5, <2>1
<1>6. CASE ~(i <= Len(s)) /\ ~(j <= Len(s))
  <2>1. /\ i - Len(s) \in 1..Len(t) /\ j - Len(s) \in 1..Len(t)
        /\ i - Len(s) < j - Len(s)
    BY <1>1, <1>3, <1>6
  <2>2. QED
    BY <1>2, <1>6, <2>1
<1>7. QED
  BY <1>1, <1>3, <1>4, <1>5, <1>6

LEMMA OrderStep ==
    ASSUME Inv, TopRows, OrderOK, [Next]_vars
    PROVE  OrderOK'
<1> SUFFICES ASSUME MaxQueries = 1 PROVE OrderOK'
  BY DEF OrderOK
<1>0. /\ list \in Seq(Rows) /\ queries \in Seq(Rows)
      /\ sent \in Msgs /\ last \in Msgs /\ last <= sent
      /\ sent \in Nat /\ last \in Nat /\ Limit \in Nat \ {0}
      /\ Len(list) \in Nat /\ Len(queries) \in Nat
  BY BoundsAssumption DEF Inv, TypeOK, ListOK, QueriesOK, Msgs
<1>n. /\ \A i \in 1..Len(list) : list[i] \in Nat
      /\ \A i \in 1..Len(queries) : queries[i] \in Nat
      /\ list # <<>> => 1 \in 1..Len(list) /\ Len(list) \in 1..Len(list)
      /\ queries # <<>> => 1 \in 1..Len(queries)
  BY <1>0, RowNumbers
<1>1. /\ \A i \in 1..Len(list), j \in 1..Len(list) : i < j => list[i] > list[j]
      /\ Len(queries) <= 1
      /\ queries # <<>> => list[Len(list)] >= queries[1] /\ list # <<>>
  BY DEF OrderOK, Inv, QueriesOK
<1>2. CASE LiveSnapshot
  <2>1. /\ Len(list') = IF sent > Limit THEN Limit ELSE sent
        /\ \A i \in 1..Len(list') : list'[i] = sent + 1 - i
        /\ queries' = queries
    BY <1>0, <1>2, NewestRows DEF LiveSnapshot
  <2>2. \A i \in 1..Len(list'), j \in 1..Len(list') : i < j => list'[i] > list'[j]
    BY <1>0, <2>1
  <2>3. ASSUME queries # <<>> PROVE list'[Len(list')] >= queries[1]
    <3>1. Len(list) \in 1..Len(list) /\ Len(list) <= Limit /\ Len(list) <= last
      BY <1>0, <1>1, <1>2, <2>3, EmptySeq DEF TopRows, LiveSnapshot
    <3>2. list[Len(list)] = last + 1 - Len(list)
      BY <3>1 DEF TopRows
    <3>3. Len(list') \in 1..Len(list') /\ Len(list') \in Nat
      BY <1>0, <2>1, <3>1
    <3>4. list'[Len(list')] = sent + 1 - Len(list')
      BY <2>1, <3>3
    <3>5. queries[1] \in Nat /\ list[Len(list)] >= queries[1]
      BY <1>1, <1>n, <2>3
    <3>6. CASE Len(list) < Limit
      BY <1>0, <2>1, <3>2, <3>4, <3>5, <3>6 DEF TopRows
    <3>7. CASE Len(list) = Limit
      BY <1>0, <2>1, <3>1, <3>2, <3>4, <3>5, <3>7
    <3>8. QED
      BY <1>0, <3>1, <3>6, <3>7
  <2>4. QED
    BY <1>1, <2>1, <2>2, <2>3 DEF OrderOK
<1>3. CASE ScrollToEnd
  <2>1. list' = list /\ list # <<>> /\ queries' = Append(queries, list[Len(list)])
    BY <1>3 DEF ScrollToEnd
  <2>2. queries = <<>> /\ Len(queries) = 0
    <3>1. Len(queries) < 1
      BY <1>3 DEF ScrollToEnd
    <3>2. Len(queries) = 0
      BY <1>0, <3>1
    <3>3. QED
      BY <1>0, <3>2, EmptySeq
  <2>3. Len(list) \in 1..Len(list) /\ list[Len(list)] \in Nat
    BY <1>n, <2>1
  <2>4. Len(queries') = 1 /\ queries'[1] = list[Len(list)]
    BY <1>0, <2>1, <2>2
  <2>5. QED
    BY <1>1, <2>1, <2>3, <2>4 DEF OrderOK
<1>4. CASE PageArrives
  <2> DEFINE page == Newest(Head(queries) - 1)
  <2>1. /\ queries # <<>> /\ queries' = Tail(queries) /\ list' = list \o page
    BY <1>4 DEF PageArrives
  <2>2. Head(queries) = queries[1] /\ queries[1] \in Rows /\ Len(queries) = 1
    <3>1. 1 \in 1..Len(queries)
      BY <1>n, <2>1
    <3>2. Len(queries) \in Nat /\ Len(queries) <= 1
      BY <1>0, <1>1
    <3>3. Len(queries) = 1
      BY <3>1, <3>2
    <3>4. queries \in Seq(Rows)
      BY <1>0
    <3>5. Head(queries) = queries[1] /\ queries[1] \in Rows
      BY <3>1, <3>4
    <3>6. QED
      BY <3>3, <3>5
  <2>3. Head(queries) - 1 \in Msgs /\ queries[1] \in Nat
    BY <2>2, BoundsAssumption DEF Rows, Msgs
  <2>4. /\ page \in Seq(Rows)
        /\ \A i \in 1..Len(page) : /\ page[i] = (queries[1] - 1) + 1 - i
                                     /\ page[i] \in Nat
    <3>1. /\ page \in Seq(Rows)
          /\ \A i \in 1..Len(page) : page[i] = (queries[1] - 1) + 1 - i
      BY <2>2, <2>3, NewestRows
    <3> HIDE DEF page
    <3>2. QED
      BY <3>1, RowNumbers
  <2> HIDE DEF page
  <2>5. \A i \in 1..Len(page), j \in 1..Len(page) : i < j => page[i] > page[j]
    BY <2>3, <2>4
  <2>6. ASSUME NEW i \in 1..Len(list), NEW j \in 1..Len(page)
        PROVE  list[i] > page[j]
    <3>1. page[j] < queries[1] /\ page[j] \in Nat
      <4>1. page[j] \in Nat /\ page[j] = (queries[1] - 1) + 1 - j
        BY <2>4
      <4>2. j \in Nat /\ j # 0
        OBVIOUS
      <4>3. QED
        BY <2>3, <4>1, <4>2
    <3>2. Len(list) \in 1..Len(list) /\ list[Len(list)] \in Nat /\ list[i] \in Nat
      BY <1>1, <1>n, <2>1
    <3>3. list[i] >= list[Len(list)]
      <4>1. CASE i = Len(list)
        BY <3>2, <4>1
      <4>2. CASE i < Len(list)
        BY <1>1, <3>2, <4>2
      <4>3. QED
        BY <1>0, <4>1, <4>2
    <3>4. list[Len(list)] >= queries[1]
      BY <1>1, <2>1
    <3>5. QED
      BY <2>3, <3>1, <3>2, <3>3, <3>4
  <2>7. \A i \in 1..Len(list'), j \in 1..Len(list') : i < j => list'[i] > list'[j]
    BY <1>0, <1>1, <2>1, <2>4, <2>5, <2>6, FallingConcat
  <2>8. queries' = <<>> /\ Len(queries') = 0
    <3>1. queries' \in Seq(Rows) /\ Len(queries') = 0
      BY <1>0, <2>1, <2>2, HeadTailProperties
    <3>2. QED
      BY <3>1, EmptySeq
  <2>9. QED
    BY <2>7, <2>8 DEF OrderOK
<1>5. ASSUME NEW g \in gets, GetArrives(g)
      PROVE  OrderOK'
  <2> DEFINE d == Down(g.upto, g.after)
  <2>1. /\ g.after = last /\ last < g.upto /\ paged
        /\ g.upto \in Msgs /\ g.upto \in Nat
    BY <1>5, BoundsAssumption DEF GetArrives, Inv, GetsOK, TypeOK, Get, Msgs
  <2>2. /\ d \in Seq(Rows) /\ Len(d) = g.upto - last
        /\ \A i \in 1..Len(d) : d[i] = g.upto + 1 - i
    <3>1. last <= g.upto
      BY <1>0, <2>1
    <3>2. /\ Down(g.upto, last) \in Seq(Rows)
          /\ Len(Down(g.upto, last)) = g.upto - last
          /\ \A i \in 1..(g.upto - last) :
               Down(g.upto, last)[i] = g.upto + 1 - i
      BY <1>0, <2>1, <3>1, DownFacts
    <3>3. QED
      BY <2>1, <3>2
  <2>3. list' = d \o list /\ queries' = queries
    BY <1>5 DEF GetArrives
  <2> HIDE DEF d
  <2>4. list # <<>> /\ list[1] = last
    BY <2>1 DEF Inv, ListOK
  <2>5. \A i \in 1..Len(d), j \in 1..Len(d) : i < j => d[i] > d[j]
    BY <2>1, <2>2
  <2>6. ASSUME NEW i \in 1..Len(d), NEW j \in 1..Len(list)
        PROVE  d[i] > list[j]
    <3>1. d[i] > last /\ d[i] \in Nat
      <4>1. d[i] = g.upto + 1 - i /\ d[i] \in Nat
        BY <2>2, RowNumbers
      <4>2. i <= g.upto - last /\ i \in Int
        BY <1>0, <2>1, <2>2
      <4>3. QED
        BY <1>0, <2>1, <4>1, <4>2
    <3>2. last >= list[j] /\ list[j] \in Nat
      <4>1. CASE j = 1
        BY <1>0, <2>4, <4>1
      <4>2. CASE j > 1
        <5>1. 1 \in 1..Len(list) /\ list[j] \in Nat
          BY <1>n, <2>4
        <5>2. list[1] > list[j]
          BY <1>1, <4>2, <5>1
        <5>3. QED
          BY <1>0, <2>4, <5>1, <5>2
      <4>3. QED
        BY <1>0, <4>1, <4>2
    <3>3. QED
      BY <1>0, <3>1, <3>2
  <2>7. \A i \in 1..Len(list'), j \in 1..Len(list') : i < j => list'[i] > list'[j]
    BY <1>0, <1>1, <2>2, <2>3, <2>5, <2>6, FallingConcat
  <2>8. list'[Len(list')] = list[Len(list)]
    <3>1. Len(list) \in 1..Len(list) /\ Len(d) \in Nat
      BY <1>0, <2>2, <2>4, EmptySeq
    <3>2. /\ Len(list') = Len(d) + Len(list)
          /\ \A i \in 1..(Len(d) + Len(list)) :
               list'[i] = IF i <= Len(d) THEN d[i] ELSE list[i - Len(d)]
      BY <1>0, <2>2, <2>3, ConcatProperties
    <3>3. /\ Len(d) + Len(list) \in 1..(Len(d) + Len(list))
          /\ ~(Len(d) + Len(list) <= Len(d))
          /\ (Len(d) + Len(list)) - Len(d) = Len(list)
      BY <1>0, <3>1
    <3>4. QED
      BY <3>2, <3>3
  <2>9. QED
    BY <1>1, <2>3, <2>7, <2>8 DEF OrderOK
<1>6. CASE Arrive \/ Fire \/ UNCHANGED vars \/ \E g \in gets : GetAnswered(g)
  <2>1. UNCHANGED <<list, queries>>
    BY <1>6 DEF Arrive, Fire, ListenerFires, GetAnswered, vars
  <2>2. QED
    BY <2>1 DEF OrderOK
<1>7. QED
  BY <1>2, <1>3, <1>4, <1>5, <1>6 DEF Next, Answer

\* Pages, the stream and the listeners together show every message in its place
\* and none twice, as long as one page is asked for at a time.
THEOREM NewestFirstTheorem == Spec => []NewestFirst
<1>1. OrderOK => NewestFirst
  BY DEF OrderOK, NewestFirst
<1>2. QED
  BY <1>1, InitTop, TopStep, InitOrder, OrderStep, HistoryInvariant, PTL DEF Spec

-----------------------------------------------------------------------------
(* Where the list is torn. *)

Torn(s) == {i \in 2..Len(s) : s[i - 1] # s[i] + 1}

\* A place where the join of two lists is torn is one of the first, one of the
\* second, or the joint.
LEMMA TornConcat ==
    ASSUME NEW s \in Seq(Rows), NEW t \in Seq(Rows), NEW i \in Torn(s \o t)
    PROVE  \/ i \in Torn(s)
           \/ /\ i = Len(s) + 1 /\ Len(s) \in 1..Len(s) /\ 1 \in 1..Len(t)
              /\ s[Len(s)] # t[1] + 1
           \/ i - Len(s) \in Torn(t)
<1>1. Len(s) \in Nat /\ Len(t) \in Nat
  OBVIOUS
<1>2. /\ Len(s \o t) = Len(s) + Len(t)
      /\ \A k \in 1..(Len(s) + Len(t)) :
           (s \o t)[k] = IF k <= Len(s) THEN s[k] ELSE t[k - Len(s)]
  BY ConcatProperties
<1>3. i \in 2..(Len(s) + Len(t)) /\ (s \o t)[i - 1] # (s \o t)[i] + 1
  BY <1>2 DEF Torn
<1>4. i \in 1..(Len(s) + Len(t)) /\ i - 1 \in 1..(Len(s) + Len(t))
  BY <1>1, <1>3
<1>5. CASE i <= Len(s)
  <2>1. i \in 2..Len(s) /\ i - 1 <= Len(s)
    BY <1>1, <1>3, <1>5
  <2>2. (s \o t)[i - 1] = s[i - 1] /\ (s \o t)[i] = s[i]
    BY <1>2, <1>4, <1>5, <2>1
  <2>3. QED
    BY <1>3, <2>1, <2>2 DEF Torn
<1>6. CASE i = Len(s) + 1
  <2>1. /\ i - 1 = Len(s) /\ i - Len(s) = 1 /\ ~(i <= Len(s)) /\ i - 1 <= Len(s)
        /\ Len(s) \in 1..Len(s) /\ 1 \in 1..Len(t)
    BY <1>1, <1>3, <1>6
  <2>2. (s \o t)[i - 1] = s[Len(s)] /\ (s \o t)[i] = t[1]
    BY <1>2, <1>4, <2>1
  <2>3. QED
    BY <1>3, <1>6, <2>1, <2>2
<1>7. CASE i > Len(s) + 1
  <2>1. /\ i - Len(s) \in 2..Len(t) /\ ~(i <= Len(s)) /\ ~(i - 1 <= Len(s))
        /\ (i - 1) - Len(s) = (i - Len(s)) - 1
    BY <1>1, <1>3, <1>7
  <2>2. /\ (s \o t)[i - 1] = t[(i - Len(s)) - 1]
        /\ (s \o t)[i] = t[i - Len(s)]
    BY <1>2, <1>4, <2>1
  <2>3. QED
    BY <1>3, <2>1, <2>2 DEF Torn
<1>8. QED
  BY <1>1, <1>3, <1>5, <1>6, <1>7

\* A list that counts down is whole.
LEMMA WholeIsNotTorn ==
    ASSUME NEW s \in Seq(Rows), NEW hi \in Nat,
           \A i \in 1..Len(s) : s[i] = hi + 1 - i
    PROVE  Torn(s) = {}
<1>1. Len(s) \in Nat
  OBVIOUS
<1>2. \A i \in 2..Len(s) : s[i - 1] = s[i] + 1
  <2>1. TAKE i \in 2..Len(s)
  <2>2. i \in 1..Len(s) /\ i - 1 \in 1..Len(s)
    BY <1>1
  <2>3. s[i] = hi + 1 - i /\ s[i - 1] = hi + 1 - (i - 1)
    BY <2>2
  <2>4. QED
    BY <2>2, <2>3
<1>3. QED
  BY <1>2 DEF Torn

\* Until the first page comes the rows are a window, and whole.  From then on a
\* page under way was asked for below the row that is still the last one, so
\* that it joins the list when it comes; only the first page may not.
JoinOK ==
    MaxQueries = 1 =>
      /\ paged /\ queries # <<>> => queries[1] = list[Len(list)]
      /\ \A i \in Torn(list), j \in Torn(list) : i = j

LEMMA InitJoin == Init => JoinOK
BY DEF Init, JoinOK, Torn

\* The window is whole.
LEMMA WindowWhole ==
    ASSUME Inv, TopRows, ~paged
    PROVE  Torn(list) = {}
<1>1. list \in Seq(Rows) /\ last \in Nat /\ Len(list) <= Limit /\ Limit \in Nat
      /\ Len(list) \in Nat
  BY BoundsAssumption DEF Inv, TypeOK, ListOK, TopRows, Msgs
<1>2. \A i \in 1..Len(list) : list[i] = last + 1 - i
  BY <1>1 DEF TopRows
<1>3. QED
  BY <1>1, <1>2, WholeIsNotTorn

LEMMA JoinStep ==
    ASSUME Inv, TopRows, OrderOK, JoinOK, [Next]_vars
    PROVE  JoinOK'
<1> SUFFICES ASSUME MaxQueries = 1 PROVE JoinOK'
  BY DEF JoinOK
<1>0. /\ list \in Seq(Rows) /\ queries \in Seq(Rows)
      /\ sent \in Msgs /\ last \in Msgs /\ last <= sent
      /\ sent \in Nat /\ last \in Nat
      /\ Len(list) \in Nat /\ Len(queries) \in Nat
      /\ Len(queries) <= 1
  BY BoundsAssumption DEF Inv, TypeOK, ListOK, QueriesOK, OrderOK, Msgs
<1>1. /\ \A i \in Torn(list), j \in Torn(list) : i = j
      /\ paged /\ queries # <<>> => queries[1] = list[Len(list)]
  BY DEF JoinOK
<1>2. CASE LiveSnapshot
  <2>1. list' = Newest(sent) /\ ~paged' /\ list' \in Seq(Rows)
        /\ \A i \in 1..Len(list') : list'[i] = sent + 1 - i
    BY <1>0, <1>2, NewestRows DEF LiveSnapshot
  <2>2. Torn(list') = {}
    BY <1>0, <2>1, WholeIsNotTorn
  <2>3. QED
    BY <2>1, <2>2 DEF JoinOK, Torn
<1>3. CASE ScrollToEnd
  <2>1. list' = list /\ queries' = Append(queries, list[Len(list)])
    BY <1>3 DEF ScrollToEnd
  <2>2. queries = <<>>
    <3>1. Len(queries) < 1
      BY <1>3 DEF ScrollToEnd
    <3>2. Len(queries) = 0
      BY <1>0, <3>1
    <3>3. QED
      BY <1>0, <3>2, EmptySeq
  <2>3. queries'[1] = list'[Len(list')]
    BY <2>1, <2>2
  <2>4. QED
    BY <1>1, <2>1, <2>3 DEF JoinOK, Torn
<1>4. CASE PageArrives
  <2> DEFINE page == Newest(Head(queries) - 1)
  <2>1. queries # <<>> /\ queries' = Tail(queries) /\ list' = list \o page
    BY <1>4 DEF PageArrives
  <2>2. Head(queries) = queries[1] /\ queries[1] \in Rows /\ Len(queries) = 1
    <3>1. queries \in Seq(Rows)
      BY <1>0
    <3>2. 1 \in 1..Len(queries)
      BY <2>1, <3>1, RowNumbers
    <3>3. Len(queries) = 1
      <4>1. Len(queries) \in Nat /\ Len(queries) <= 1
        BY <1>0
      <4>2. \A n \in Nat : n <= 1 /\ 1 \in 1..n => n = 1
        OBVIOUS
      <4>3. QED
        BY <3>2, <4>1, <4>2, Zenon
    <3>4. Head(queries) = queries[1] /\ queries[1] \in Rows
      BY <3>1, <3>2
    <3>5. QED
      BY <3>3, <3>4
  <2>3. queries[1] - 1 \in Msgs /\ queries[1] - 1 \in Nat /\ queries[1] \in Nat
    BY <2>2, BoundsAssumption DEF Rows, Msgs
  <2>4. /\ page \in Seq(Rows)
        /\ \A i \in 1..Len(page) : page[i] = (queries[1] - 1) + 1 - i
    BY <2>2, <2>3, NewestRows
  <2> HIDE DEF page
  <2>5. Torn(page) = {}
    BY <2>3, <2>4, WholeIsNotTorn
  <2>6. 1 \in 1..Len(page) => page[1] + 1 = queries[1]
    BY <2>3, <2>4
  <2>7. \A i \in Torn(list') : \/ i \in Torn(list)
                               \/ ~paged /\ i = Len(list) + 1
    <3>1. TAKE i \in Torn(list')
    <3>2. \/ i \in Torn(list)
          \/ /\ i = Len(list) + 1 /\ 1 \in 1..Len(page)
             /\ list[Len(list)] # page[1] + 1
      BY <1>0, <2>1, <2>4, <2>5, TornConcat
    <3>3. QED
      BY <1>1, <2>1, <2>6, <3>2
  <2>8. ~paged => Torn(list) = {}
    BY WindowWhole
  <2>9. \A i \in Torn(list'), j \in Torn(list') : i = j
    BY <1>1, <2>7, <2>8
  <2>10. queries' = <<>>
    <3>1. queries' \in Seq(Rows) /\ Len(queries') = 0
      BY <1>0, <2>1, <2>2, HeadTailProperties
    <3>2. QED
      BY <3>1, EmptySeq
  <2>11. QED
    BY <2>9, <2>10 DEF JoinOK, Torn
<1>5. ASSUME NEW g \in gets, GetArrives(g)
      PROVE  JoinOK'
  <2> DEFINE d == Down(g.upto, g.after)
  <2>1. /\ g.after = last /\ last < g.upto /\ paged
        /\ g.upto \in Msgs /\ g.upto \in Nat
    BY <1>5, BoundsAssumption DEF GetArrives, Inv, GetsOK, TypeOK, Get, Msgs
  <2>2. /\ d \in Seq(Rows) /\ Len(d) = g.upto - last
        /\ \A i \in 1..Len(d) : d[i] = g.upto + 1 - i
    <3>1. last <= g.upto
      BY <1>0, <2>1
    <3>2. /\ Down(g.upto, last) \in Seq(Rows)
          /\ Len(Down(g.upto, last)) = g.upto - last
          /\ \A i \in 1..(g.upto - last) :
               Down(g.upto, last)[i] = g.upto + 1 - i
      BY <1>0, <2>1, <3>1, DownFacts
    <3>3. QED
      BY <2>1, <3>2
  <2>3. list' = d \o list /\ queries' = queries
    BY <1>5 DEF GetArrives
  <2> HIDE DEF d
  <2>4. list # <<>> /\ list[1] = last
    BY <2>1 DEF Inv, ListOK
  <2>5. Torn(d) = {}
    BY <2>1, <2>2, WholeIsNotTorn
  <2>6. d[Len(d)] = list[1] + 1
    <3>1. Len(d) \in 1..Len(d)
      BY <1>0, <2>1, <2>2
    <3>2. d[Len(d)] = g.upto + 1 - (g.upto - last)
      BY <2>2, <3>1
    <3>3. QED
      BY <1>0, <2>1, <2>4, <3>2
  <2>7. \A i \in Torn(list') : i - Len(d) \in Torn(list) /\ i \in Int
    <3>1. TAKE i \in Torn(list')
    <3>2. i \in Int
      BY DEF Torn
    <3>3. i - Len(d) \in Torn(list)
      BY <1>0, <2>2, <2>3, <2>5, <2>6, TornConcat
    <3>4. QED
      BY <3>2, <3>3
  <2>8. \A i \in Torn(list'), j \in Torn(list') : i = j
    <3>1. Len(d) \in Int
      BY <1>0, <2>1, <2>2
    <3>2. QED
      BY <1>1, <2>7, <3>1
  <2>9. list'[Len(list')] = list[Len(list)]
    <3>1. Len(list) \in 1..Len(list) /\ Len(d) \in Nat
      BY <1>0, <2>2, <2>4, EmptySeq
    <3>2. /\ Len(list') = Len(d) + Len(list)
          /\ \A i \in 1..(Len(d) + Len(list)) :
               list'[i] = IF i <= Len(d) THEN d[i] ELSE list[i - Len(d)]
      BY <1>0, <2>2, <2>3, ConcatProperties
    <3>3. /\ Len(d) + Len(list) \in 1..(Len(d) + Len(list))
          /\ ~(Len(d) + Len(list) <= Len(d))
          /\ (Len(d) + Len(list)) - Len(d) = Len(list)
      BY <1>0, <3>1
    <3>4. QED
      BY <3>2, <3>3
  <2>10. QED
    BY <1>1, <2>1, <2>3, <2>8, <2>9 DEF JoinOK, Torn
<1>6. CASE Arrive \/ Fire \/ UNCHANGED vars \/ \E g \in gets : GetAnswered(g)
  <2>1. UNCHANGED <<list, queries, paged>>
    BY <1>6 DEF Arrive, Fire, ListenerFires, GetAnswered, vars
  <2>2. QED
    BY <2>1 DEF JoinOK, Torn
<1>7. QED
  BY <1>2, <1>3, <1>4, <1>5, <1>6 DEF Next, Answer

\* With one page query at a time the screen leaves out one stretch of messages at
\* most: all pages but the first, and all answers, join the rows they meet.
THEOREM TornTheorem == Spec => []TornOnce
<1>1. JoinOK => TornOnce
  BY DEF JoinOK, TornOnce, Torn
<1>2. QED
  BY <1>1, InitTop, TopStep, InitOrder, OrderStep, InitJoin, JoinStep,
     HistoryInvariant, PTL DEF Spec

-----------------------------------------------------------------------------
(* A missed message comes with the next report. *)

\* No listener has reported what was not sent.
SeenSent == \A i \in 1..Len(seen) : seen[i] <= sent

LEMMA SeenSentStep == Inv /\ SeenSent /\ [Next]_vars => SeenSent'
<1> SUFFICES ASSUME Inv, SeenSent, [Next]_vars PROVE SeenSent'
  OBVIOUS
<1>0. sent \in Nat /\ seen \in Seq(Msgs) /\ \A i \in 1..Len(seen) : seen[i] \in Nat
  BY BoundsAssumption DEF Inv, TypeOK, Msgs
<1>1. CASE Arrive
  BY <1>0, <1>1 DEF Arrive, SeenSent
<1>2. CASE PageArrives
  <2>1. /\ Len(seen') = Len(seen) + 1 /\ seen'[Len(seen) + 1] = 0
        /\ \A i \in 1..Len(seen) : seen'[i] = seen[i]
    BY <1>0, <1>2 DEF PageArrives
  <2>2. QED
    BY <1>0, <1>2, <2>1 DEF PageArrives, SeenSent
<1>3. CASE Fire
  <2>1. PICK i \in 1..Len(seen) : ListenerFires(i)
    BY <1>3 DEF Fire
  <2>2. seen' = [seen EXCEPT ![i] = sent] /\ sent' = sent
    BY <2>1 DEF ListenerFires
  <2>3. Len(seen') = Len(seen)
        /\ \A j \in 1..Len(seen) : seen'[j] = IF j = i THEN sent ELSE seen[j]
    BY <1>0, <2>2
  <2>4. QED
    BY <1>0, <2>2, <2>3 DEF SeenSent
<1>4. CASE LiveSnapshot \/ ScrollToEnd \/ Answer \/ UNCHANGED vars
  BY <1>4 DEF LiveSnapshot, ScrollToEnd, Answer, GetAnswered, GetArrives, vars,
     SeenSent
<1>5. QED
  BY <1>1, <1>2, <1>3, <1>4 DEF Next

\* The three stages on the way of a message to the list: a listener has still to
\* report, the server has still to answer, the answer has still to arrive.
ToReport(m) ==
    /\ paged /\ gets = {} /\ last < m /\ m <= sent
    /\ \E i \in 1..Len(seen) : seen[i] # sent
ToAnswer(m) == m <= sent /\ \E g \in gets : g.upto = 0 /\ g.after < m
ToArrive(m) == \E g \in gets : g.after < m /\ m <= g.upto

\* While a message waits to be reported the first report asks for it, and all
\* that can happen before is another message or another page.
LEMMA ReportAsks ==
    ASSUME Inv, SeenSent, [Next]_vars, NEW m \in 1..MaxMsgs, ToReport(m)
    PROVE  /\ Fire => ToAnswer(m)'
           /\ ToReport(m)' \/ Fire
<1>0. /\ sent \in Nat /\ last \in Nat /\ templast \in Nat /\ m \in Nat
      /\ seen \in Seq(Msgs) /\ \A i \in 1..Len(seen) : seen[i] \in Nat
  BY BoundsAssumption DEF Inv, TypeOK, Msgs
<1>1. paged /\ gets = {} /\ last < m /\ m <= sent
  BY DEF ToReport
<1>2. PICK k \in 1..Len(seen) : seen[k] # sent
  BY DEF ToReport
<1>3. ASSUME Fire PROVE ToAnswer(m)'
  <2>1. PICK i \in 1..Len(seen) : ListenerFires(i)
    BY <1>3 DEF Fire
  <2>2. last # sent /\ sent' = sent
    BY <1>0, <1>1, <2>1 DEF ListenerFires
  <2>3. last # templast
    <3>1. list # <<>> /\ list[1] = last /\ list \in Seq(Rows)
      BY <1>1 DEF Inv, ListOK
    <3>2. last # 0
      BY <3>1, EmptySeq DEF Rows
    <3>3. templast = 0 \/ templast < last
      BY <1>1 DEF Inv, GetsOK
    <3>4. QED
      BY <1>0, <3>2, <3>3
  <2>4. [after |-> last, upto |-> 0] \in gets'
    BY <2>1, <2>2, <2>3 DEF ListenerFires, NewMessageListener
  <2>5. QED
    BY <1>1, <2>2, <2>4 DEF ToAnswer
<1>4. ASSUME ~Fire PROVE ToReport(m)'
  <2>1. CASE Arrive
    <3>1. seen[k] # sent + 1
      BY <1>0 DEF SeenSent
    <3>2. QED
      BY <1>0, <1>1, <2>1, <3>1 DEF Arrive, ToReport
  <2>2. CASE PageArrives
    <3>1. k \in 1..Len(seen') /\ seen'[k] = seen[k]
      BY <1>0, <2>2 DEF PageArrives
    <3>2. QED
      BY <1>1, <1>2, <2>2, <3>1 DEF PageArrives, ToReport
  <2>3. CASE ScrollToEnd \/ UNCHANGED vars
    BY <1>1, <1>2, <2>3 DEF ScrollToEnd, vars, ToReport
  <2>4. QED
    BY <1>1, <1>4, <2>1, <2>2, <2>3 DEF Next, LiveSnapshot, Answer
<1>5. QED
  BY <1>3, <1>4

\* The server's answer holds every message sent by then.
LEMMA AnswerHolds ==
    ASSUME Inv, [Next]_vars, NEW m \in 1..MaxMsgs, ToAnswer(m)
    PROVE  IF Answer THEN ToArrive(m)' ELSE ToAnswer(m)'
<1>0. sent \in Nat /\ m \in Nat
  BY BoundsAssumption DEF Inv, TypeOK, Msgs
<1>1. m <= sent
  BY DEF ToAnswer
<1>2. PICK g \in gets : g.upto = 0 /\ g.after < m
  BY DEF ToAnswer
<1>3. \A h \in gets : h = g
  BY DEF Inv, SoleGet
<1>4. g \in Get
  BY DEF Inv, TypeOK
<1>5. ASSUME Answer PROVE ToArrive(m)'
  <2>1. GetAnswered(g)
    BY <1>2, <1>3, <1>5 DEF Answer, GetArrives
  <2>2. [g EXCEPT !.upto = sent] \in gets'
    BY <2>1 DEF GetAnswered
  <2>3. [g EXCEPT !.upto = sent].after = g.after
        /\ [g EXCEPT !.upto = sent].upto = sent
    BY <1>4 DEF Get
  <2>4. QED
    BY <1>1, <1>2, <2>2, <2>3 DEF ToArrive
<1>6. ASSUME ~Answer PROVE ToAnswer(m)'
  <2>1. gets \subseteq gets'
    BY <1>6 DEF Next, Arrive, LiveSnapshot, ScrollToEnd, PageArrives, Fire,
       ListenerFires, NewMessageListener, vars
  <2>2. sent' = sent \/ sent' = sent + 1
    BY <1>6 DEF Next, Arrive, LiveSnapshot, ScrollToEnd, PageArrives, Fire,
       ListenerFires, vars
  <2>3. m <= sent'
    BY <1>0, <1>1, <2>2
  <2>4. QED
    BY <1>2, <2>1, <2>3 DEF ToAnswer
<1>7. QED
  BY <1>5, <1>6

\* And all of it is shown when it arrives.
LEMMA ArrivalShows ==
    ASSUME Inv, [Next]_vars, NEW m \in 1..MaxMsgs, ToArrive(m)
    PROVE  IF Answer THEN m \in Shown' ELSE ToArrive(m)'
<1>1. PICK g \in gets : g.after < m /\ m <= g.upto
  BY DEF ToArrive
<1>2. g \in Get /\ m \in Nat /\ g.after \in Msgs /\ g.upto \in Msgs
      /\ g.after \in Nat /\ g.upto \in Nat /\ g.upto # 0
  BY <1>1, BoundsAssumption DEF Inv, TypeOK, Get, Msgs
<1>3. \A h \in gets : h = g
  BY DEF Inv, SoleGet
<1>4. ASSUME Answer PROVE m \in Shown'
  <2> DEFINE d == Down(g.upto, g.after)
  <2>1. GetArrives(g)
    BY <1>2, <1>3, <1>4 DEF Answer, GetAnswered
  <2>2. list' = d \o list
    BY <2>1 DEF GetArrives
  <2>3. /\ d \in Seq(Rows) /\ Len(d) = g.upto - g.after
        /\ \A i \in 1..(g.upto - g.after) : d[i] = g.upto + 1 - i
    BY <1>1, <1>2, DownFacts
  <2>4. list \in Seq(Rows)
    BY DEF Inv, ListOK
  <2> HIDE DEF d
  <2>5. /\ Len(d \o list) = Len(d) + Len(list) /\ Len(list) \in Nat
        /\ \A i \in 1..Len(d) : (d \o list)[i] = d[i]
    <3>1. Len(d) \in Nat /\ Len(list) \in Nat
      BY <2>3, <2>4
    <3>2. /\ Len(d \o list) = Len(d) + Len(list)
          /\ \A i \in 1..(Len(d) + Len(list)) :
               (d \o list)[i] = IF i <= Len(d) THEN d[i] ELSE list[i - Len(d)]
      BY <2>3, <2>4, ConcatProperties
    <3>3. QED
      BY <3>1, <3>2
  <2> DEFINE i == g.upto + 1 - m
  <2>6. i \in 1..Len(d) /\ g.upto + 1 - i = m
    <3>1. \A p, q, k \in Nat : q < k /\ k <= p
            => p + 1 - k \in 1..(p - q) /\ p + 1 - (p + 1 - k) = k
      OBVIOUS
    <3>2. QED
      BY <1>1, <1>2, <2>3, <3>1
  <2>7. d[i] = m /\ i \in 1..Len(d \o list)
    BY <1>2, <2>3, <2>5, <2>6
  <2>8. QED
    BY <2>2, <2>5, <2>6, <2>7 DEF Shown
<1>5. ASSUME ~Answer PROVE ToArrive(m)'
  <2>1. gets \subseteq gets'
    BY <1>5 DEF Next, Arrive, LiveSnapshot, ScrollToEnd, PageArrives, Fire,
       ListenerFires, NewMessageListener, vars
  <2>2. QED
    BY <1>1, <2>1 DEF ToArrive
<1>6. QED
  BY <1>4, <1>5

\* One message, from the report to the list.
LEMMA MessageComes ==
    ASSUME NEW m \in 1..MaxMsgs
    PROVE  []Inv /\ []SeenSent /\ [][Next]_vars
           /\ ListenersReport /\ QueriesAnswered
           => (ToReport(m) ~> m \in Shown)
<1>1. Inv /\ SeenSent /\ ToReport(m) /\ [Next]_vars
        => ToReport(m)' \/ ToAnswer(m)'
  BY ReportAsks
<1>2. Inv /\ SeenSent /\ ToReport(m) /\ <<Fire>>_vars => ToAnswer(m)'
  BY ReportAsks DEF Next
<1>3. Inv /\ ToReport(m) => Unreported
  BY BoundsAssumption DEF ToReport, Unreported, Inv, TypeOK, Msgs
<1>4. Inv /\ ToAnswer(m) /\ [Next]_vars => ToAnswer(m)' \/ ToArrive(m)'
  BY AnswerHolds
<1>5. Inv /\ ToAnswer(m) /\ <<Answer>>_vars => ToArrive(m)'
  BY AnswerHolds DEF Next
<1>6. Inv /\ ToArrive(m) /\ [Next]_vars => ToArrive(m)' \/ (m \in Shown)'
  BY ArrivalShows
<1>7. Inv /\ ToArrive(m) /\ <<Answer>>_vars => (m \in Shown)'
  BY ArrivalShows DEF Next
<1>8. ToAnswer(m) \/ ToArrive(m) => ~(gets = {})
  BY DEF ToAnswer, ToArrive
<1>9. QED
  BY <1>1, <1>2, <1>3, <1>4, <1>5, <1>6, <1>7, <1>8, PTL
     DEF ListenersReport, QueriesAnswered

\* The report of any later message brings along what was missed, whatever pages,
\* further messages and dropped reports come in between.
THEOREM MissedTheorem == FairSpec => MissedMessageComesWithNext
<1>1. Init => SeenSent
  BY DEF Init, SeenSent
<1>2. Spec => []Inv /\ []SeenSent /\ [][Next]_vars
  BY <1>1, SeenSentStep, InitInv, InvStep, PTL DEF Spec
<1>3. FairSpec => \A m \in 1..MaxMsgs : ToReport(m) ~> m \in Shown
  BY <1>2, MessageComes DEF FairSpec
<1>4. QED
  BY <1>3 DEF MissedMessageComesWithNext, ToReport
=============================================================================
