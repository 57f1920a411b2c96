--------------------------- MODULE FeedSwipeProofs ---------------------------
(***************************************************************************)
(* What is proved of FeedSwipe, for any number of swipes, cards, filters   *)
(* and calls.  The shared object sendSwipe always holds the last swipe     *)
(* made, which is why a post cannot mix two swipes or go back to an older  *)
(* one; and while one getFeeds is under way at most and nothing was bought *)
(* there are no cards under the finger that its answer could replace.      *)
(***************************************************************************)
EXTENDS FeedSwipe, FiniteSetTheorems, TLAPS

-----------------------------------------------------------------------------
(* Types. *)

\* A card on its way out belongs to a list that is there, and there is room for
\* its swipe.
DragOK == drag # NoDrag => cards # <<>> /\ Len(made) < MaxSwipes

\* Once a swipe was made there is a pair to post.
SendOK == made # <<>> => sendSwipe \in Pair

TypeInv == TypeOK /\ DragOK /\ SendOK

\* A record of a swipe keeps its type when its call moves on.
LEMMA SwipeMoves ==
    ASSUME made \in Seq(Swipe), NEW i \in 1..Len(made), NEW b \in BOOLEAN,
           NEW p \in {"post", "answer", "refused", "done", "failed"}
    PROVE  /\ [made EXCEPT ![i].pc = p] \in Seq(Swipe)
           /\ Len([made EXCEPT ![i].pc = p]) = Len(made)
           /\ [made EXCEPT ![i].pc = p, ![i].next = b] \in Seq(Swipe)
           /\ Len([made EXCEPT ![i].pc = p, ![i].next = b]) = Len(made)
<1>0. made[i] \in Swipe
  OBVIOUS
<1>1. \A s \in Swipe : /\ [s EXCEPT !.pc = p] \in Swipe
                       /\ [s EXCEPT !.pc = p, !.next = b] \in Swipe
  BY DEF Swipe
<1>2. [made EXCEPT ![i].pc = p] = [made EXCEPT ![i] = [made[i] EXCEPT !.pc = p]]
  OBVIOUS
<1>3. [made EXCEPT ![i].pc = p, ![i].next = b]
        = [made EXCEPT ![i] = [made[i] EXCEPT !.pc = p, !.next = b]]
  OBVIOUS
<1>4. \A s \in Swipe : /\ [made EXCEPT ![i] = s] \in Seq(Swipe)
                       /\ Len([made EXCEPT ![i] = s]) = Len(made)
  OBVIOUS
<1>5. /\ [made[i] EXCEPT !.pc = p] \in Swipe
      /\ [made[i] EXCEPT !.pc = p, !.next = b] \in Swipe
  BY <1>0, <1>1, Zenon
<1>6. /\ [made EXCEPT ![i] = [made[i] EXCEPT !.pc = p]] \in Seq(Swipe)
      /\ Len([made EXCEPT ![i] = [made[i] EXCEPT !.pc = p]]) = Len(made)
  BY <1>4, <1>5, Zenon
<1>7. /\ [made EXCEPT ![i] = [made[i] EXCEPT !.pc = p, !.next = b]] \in Seq(Swipe)
      /\ Len([made EXCEPT ![i] = [made[i] EXCEPT !.pc = p, !.next = b]])
           = Len(made)
  BY <1>4, <1>5, Zenon
<1>8. QED
  BY <1>2, <1>3, <1>6, <1>7, Zenon

\* So does the record of a call of getFeeds.
LEMMA AskMoves ==
    ASSUME ask \in [Asks -> Ask], NEW a \in Asks,
           NEW p \in {"connect", "post", "answer", "done", "offline"},
           NEW f \in Filters, NEW list \in Seq(People), NEW b \in BOOLEAN
    PROVE  /\ [ask EXCEPT ![a].pc = p] \in [Asks -> Ask]
           /\ [ask EXCEPT ![a].pc = p, ![a].filter = f] \in [Asks -> Ask]
           /\ [ask EXCEPT ![a].pc = p, ![a].list = list, ![a].next = b]
                \in [Asks -> Ask]
<1>1. [ask EXCEPT ![a].pc = p] \in [Asks -> Ask]
  BY DEF Ask
<1>2. [ask EXCEPT ![a].pc = p, ![a].filter = f] \in [Asks -> Ask]
  <2>1. \A k \in Ask : [k EXCEPT !.pc = p, !.filter = f] \in Ask
    BY DEF Ask
  <2>2. [ask EXCEPT ![a].pc = p, ![a].filter = f] =
        [ask EXCEPT ![a] = [ask[a] EXCEPT !.pc = p, !.filter = f]]
    BY DEF Ask
  <2>3. QED
    BY <2>1, <2>2
<1>3. [ask EXCEPT ![a].pc = p, ![a].list = list, ![a].next = b]
        \in [Asks -> Ask]
  <2>1. \A k \in Ask : [k EXCEPT !.pc = p, !.list = list, !.next = b] \in Ask
    BY DEF Ask
  <2>2. [ask EXCEPT ![a].pc = p, ![a].list = list, ![a].next = b] =
        [ask EXCEPT ![a] = [ask[a] EXCEPT !.pc = p, !.list = list, !.next = b]]
    BY DEF Ask
  <2>3. QED
    BY <2>1, <2>2
<1>4. QED
  BY <1>1, <1>2, <1>3

\* The callback of a card that is gone makes a swipe of the right type.
LEMMA CompleteType ==
    ASSUME TypeInv, SwipeComplete
    PROVE  TypeInv'
<1>0. /\ cards \in Seq(People) /\ cards # <<>> /\ front \in Nat
      /\ front < Len(cards) /\ drag \in Drag
      /\ made \in Seq(Swipe)
  BY DEF TypeInv, TypeOK, DragOK, SwipeComplete
<1>1. cards[front + 1] \in People
  BY <1>0
<1>2. drag.user \in People /\ drag.swipe \in Directions
  BY <1>0 DEF Drag
<1>3. [receiver |-> cards[front + 1], swipe |-> drag.swipe, seen |-> drag.user,
       pc |-> "connect", next |-> FALSE] \in Swipe
  BY <1>1, <1>2 DEF Swipe
<1>4. made' \in Seq(Swipe) /\ Len(made') = Len(made) + 1
  BY <1>0, <1>3 DEF SwipeComplete
<1>5. sendSwipe' \in Pair
  BY <1>1, <1>2 DEF SwipeComplete, Pair
<1>6. cards' \in Seq(People) /\ front' \in Nat
        /\ (cards' # <<>> => front' < Len(cards'))
  BY <1>0 DEF SwipeComplete
<1>7. QED
  BY <1>4, <1>5, <1>6, BoundsAssumption
     DEF SwipeComplete, TypeInv, TypeOK, DragOK, SendOK

LEMMA SwipesLeftType == \A n \in Nat : SwipesLeft(n) \in BOOLEAN
BY DEF SwipesLeft

\* A step of getFeeds.
LEMMA AskType ==
    ASSUME TypeInv, NEW a \in Asks, AskStep(a)
    PROVE  TypeInv'
<1>0. /\ ask \in [Asks -> Ask] /\ ask[a] \in Ask /\ filter \in Filters
      /\ faults \in 0..MaxFaults
      /\ ask[a].filter \in Filters /\ ask[a].list \in Seq(People)
      /\ ask[a].next \in BOOLEAN
      /\ <<>> \in Seq(People)
  BY DEF TypeInv, TypeOK, Ask
<1>1. CASE AskConnected(a)
  <2>1. ask' \in [Asks -> Ask]
    BY <1>0, <1>1, AskMoves DEF AskConnected
  <2>2. QED
    BY <1>1, <2>1 DEF AskConnected, TypeInv, TypeOK, DragOK, SendOK
<1>2. CASE AskOffline(a)
  <2>1. ask' \in [Asks -> Ask]
    BY <1>0, <1>2, AskMoves DEF AskOffline
  <2>2. faults' \in 0..MaxFaults
    BY <1>0, <1>2, BoundsAssumption DEF AskOffline, Fault
  <2>3. QED
    BY <1>2, <2>1, <2>2 DEF AskOffline, TypeInv, TypeOK, DragOK, SendOK
<1>3. CASE AskServed(a)
  <2>1. PICK list \in Found[ask[a].filter] :
          ask' = [ask EXCEPT ![a].pc = "answer", ![a].list = list,
                             ![a].next = SwipesLeft(Len(posted))]
    BY <1>3 DEF AskServed
  <2>2. list \in Seq(People)
    BY <1>0, FilterAssumption
  <2>3. SwipesLeft(Len(posted)) \in BOOLEAN
    BY SwipesLeftType DEF TypeInv, TypeOK
  <2>4. \A b \in BOOLEAN :
          [ask EXCEPT ![a].pc = "answer", ![a].list = list, ![a].next = b]
            \in [Asks -> Ask]
    BY <1>0, <2>2 DEF Ask
  <2>5. ask' \in [Asks -> Ask]
    BY <2>1, <2>3, <2>4, Zenon
  <2>6. QED
    BY <1>3, <2>5 DEF AskServed, TypeInv, TypeOK, DragOK, SendOK
<1>4. CASE AskRefused(a)
  <2>1. ask' \in [Asks -> Ask]
    BY <1>0, <1>4, AskMoves DEF AskRefused
  <2>2. faults' \in 0..MaxFaults
    BY <1>0, <1>4, BoundsAssumption DEF AskRefused, Fault
  <2>3. QED
    BY <1>4, <2>1, <2>2 DEF AskRefused, TypeInv, TypeOK, DragOK, SendOK
<1>5. CASE AskAnswered(a)
  <2>1. ask' \in [Asks -> Ask]
    BY <1>0, <1>5, AskMoves DEF AskAnswered
  <2>2. cards' \in Seq(People) /\ front' \in Nat
          /\ (cards' # <<>> => front' < Len(cards'))
    BY <1>0, <1>5 DEF AskAnswered, TypeInv, TypeOK
  <2>3. isNext' \in BOOLEAN /\ isLoading' \in BOOLEAN
    BY <1>0, <1>5 DEF AskAnswered
  <2>4. drag' \in Drag \union {NoDrag} /\ DragOK'
    BY <1>0, <1>5 DEF AskAnswered, TypeInv, TypeOK, DragOK
  <2>5. QED
    BY <1>5, <2>1, <2>2, <2>3, <2>4 DEF AskAnswered, TypeInv, TypeOK, SendOK
<1>6. CASE AskFails(a)
  <2>1. ask' \in [Asks -> Ask]
    BY <1>0, <1>6, AskMoves DEF AskFails
  <2>2. faults' \in 0..MaxFaults
    BY <1>0, <1>6, BoundsAssumption DEF AskFails, Fault
  <2>3. QED
    BY <1>6, <2>1, <2>2 DEF AskFails, TypeInv, TypeOK, DragOK, SendOK
<1>7. QED
  BY <1>1, <1>2, <1>3, <1>4, <1>5, <1>6 DEF AskStep

\* A step of feedSwipe.
LEMMA SwipeType ==
    ASSUME TypeInv, NEW i \in 1..Len(made), SwipeStep(i)
    PROVE  TypeInv'
<1>0. /\ made \in Seq(Swipe) /\ Len(made) <= MaxSwipes /\ made # <<>>
      /\ sendSwipe \in Pair /\ posted \in Seq(Pair)
      /\ faults \in 0..MaxFaults
  BY DEF TypeInv, TypeOK, SendOK
<1>1. CASE SwipeConnected(i)
  <2>1. made' \in Seq(Swipe) /\ Len(made') = Len(made)
    BY <1>0, <1>1, SwipeMoves DEF SwipeConnected, Move
  <2>2. QED
    BY <1>0, <1>1, <2>1 DEF SwipeConnected, TypeInv, TypeOK, DragOK, SendOK
<1>2. CASE SwipePosted(i)
  <2>1. posted' \in Seq(Pair)
    BY <1>0, <1>2 DEF SwipePosted
  <2>2. made' = [made EXCEPT ![i].pc = "answer",
                             ![i].next = SwipesLeft(Len(posted'))]
    BY <1>2 DEF SwipePosted
  <2>3. SwipesLeft(Len(posted')) \in BOOLEAN
    BY <2>1, SwipesLeftType
  <2>4. \A c \in BOOLEAN :
          /\ [made EXCEPT ![i].pc = "answer", ![i].next = c] \in Seq(Swipe)
          /\ Len([made EXCEPT ![i].pc = "answer", ![i].next = c]) = Len(made)
    BY <1>0, SwipeMoves
  <2>5. made' \in Seq(Swipe) /\ Len(made') = Len(made)
    BY <2>2, <2>3, <2>4, Zenon
  <2>6. QED
    BY <1>0, <1>2, <2>1, <2>5 DEF SwipePosted, TypeInv, TypeOK, DragOK, SendOK
<1>3. CASE SwipeRefused(i)
  <2>1. made' \in Seq(Swipe) /\ Len(made') = Len(made)
    BY <1>0, <1>3, SwipeMoves DEF SwipeRefused
  <2>2. faults' \in 0..MaxFaults
    BY <1>0, <1>3, BoundsAssumption DEF SwipeRefused, Fault
  <2>3. QED
    BY <1>0, <1>3, <2>1, <2>2
       DEF SwipeRefused, TypeInv, TypeOK, DragOK, SendOK
<1>4. CASE SwipeAnswered(i)
  <2>1. made' \in Seq(Swipe) /\ Len(made') = Len(made)
    BY <1>0, <1>4, SwipeMoves DEF SwipeAnswered, Move
  <2>2. made[i] \in Swipe
    BY <1>0
  <2>3. isNext' \in BOOLEAN
    BY <1>4, <2>2 DEF SwipeAnswered, Swipe
  <2>4. premium' \in 0..MaxPremium
    BY <1>4, BoundsAssumption DEF SwipeAnswered, TypeInv, TypeOK
  <2>5. QED
    BY <1>0, <1>4, <2>1, <2>3, <2>4
       DEF SwipeAnswered, TypeInv, TypeOK, DragOK, SendOK
<1>5. CASE SwipeFails(i)
  <2>1. made' \in Seq(Swipe) /\ Len(made') = Len(made)
    BY <1>0, <1>5, SwipeMoves DEF SwipeFails
  <2>2. faults' \in 0..MaxFaults
    BY <1>0, <1>5, BoundsAssumption DEF SwipeFails, Fault
  <2>3. QED
    BY <1>0, <1>5, <2>1, <2>2
       DEF SwipeFails, TypeInv, TypeOK, DragOK, SendOK
<1>6. QED
  BY <1>1, <1>2, <1>3, <1>4, <1>5 DEF SwipeStep

LEMMA InitType == Init => TypeInv
<1> SUFFICES ASSUME Init PROVE TypeInv
  OBVIOUS
<1>1. <<>> \in Seq(People) /\ <<>> \in Seq(Swipe) /\ <<>> \in Seq(Pair)
  OBVIOUS
<1>2. ask \in [Asks -> Ask]
  BY <1>1, FilterAssumption DEF Init, Ask
<1>3. Len(made) <= MaxSwipes /\ 0 \in 0..MaxPremium /\ 0 \in 0..MaxFaults
  BY BoundsAssumption DEF Init
<1>4. QED
  BY <1>1, <1>2, <1>3, FilterAssumption
     DEF Init, TypeInv, TypeOK, DragOK, SendOK

LEMMA NextType ==
    ASSUME TypeInv, [Next]_vars
    PROVE  TypeInv'
<1>1. ASSUME NEW a \in Asks, StartAsk(a) PROVE ask' \in [Asks -> Ask]
  BY <1>1, AskMoves DEF StartAsk, TypeInv, TypeOK
<1>2. CASE \E a \in Asks, f \in Filters : ApplyFilter(a, f)
  <2>1. PICK a \in Asks, f \in Filters : ApplyFilter(a, f)
    BY <1>2
  <2>2. ask' \in [Asks -> Ask]
    BY <2>1, <1>1 DEF ApplyFilter
  <2>3. QED
    BY <2>1, <2>2
       DEF ApplyFilter, StartAsk, TypeInv, TypeOK, DragOK, SendOK
<1>3. CASE \E a \in Asks : PremiumBought(a)
  <2>1. PICK a \in Asks : PremiumBought(a)
    BY <1>3
  <2>2. ask' \in [Asks -> Ask]
    BY <2>1, <1>1 DEF PremiumBought
  <2>3. premium' \in 0..MaxPremium /\ isLoading' \in BOOLEAN
    BY <2>1, BoundsAssumption DEF PremiumBought, StartAsk, TypeInv, TypeOK
  <2>4. QED
    BY <2>1, <2>2, <2>3 DEF PremiumBought, TypeInv, TypeOK, DragOK, SendOK
<1>4. CASE \E dir \in Directions : LetGo(dir)
  BY <1>4 DEF LetGo, TypeInv, TypeOK, DragOK, SendOK, Drag
<1>5. CASE UpgradeTapped \/ PremiumLeft
  <2>1. premium' \in 0..MaxPremium
    BY <1>5, BoundsAssumption DEF UpgradeTapped, PremiumLeft, TypeInv, TypeOK
  <2>2. UNCHANGED <<filter, cards, front, drag, isLoading, isNext, ask, sendSwipe,
                    made, posted, prime, faults>>
    BY <1>5 DEF UpgradeTapped, PremiumLeft
  <2>3. QED
    BY <2>1, <2>2 DEF TypeInv, TypeOK, DragOK, SendOK
<1>6. CASE UNCHANGED vars
  BY <1>6 DEF vars, TypeInv, TypeOK, DragOK, SendOK
<1>7. QED
  BY <1>2, <1>3, <1>4, <1>5, <1>6, AskType, SwipeType, CompleteType DEF Next

\* The types of the feed's state hold in every reachable state; above all the
\* stack's front card is one of the list's whatever answer replaced it.
THEOREM FeedTypes == Spec => []TypeOK
<1>1. TypeInv => TypeOK
  BY DEF TypeInv
<1>2. QED
  BY InitType, NextType, <1>1, PTL DEF Spec

-----------------------------------------------------------------------------
(* What is posted. *)

\* The shared object holds the last swipe made.
SharedOK == made # <<>> => sendSwipe = PairOf(Len(made))

\* No post gives one user the direction of another swipe.
PairsNotMixed ==
    \A n \in 1..Len(posted) : \E i \in 1..Len(made) : posted[n] = PairOf(i)

\* A swipe that was posted is at the backend, or a later one in its place.
RecordedOrOvertaken ==
    \A i \in 1..Len(made) :
      made[i].pc = "answer" =>
        \E n \in 1..Len(posted), j \in i..Len(made) : posted[n] = PairOf(j)

PairInv == SharedOK /\ PairsNotMixed /\ RecordedOrOvertaken

\* The swipes stay what they were, and none is newly posted.
SwipesKept ==
    /\ Len(made') = Len(made)
    /\ \A j \in 1..Len(made) :
         /\ made'[j].receiver = made[j].receiver
         /\ made'[j].swipe = made[j].swipe
         /\ made'[j].pc = "answer" => made[j].pc = "answer"

LEMMA KeptPairs ==
    ASSUME made \in Seq(Swipe), made' \in Seq(Swipe), PairInv, SwipesKept,
           UNCHANGED <<sendSwipe, posted>>
    PROVE  PairInv'
<1>1. \A j \in 1..Len(made) : PairOf(j)' = PairOf(j)
  BY DEF PairOf, SwipesKept
<1>2. SharedOK'
  BY <1>1 DEF SharedOK, PairInv, SwipesKept
<1>3. PairsNotMixed'
  BY <1>1 DEF PairsNotMixed, PairInv, SwipesKept
<1>4. RecordedOrOvertaken'
  <2>1. SUFFICES ASSUME NEW k \in 1..Len(made), made'[k].pc = "answer"
                 PROVE  \E n \in 1..Len(posted), j \in k..Len(made) :
                          posted[n] = PairOf(j)'
    BY DEF RecordedOrOvertaken, SwipesKept
  <2>2. PICK n \in 1..Len(posted), j \in k..Len(made) : posted[n] = PairOf(j)
    BY <2>1 DEF PairInv, RecordedOrOvertaken, SwipesKept
  <2>3. j \in 1..Len(made)
    BY <2>2
  <2>4. QED
    BY <1>1, <2>2, <2>3
<1>5. QED
  BY <1>2, <1>3, <1>4 DEF PairInv

\* A swipe's post appends the last pair, which stands for its own or a later one.
LEMMA PostedPairs ==
    ASSUME TypeInv, PairInv, NEW i \in 1..Len(made), SwipePosted(i)
    PROVE  PairInv'
<1>0. made \in Seq(Swipe) /\ posted \in Seq(Pair) /\ sendSwipe \in Pair
  BY DEF TypeInv, TypeOK, SendOK
<1>1. /\ Len(made') = Len(made)
      /\ \A j \in 1..Len(made) : made'[j].receiver = made[j].receiver
                                 /\ made'[j].swipe = made[j].swipe
  BY <1>0 DEF SwipePosted, Swipe
<1>2. \A j \in 1..Len(made) : PairOf(j)' = PairOf(j)
  BY <1>1 DEF PairOf
<1>3. /\ Len(posted') = Len(posted) + 1
      /\ posted'[Len(posted) + 1] = sendSwipe
      /\ \A n \in 1..Len(posted) : posted'[n] = posted[n]
  BY <1>0 DEF SwipePosted
<1>4. sendSwipe = PairOf(Len(made)) /\ Len(made) \in 1..Len(made)
  BY <1>0 DEF PairInv, SharedOK
<1>5. SharedOK'
  BY <1>0, <1>1, <1>2, <1>4 DEF SharedOK, SwipePosted
<1>6. PairsNotMixed'
  <2>1. SUFFICES ASSUME NEW n \in 1..Len(posted) + 1
                 PROVE  \E j \in 1..Len(made) : posted'[n] = PairOf(j)'
    BY <1>1, <1>3 DEF PairsNotMixed
  <2>2. CASE n \in 1..Len(posted)
    BY <1>2, <1>3, <2>2 DEF PairInv, PairsNotMixed
  <2>3. CASE n = Len(posted) + 1
    BY <1>2, <1>3, <1>4, <2>3
  <2>4. QED
    BY <1>0, <2>2, <2>3
<1>7. RecordedOrOvertaken'
  <2>1. SUFFICES ASSUME NEW k \in 1..Len(made)
                 PROVE  \E n \in 1..Len(posted) + 1, j \in k..Len(made) :
                          posted'[n] = PairOf(j)'
    BY <1>1, <1>3 DEF RecordedOrOvertaken
  <2>2. Len(made) \in k..Len(made) /\ Len(posted) + 1 \in 1..Len(posted) + 1
    BY <1>0
  <2>3. QED
    BY <1>2, <1>3, <1>4, <2>2
<1>8. QED
  BY <1>5, <1>6, <1>7 DEF PairInv

\* A new swipe is the last one, and not posted yet.
LEMMA CompletePairs ==
    ASSUME TypeInv, PairInv, SwipeComplete
    PROVE  PairInv'
<1>0. made \in Seq(Swipe) /\ made' \in Seq(Swipe) /\ posted \in Seq(Pair)
  BY CompleteType DEF TypeInv, TypeOK
<1>1. PICK s : /\ made' = Append(made, s) /\ s.pc = "connect"
               /\ sendSwipe' = [receiver |-> s.receiver, swipe |-> s.swipe]
  BY DEF SwipeComplete
<1>2. /\ Len(made') = Len(made) + 1 /\ made'[Len(made) + 1] = s
      /\ \A j \in 1..Len(made) : made'[j] = made[j]
  BY <1>0, <1>1
<1>3. \A j \in 1..Len(made) : PairOf(j)' = PairOf(j)
  BY <1>2 DEF PairOf
<1>4. posted' = posted
  BY DEF SwipeComplete
<1>5. SharedOK'
  BY <1>1, <1>2 DEF SharedOK, PairOf
<1>6. PairsNotMixed'
  <2>1. 1..Len(made) \subseteq 1..Len(made')
    BY <1>0, <1>2
  <2>2. \A n \in 1..Len(posted) : \E i \in 1..Len(made) : posted[n] = PairOf(i)
    BY DEF PairInv, PairsNotMixed
  <2>3. \A n \in 1..Len(posted) : \E i \in 1..Len(made) : posted[n] = PairOf(i)'
    BY <1>3, <2>2
  <2>4. \A n \in 1..Len(posted) : \E i \in 1..Len(made') : posted[n] = PairOf(i)'
    BY <2>1, <2>3
  <2>5. QED
    BY <1>4, <2>4 DEF PairsNotMixed
<1>7. RecordedOrOvertaken'
  <2>1. SUFFICES ASSUME NEW k \in 1..Len(made) + 1, made'[k].pc = "answer"
                 PROVE  \E n \in 1..Len(posted), j \in k..(Len(made) + 1) :
                          posted[n] = PairOf(j)'
    BY <1>2, <1>4 DEF RecordedOrOvertaken
  <2>2. k \in 1..Len(made) /\ made[k].pc = "answer"
    BY <1>0, <1>1, <1>2, <2>1
  <2>3. PICK n \in 1..Len(posted), j \in k..Len(made) : posted[n] = PairOf(j)
    BY <2>2 DEF PairInv, RecordedOrOvertaken
  <2>4. j \in 1..Len(made) /\ j \in k..(Len(made) + 1)
    BY <1>0, <2>2, <2>3
  <2>5. QED
    BY <1>3, <2>3, <2>4
<1>8. QED
  BY <1>5, <1>6, <1>7 DEF PairInv

LEMMA NextPairs ==
    ASSUME TypeInv, PairInv, [Next]_vars
    PROVE  PairInv'
<1>0. /\ made \in Seq(Swipe) /\ made' \in Seq(Swipe)
  BY NextType DEF TypeInv, TypeOK
<1>1. ASSUME UNCHANGED <<made, sendSwipe, posted>> PROVE PairInv'
  BY <1>0, <1>1, KeptPairs DEF SwipesKept
<1>2. CASE \E i \in 1..Len(made) : SwipeStep(i)
  <2>1. PICK i \in 1..Len(made) : SwipeStep(i)
    BY <1>2
  <2>2. CASE SwipePosted(i)
    BY <2>2, PostedPairs
  <2>3. CASE SwipeConnected(i) \/ SwipeRefused(i) \/ SwipeAnswered(i)
               \/ SwipeFails(i)
    <3>1. SwipesKept
      <4>1. \A j \in 1..Len(made) : made[j] \in Swipe
        BY <1>0
      <4>2. CASE SwipeConnected(i)
        BY <1>0, <4>1, <4>2 DEF SwipesKept, Swipe, SwipeConnected, Move
      <4>3. CASE SwipeRefused(i)
        BY <1>0, <4>1, <4>3 DEF SwipesKept, Swipe, SwipeRefused
      <4>4. CASE SwipeAnswered(i)
        BY <1>0, <4>1, <4>4 DEF SwipesKept, Swipe, SwipeAnswered, Move
      <4>5. CASE SwipeFails(i)
        BY <1>0, <4>1, <4>5 DEF SwipesKept, Swipe, SwipeFails
      <4>6. QED
        BY <2>3, <4>2, <4>3, <4>4, <4>5
    <3>2. UNCHANGED <<sendSwipe, posted>>
      BY <2>3 DEF SwipeConnected, SwipeRefused, SwipeAnswered, SwipeFails
    <3>3. QED
      BY <1>0, <3>1, <3>2, KeptPairs
  <2>4. QED
    BY <2>1, <2>2, <2>3 DEF SwipeStep
<1>3. CASE \E a \in Asks : AskStep(a) \/ PremiumBought(a)
  BY <1>1, <1>3
     DEF AskStep, AskConnected, AskOffline, AskServed, AskRefused, AskAnswered,
         AskFails, PremiumBought
<1>4. CASE \/ \E a \in Asks, f \in Filters : ApplyFilter(a, f)
           \/ \E dir \in Directions : LetGo(dir)
           \/ UpgradeTapped \/ PremiumLeft \/ UNCHANGED vars
  BY <1>1, <1>4 DEF ApplyFilter, LetGo, UpgradeTapped, PremiumLeft, vars
<1>5. QED
  BY <1>2, <1>3, <1>4, CompletePairs DEF Next

LEMMA InitPairs == Init => PairInv
BY DEF Init, PairInv, SharedOK, PairsNotMixed, RecordedOrOvertaken

\* However many calls of feedSwipe are under way and whatever fails, no post
\* mixes two swipes.
THEOREM PairTheorem == Spec => []PairsNotMixed
<1>1. PairInv => PairsNotMixed
  BY DEF PairInv
<1>2. QED
  BY InitType, NextType, InitPairs, NextPairs, <1>1, PTL DEF Spec

\* And a swipe whose post was taken is on record, or one made after it.
THEOREM RecordTheorem == Spec => []RecordedOrOvertaken
<1>1. PairInv => RecordedOrOvertaken
  BY DEF PairInv
<1>2. QED
  BY InitType, NextType, InitPairs, NextPairs, <1>1, PTL DEF Spec

-----------------------------------------------------------------------------
(* FeedSwipe implements SwipeLog. *)

\* What the log sees of a step that moves the call of one swipe on.
LEMMA StageMoves ==
    ASSUME made \in Seq(Swipe), NEW i \in 1..Len(made), NEW r, NEW pc, r.pc = pc,
           made' = [made EXCEPT ![i] = r],
           r.receiver = made[i].receiver, r.swipe = made[i].swipe
    PROVE  /\ swipesOf' = swipesOf
           /\ stageOf' = [stageOf EXCEPT ![i] = StageOf(pc)]
<1>1. Len(made') = Len(made) /\ Len(made) \in Nat
  OBVIOUS
<1>2. \A j \in 1..Len(made) : made'[j] = IF j = i THEN r ELSE made[j]
  OBVIOUS
<1>3. swipesOf' = swipesOf
  BY <1>1, <1>2 DEF swipesOf, PairOf
<1>4. stageOf' = [stageOf EXCEPT ![i] = StageOf(pc)]
  <2>1. \A j \in 1..Len(made) : StageOf(made'[j].pc) =
                                   IF j = i THEN StageOf(pc) ELSE stageOf[j]
    <3>1. TAKE j \in 1..Len(made)
    <3>2. CASE j = i
      BY <1>2, <3>2
    <3>3. CASE j # i
      BY <1>2, <3>3 DEF stageOf
    <3>4. QED
      BY <3>2, <3>3
  <2>2. stageOf' = [j \in 1..Len(made) |-> StageOf(made'[j].pc)]
    BY <1>1 DEF stageOf
  <2>3. DOMAIN stageOf = 1..Len(made)
    BY DEF stageOf
  <2>4. QED
    BY <2>1, <2>2, <2>3
<1>5. QED
  BY <1>3, <1>4

\* Every step of the feed is one of the log's or does not show in it.
LEMMA LogStep ==
    ASSUME TypeInv, PairInv, [Next]_vars
    PROVE  [Log!Step]_(Log!lvars)
<1>0. /\ made \in Seq(Swipe) /\ Len(made) \in Nat
      /\ \A i \in 1..Len(made) : made[i] \in Swipe
      /\ posted \in Seq(Pair)
  BY DEF TypeInv, TypeOK
<1>1. CASE UNCHANGED <<made, posted>>
  BY <1>1 DEF Log!lvars, swipesOf, stageOf, PairOf
<1>2. CASE SwipeComplete
  <2>1. PICK s : /\ made' = Append(made, s) /\ s.pc = "connect"
                 /\ sendSwipe' = [receiver |-> s.receiver, swipe |-> s.swipe]
    BY <1>2 DEF SwipeComplete
  <2>2. /\ Len(made') = Len(made) + 1 /\ made'[Len(made) + 1] = s
        /\ \A j \in 1..Len(made) : made'[j] = made[j]
    BY <1>0, <2>1
  <2>3. sendSwipe' \in Pair
    <3>1. made' # <<>>
      BY <1>0, <2>2
    <3>2. QED
      BY <1>2, <3>1, CompleteType DEF TypeInv, SendOK
  <2>4. swipesOf' = Append(swipesOf, sendSwipe')
    BY <1>0, <2>1, <2>2 DEF swipesOf, PairOf
  <2>5. stageOf' = Append(stageOf, "waiting")
    BY <1>0, <2>1, <2>2 DEF stageOf, StageOf
  <2>6. posted' = posted
    BY <1>2 DEF SwipeComplete
  <2>7. Log!Make
    BY <2>3, <2>4, <2>5, <2>6 DEF Log!Make
  <2>8. QED
    BY <2>7 DEF Log!Step
<1>3. ASSUME NEW i \in 1..Len(made), SwipeStep(i)
      PROVE  [Log!Step]_(Log!lvars)
  <2>0. made[i] \in Swipe /\ Len(stageOf) = Len(made)
        /\ stageOf[i] = StageOf(made[i].pc)
    BY <1>0 DEF stageOf
  <2>1. CASE SwipeConnected(i)
    <3> DEFINE r == [made[i] EXCEPT !.pc = "post"]
    <3>1. /\ made[i].pc = "connect" /\ made' = [made EXCEPT ![i] = r]
          /\ r.pc = "post" /\ r.receiver = made[i].receiver
          /\ r.swipe = made[i].swipe /\ posted' = posted
      BY <2>0, <2>1 DEF SwipeConnected, Move, Swipe
    <3>2. /\ swipesOf' = swipesOf
          /\ stageOf' = [stageOf EXCEPT ![i] = StageOf("post")]
      BY <1>0, <3>1, StageMoves
    <3>3. stageOf[i] = StageOf("post")
      BY <2>0, <3>1 DEF StageOf
    <3>4. stageOf' = stageOf
      BY <3>2, <3>3 DEF stageOf
    <3>5. QED
      BY <3>1, <3>2, <3>4 DEF Log!lvars
  <2>2. CASE SwipePosted(i)
    <3> DEFINE r == [made[i] EXCEPT !.pc = "answer",
                                    !.next = SwipesLeft(Len(posted'))]
    <3>1. /\ made[i].pc = "post" /\ made' = [made EXCEPT ![i] = r]
          /\ r.pc = "answer" /\ r.receiver = made[i].receiver
          /\ r.swipe = made[i].swipe /\ posted' = Append(posted, sendSwipe)
      BY <2>0, <2>2 DEF SwipePosted, Swipe
    <3>2. /\ swipesOf' = swipesOf
          /\ stageOf' = [stageOf EXCEPT ![i] = StageOf("answer")]
      BY <1>0, <3>1, StageMoves
    <3>3. stageOf[i] = "waiting" /\ StageOf("answer") = "told"
      BY <2>0, <3>1 DEF StageOf
    <3>4. Len(swipesOf) = Len(made) /\ swipesOf[Len(made)] = PairOf(Len(made))
      BY <1>0 DEF swipesOf
    <3>5. sendSwipe = swipesOf[Len(swipesOf)]
      BY <1>0, <3>4 DEF PairInv, SharedOK
    <3>6. Log!Tell(i)
      BY <3>1, <3>2, <3>3, <3>5 DEF Log!Tell
    <3>7. QED
      BY <2>0, <3>6 DEF Log!Step
  <2>3. CASE SwipeRefused(i) \/ SwipeFails(i)
    <3>1. PICK r : /\ made' = [made EXCEPT ![i] = r]
                   /\ r.pc \in {"refused", "failed"}
                   /\ r.receiver = made[i].receiver /\ r.swipe = made[i].swipe
      <4> DEFINE refused == [made[i] EXCEPT !.pc = "refused", !.next = FALSE]
                 failed == [made[i] EXCEPT !.pc = "failed"]
      <4>1. CASE SwipeRefused(i)
        <5>1. /\ made' = [made EXCEPT ![i] = refused] /\ refused.pc = "refused"
              /\ refused.receiver = made[i].receiver
              /\ refused.swipe = made[i].swipe
          BY <2>0, <4>1 DEF SwipeRefused, Swipe
        <5>2. QED
          BY <5>1
      <4>2. CASE SwipeFails(i)
        <5>1. /\ made' = [made EXCEPT ![i] = failed] /\ failed.pc = "failed"
              /\ failed.receiver = made[i].receiver
              /\ failed.swipe = made[i].swipe
          BY <2>0, <4>2 DEF SwipeFails, Swipe
        <5>2. QED
          BY <5>1
      <4>3. QED
        BY <2>3, <4>1, <4>2
    <3>2. /\ swipesOf' = swipesOf
          /\ stageOf' = [stageOf EXCEPT ![i] = StageOf(r.pc)]
      BY <1>0, <3>1, StageMoves
    <3>3. StageOf(r.pc) = "over"
      BY <3>1 DEF StageOf
    <3>4. posted' = posted
      BY <2>3 DEF SwipeRefused, SwipeFails
    <3>5. CASE stageOf[i] # "over"
      <4>1. Log!End(i)
        BY <3>2, <3>3, <3>4, <3>5 DEF Log!End
      <4>2. QED
        BY <2>0, <4>1 DEF Log!Step
    <3>6. CASE stageOf[i] = "over"
      <4>1. stageOf' = stageOf
        BY <3>2, <3>3, <3>6 DEF stageOf
      <4>2. QED
        BY <3>2, <3>4, <4>1 DEF Log!lvars
    <3>7. QED
      BY <3>5, <3>6
  <2>4. CASE SwipeAnswered(i)
    <3> DEFINE r == [made[i] EXCEPT !.pc = "done"]
    <3>1. /\ made[i].pc \in {"answer", "refused"}
          /\ made' = [made EXCEPT ![i] = r]
          /\ r.pc = "done" /\ r.receiver = made[i].receiver
          /\ r.swipe = made[i].swipe /\ posted' = posted
      BY <2>0, <2>4 DEF SwipeAnswered, Move, Swipe
    <3>2. /\ swipesOf' = swipesOf
          /\ stageOf' = [stageOf EXCEPT ![i] = StageOf("done")]
      BY <1>0, <3>1, StageMoves
    <3>3. StageOf("done") = "over"
      BY DEF StageOf
    <3>4. CASE made[i].pc = "answer"
      <4>1. stageOf[i] # "over"
        BY <2>0, <3>4 DEF StageOf
      <4>2. Log!End(i)
        BY <3>1, <3>2, <3>3, <4>1 DEF Log!End
      <4>3. QED
        BY <2>0, <4>2 DEF Log!Step
    <3>5. CASE made[i].pc = "refused"
      <4>1. stageOf[i] = "over"
        BY <2>0, <3>5 DEF StageOf
      <4>2. stageOf' = stageOf
        BY <3>2, <3>3, <4>1 DEF stageOf
      <4>3. QED
        BY <3>1, <3>2, <4>2 DEF Log!lvars
    <3>6. QED
      BY <3>1, <3>4, <3>5
  <2>5. QED
    BY <1>3, <2>1, <2>2, <2>3, <2>4 DEF SwipeStep
<1>4. QED
  BY <1>1, <1>2, <1>3
     DEF Next, AskStep, AskConnected, AskOffline, AskServed, AskRefused,
         AskAnswered, AskFails, PremiumBought, ApplyFilter, LetGo,
         UpgradeTapped, PremiumLeft, vars

\* The feed keeps the promise of SwipeLog: each swipe is told once at most, and
\* what is told is the newest swipe, however many calls share the object.
THEOREM LogTheorem == Spec => KeepsTheLog
<1>1. Init => Log!Begin
  <2> SUFFICES ASSUME Init PROVE Log!Begin
    OBVIOUS
  <2>1. Len(made) = 0 /\ posted = <<>>
    BY DEF Init
  <2>2. swipesOf = <<>> /\ stageOf = <<>>
    BY <2>1 DEF swipesOf, stageOf
  <2>3. QED
    BY <2>1, <2>2 DEF Log!Begin
<1>2. QED
  BY InitType, NextType, InitPairs, NextPairs, <1>1, LogStep, PTL
     DEF Spec, KeepsTheLog, Log!Promise

-----------------------------------------------------------------------------
(* What is seen. *)

\* One getFeeds is under way at most; as long as nothing was bought there are no
\* cards while it is, and the card under the finger is the one that was grabbed.
SeenOK ==
    MaxAsks = 1 =>
      /\ \A a, b \in Asking : a = b
      /\ ~prime =>
           /\ Asking # {} => cards = <<>>
           /\ drag # NoDrag => drag.user = cards[front + 1]
           /\ \A i \in 1..Len(made) : made[i].receiver = made[i].seen

\* getFeeds begins when none is under way.
LEMMA AskBegins ==
    ASSUME TypeInv, MaxAsks = 1, NEW a \in Asks, StartAsk(a)
    PROVE  Asking' = {a}
<1>1. ask \in [Asks -> Ask] /\ IsFiniteSet(Asking)
  BY AskAssumption, FS_Subset DEF TypeInv, TypeOK, Asking
<1>2. Cardinality(Asking) \in Nat /\ (Cardinality(Asking) = 0 <=> Asking = {})
  BY <1>1, FS_CardinalityType, FS_EmptySet
<1>3. Asking = {}
  BY <1>2 DEF StartAsk
<1>4. QED
  BY <1>1, <1>3 DEF StartAsk, Asking, Ask

\* It stays under way until it is answered, fails or finds no network.
LEMMA AskGoes ==
    ASSUME TypeInv, NEW a \in Asks, AskStep(a)
    PROVE  /\ a \in Asking /\ Asking' \subseteq Asking
           /\ AskAnswered(a) \/ AskFails(a) => a \notin Asking'
<1>1. ask \in [Asks -> Ask] /\ \A b \in Asks : ask[b] \in Ask
  BY DEF TypeInv, TypeOK
<1>2. a \in Asking
  BY DEF Asking, AskStep, AskConnected, AskOffline, AskServed, AskRefused,
         AskAnswered, AskFails
<1>3. \A b \in Asks \ {a} : ask'[b] = ask[b]
  BY <1>1 DEF AskStep, AskConnected, AskOffline, AskServed, AskRefused,
         AskAnswered, AskFails
<1>4. AskAnswered(a) \/ AskFails(a) => ask'[a].pc = "done"
  BY <1>1 DEF AskAnswered, AskFails, Ask
<1>5. QED
  BY <1>2, <1>3, <1>4 DEF Asking

LEMMA SeenUntouched ==
    ASSUME SeenOK, UNCHANGED <<cards, front, drag, made, prime>>,
           Asking' \subseteq Asking
    PROVE  SeenOK'
BY DEF SeenOK

LEMMA NextSeen ==
    ASSUME TypeInv, SeenOK, [Next]_vars
    PROVE  SeenOK'
<1>0. SUFFICES ASSUME MaxAsks = 1 PROVE SeenOK'
  BY DEF SeenOK
<1>1. made \in Seq(Swipe) /\ \A i \in 1..Len(made) : made[i] \in Swipe
  BY DEF TypeInv, TypeOK
<1>2. ASSUME UNCHANGED ask PROVE Asking' = Asking
  BY <1>2 DEF Asking
<1>3. CASE \E a \in Asks : AskStep(a)
  <2>1. PICK a \in Asks : AskStep(a)
    BY <1>3
  <2>2. a \in Asking /\ Asking' \subseteq Asking
    BY <2>1, AskGoes
  <2>3. CASE AskAnswered(a)
    <3>1. Asking' = {}
      BY <1>0, <2>1, <2>2, <2>3, AskGoes DEF SeenOK
    <3>2. ~prime => cards = <<>> /\ drag = NoDrag
      BY <1>0, <2>2 DEF SeenOK, TypeInv, DragOK
    <3>3. QED
      BY <1>0, <2>3, <3>1, <3>2 DEF SeenOK, AskAnswered
  <2>4. CASE ~AskAnswered(a)
    <3>1. UNCHANGED <<cards, front, drag, made, prime>>
      BY <2>1, <2>4 DEF AskStep, AskConnected, AskOffline, AskServed,
         AskRefused, AskFails
    <3>2. QED
      BY <2>2, <3>1, SeenUntouched
  <2>5. QED
    BY <2>3, <2>4
<1>4. CASE \E a \in Asks, f \in Filters : ApplyFilter(a, f)
  <2>1. PICK a \in Asks, f \in Filters : ApplyFilter(a, f)
    BY <1>4
  <2>2. Asking' = {a}
    BY <1>0, <2>1, AskBegins DEF ApplyFilter
  <2>3. QED
    BY <1>0, <2>1, <2>2 DEF SeenOK, ApplyFilter
<1>5. CASE \E a \in Asks : PremiumBought(a)
  <2>1. PICK a \in Asks : PremiumBought(a)
    BY <1>5
  <2>2. Asking' = {a} /\ prime'
    BY <1>0, <2>1, AskBegins DEF PremiumBought
  <2>3. QED
    BY <2>2 DEF SeenOK
<1>6. CASE \E i \in 1..Len(made) : SwipeStep(i)
  <2>1. PICK i \in 1..Len(made) : SwipeStep(i)
    BY <1>6
  <2>2. UNCHANGED <<cards, front, drag, prime, ask>>
    BY <2>1 DEF SwipeStep, SwipeConnected, SwipePosted, SwipeRefused,
         SwipeAnswered, SwipeFails
  <2>3. /\ Len(made') = Len(made)
        /\ \A j \in 1..Len(made) : /\ made'[j].receiver = made[j].receiver
                                   /\ made'[j].seen = made[j].seen
    <3>1. CASE SwipeConnected(i)
      BY <1>1, <3>1 DEF Swipe, SwipeConnected, Move
    <3>2. CASE SwipePosted(i)
      BY <1>1, <3>2 DEF Swipe, SwipePosted
    <3>3. CASE SwipeRefused(i)
      BY <1>1, <3>3 DEF Swipe, SwipeRefused
    <3>4. CASE SwipeAnswered(i)
      BY <1>1, <3>4 DEF Swipe, SwipeAnswered, Move
    <3>5. CASE SwipeFails(i)
      BY <1>1, <3>5 DEF Swipe, SwipeFails
    <3>6. QED
      BY <2>1, <3>1, <3>2, <3>3, <3>4, <3>5 DEF SwipeStep
  <2>4. QED
    BY <1>2, <2>2, <2>3 DEF SeenOK
<1>7. CASE SwipeComplete
  <2>1. Asking' = Asking
    BY <1>2, <1>7 DEF SwipeComplete
  <2>2. PICK s : /\ made' = Append(made, s)
                 /\ s.receiver = cards[front + 1] /\ s.seen = drag.user
    BY <1>7 DEF SwipeComplete
  <2>3. /\ Len(made') = Len(made) + 1 /\ made'[Len(made) + 1] = s
        /\ \A j \in 1..Len(made) : made'[j] = made[j]
    BY <1>1, <2>2
  <2>4. cards # <<>> /\ drag # NoDrag /\ drag' = NoDrag /\ prime' = prime
    BY <1>7 DEF TypeInv, DragOK, SwipeComplete
  <2>5. ~prime => Asking = {} /\ drag.user = cards[front + 1]
    BY <1>0, <2>4 DEF SeenOK
  <2>6. QED
    BY <1>0, <1>1, <2>1, <2>2, <2>3, <2>4, <2>5 DEF SeenOK
<1>8. CASE \E dir \in Directions : LetGo(dir)
  <2>1. Asking' = Asking
    BY <1>2, <1>8 DEF LetGo
  <2>2. drag'.user = cards[front + 1]
    BY <1>8 DEF LetGo
  <2>3. QED
    BY <1>8, <2>1, <2>2 DEF SeenOK, LetGo
<1>9. CASE UpgradeTapped \/ PremiumLeft \/ UNCHANGED vars
  BY <1>2, <1>9, SeenUntouched DEF UpgradeTapped, PremiumLeft, vars
<1>10. QED
  BY <1>3, <1>4, <1>5, <1>6, <1>7, <1>8, <1>9 DEF Next

LEMMA InitSeen == Init => SeenOK
<1> SUFFICES ASSUME Init PROVE SeenOK
  OBVIOUS
<1>1. Asking = {FirstAsk}
  BY AskAssumption DEF Init, Asking
<1>2. QED
  BY <1>1 DEF Init, SeenOK

\* Before a purchase, with one getFeeds at a time, the swipe that is recorded is
\* about the card the user saw, for any lists the backend finds.
THEOREM SeenTheorem == Spec => []SwipedIsSeen
<1>1. SeenOK => SwipedIsSeen
  BY DEF SeenOK, SwipedIsSeen
<1>2. QED
  BY InitType, NextType, InitSeen, NextSeen, <1>1, PTL DEF Spec

-----------------------------------------------------------------------------
(* The limit of the day. *)

\* The calls of getFeeds after the first that are over, and what they allow.
Late == {a \in Asks : ask[a].pc = "done"} \ {FirstAsk}
Allowed == FreeSwipes + faults + Cardinality(Late)

\* A swipe may still be posted.
Pending ==
    \/ drag # NoDrag
    \/ isNext /\ Calling = {}
    \/ \E i \in Calling : made[i].pc \in {"connect", "post"}

\* One call of feedSwipe at a time: its answer says what was true when it was
\* given, for nothing was posted since.
CallsOK ==
    /\ \A i, j \in Calling : i = j
    /\ drag # NoDrag => Calling = {}
    /\ \A i \in Calling : made[i].next =>
          made[i].pc = "answer" /\ Len(posted) < FreeSwipes

\* Until the first list is there nothing can be swiped.
Opening ==
    /\ posted = <<>> /\ made = <<>> /\ cards = <<>> /\ drag = NoDrag
    /\ ask[FirstAsk].next => 0 < FreeSwipes + faults

\* From then on a swipe that may still be posted has room.
RoomOK == Len(posted) <= Allowed /\ (Pending => Len(posted) < Allowed)

LimitInv ==
    /\ ask[FirstAsk].pc # "unused"
    /\ MaxAtOnce = 1 /\ MaxAsks = 1 /\ ~prime =>
         /\ CallsOK
         /\ IF FirstAsk \in Asking THEN Opening ELSE RoomOK

LEMMA InitLimit == Init => LimitInv
<1> SUFFICES ASSUME Init
             PROVE  /\ ask[FirstAsk].pc # "unused"
                    /\ CallsOK /\ FirstAsk \in Asking /\ Opening
  BY DEF LimitInv
<1>1. Len(made) = 0 /\ Calling = {}
  BY DEF Init, Calling
<1>2. ask[FirstAsk].pc = "connect" /\ ask[FirstAsk].next = FALSE
  BY AskAssumption DEF Init
<1>3. FirstAsk \in Asking /\ ask[FirstAsk].pc # "unused"
  BY <1>2, AskAssumption DEF Asking
<1>4. CallsOK
  BY <1>1 DEF CallsOK
<1>5. Opening
  BY <1>2 DEF Init, Opening
<1>6. QED
  BY <1>3, <1>4, <1>5

LEMMA SumType == \A x, y \in Nat : x + y \in Nat
OBVIOUS

\* What is over stays over.
LEMMA LateGrows ==
    ASSUME TypeInv, [Next]_vars
    PROVE  /\ Late \subseteq Late' /\ faults \in Nat /\ faults' \in Nat
           /\ faults <= faults'
<1>0. ask \in [Asks -> Ask] /\ faults \in Nat
  BY BoundsAssumption DEF TypeInv, TypeOK
<1>1. ASSUME NEW a \in Asks, ask[a].pc = "done" PROVE ask'[a].pc = "done"
  <2>1. ASSUME NEW b \in Asks, StartAsk(b) PROVE ask'[a].pc = "done"
    BY <1>0, <1>1, <2>1 DEF StartAsk
  <2>2. ASSUME NEW b \in Asks, AskStep(b) PROVE ask'[a].pc = "done"
    BY <1>0, <1>1, <2>2 DEF AskStep, AskConnected, AskOffline, AskServed,
       AskRefused, AskAnswered, AskFails
  <2>3. CASE UNCHANGED ask
    BY <1>1, <2>3
  <2>4. QED
    BY <2>1, <2>2, <2>3
       DEF Next, ApplyFilter, PremiumBought, LetGo, SwipeComplete, SwipeStep,
           SwipeConnected, SwipePosted, SwipeRefused, SwipeAnswered, SwipeFails,
           UpgradeTapped, PremiumLeft, vars
<1>2. faults' = faults \/ faults' = faults + 1
  BY DEF Next, ApplyFilter, PremiumBought, LetGo, SwipeComplete, SwipeStep,
         SwipeConnected, SwipePosted, SwipeRefused, SwipeAnswered, SwipeFails,
         UpgradeTapped, PremiumLeft, vars, AskStep, AskConnected, AskOffline,
         AskServed, AskRefused, AskAnswered, AskFails, Fault
<1>3. QED
  BY <1>0, <1>1, <1>2 DEF Late

\* A fault and an answer each allow one swipe more.
LEMMA AllowedGrows ==
    ASSUME Late \subseteq Late', faults \in Nat, faults' \in Nat,
           faults <= faults'
    PROVE  /\ Allowed \in Nat /\ Allowed' \in Nat /\ Allowed <= Allowed'
           /\ FreeSwipes + faults <= Allowed
           /\ faults < faults' \/ Late # Late' => Allowed < Allowed'
<1> DEFINE c == Cardinality(Late)
           d == Cardinality(Late')
<1>1. IsFiniteSet(Late) /\ IsFiniteSet(Late')
  BY AskAssumption, FS_Subset DEF Late
<1>2. c \in Nat /\ d \in Nat
  BY <1>1, FS_CardinalityType
<1>3. c <= d /\ (d = c => Late' = Late)
  BY <1>1, FS_Subset
<1>4. Allowed = FreeSwipes + faults + c /\ Allowed' = FreeSwipes + faults' + d
  BY DEF Allowed
<1>5. FreeSwipes \in Nat
  BY BoundsAssumption
<1> HIDE DEF c, d
<1>6. Late # Late' => c < d
  BY <1>2, <1>3
<1>7. \A f, m, n, x, y \in Nat :
         m <= n /\ x <= y =>
           /\ f + m + x \in Nat /\ f + m + x <= f + n + y /\ f + m <= f + m + x
           /\ m < n \/ x < y => f + m + x < f + n + y
  OBVIOUS
<1>8. /\ Allowed \in Nat /\ Allowed <= Allowed' /\ FreeSwipes + faults <= Allowed
      /\ faults < faults' \/ c < d => Allowed < Allowed'
  <2>1. /\ FreeSwipes + faults + c \in Nat
        /\ FreeSwipes + faults + c <= FreeSwipes + faults' + d
        /\ FreeSwipes + faults <= FreeSwipes + faults + c
        /\ faults < faults' \/ c < d
             => FreeSwipes + faults + c < FreeSwipes + faults' + d
    BY <1>2, <1>3, <1>5, <1>7, Zenon
  <2>2. QED
    BY <1>4, <2>1, Zenon
<1>9. Allowed' \in Nat
  <2>1. FreeSwipes + faults' + d \in Nat
    BY <1>2, <1>5, SumType, Zenon
  <2>2. QED
    BY <1>4, <2>1, Zenon
<1>10. QED
  BY <1>6, <1>8, <1>9

\* A call of feedSwipe begins when none is under way.
LEMMA NoCalls ==
    ASSUME made \in Seq(Swipe)
    PROVE  Cardinality(Calling) < 1 <=> Calling = {}
<1>1. IsFiniteSet(1..Len(made))
  BY FS_Interval
<1>2. IsFiniteSet(Calling)
  BY <1>1, FS_Subset DEF Calling
<1>3. Cardinality(Calling) \in Nat /\ (Cardinality(Calling) = 0 <=> Calling = {})
  BY <1>2, FS_CardinalityType, FS_EmptySet
<1>4. QED
  BY <1>3

\* A step that leaves the swipes alone keeps the room, and makes more of it when
\* it lets isNext be true again.
LEMMA RoomKept ==
    ASSUME TypeInv, CallsOK, RoomOK, Late \subseteq Late',
           faults \in Nat, faults' \in Nat, faults <= faults',
           UNCHANGED <<made, posted>>, drag' \in {drag, NoDrag},
           isNext' = isNext \/ Late # Late'
    PROVE  CallsOK' /\ RoomOK'
<1>1. /\ Allowed \in Nat /\ Allowed' \in Nat /\ Allowed <= Allowed'
      /\ Late # Late' => Allowed < Allowed'
  BY AllowedGrows
<1>2. Len(posted) \in Nat
  BY DEF TypeInv, TypeOK
<1>3. Calling' = Calling
  BY DEF Calling
<1>4. CallsOK'
  BY <1>3 DEF CallsOK
<1>5. Pending' => Pending \/ Late # Late'
  BY <1>3 DEF Pending
<1>6. RoomOK'
  BY <1>1, <1>2, <1>5 DEF RoomOK
<1>7. QED
  BY <1>4, <1>6

LEMMA OpeningStep ==
    ASSUME TypeInv, [Next]_vars, SeenOK, Opening, FirstAsk \in Asking,
           MaxAsks = 1, ~prime, ~prime'
    PROVE  CallsOK' /\ IF FirstAsk \in Asking' THEN Opening' ELSE RoomOK'
<1>0. /\ ask \in [Asks -> Ask] /\ FirstAsk \in Asks /\ Len(posted) = 0
      /\ made = <<>> /\ Len(made) = 0 /\ Calling = {} /\ FreeSwipes \in Nat
      /\ faults \in Nat
  BY AskAssumption, BoundsAssumption DEF Opening, Calling, TypeInv, TypeOK
<1>1. ASSUME UNCHANGED <<made, posted>>, drag' = NoDrag PROVE CallsOK'
  BY <1>0, <1>1 DEF CallsOK, Calling
<1>2. ASSUME UNCHANGED <<made, posted, cards, drag, ask, faults>>
      PROVE  CallsOK' /\ FirstAsk \in Asking' /\ Opening'
  BY <1>1, <1>2 DEF Opening, Asking
<1>3. CASE \E a \in Asks : AskStep(a)
  <2>1. AskStep(FirstAsk)
    BY <1>3, AskGoes DEF SeenOK
  <2>2. UNCHANGED <<made, posted, prime>>
    BY <2>1 DEF AskStep, AskConnected, AskOffline, AskServed, AskRefused,
       AskAnswered, AskFails
  <2>3. drag' = NoDrag
    BY <2>1 DEF AskStep, AskConnected, AskOffline, AskServed, AskRefused,
       AskAnswered, AskFails, Opening
  <2>4. CallsOK'
    BY <1>1, <2>2, <2>3
  <2>5. /\ Late \subseteq Late' /\ faults \in Nat /\ faults' \in Nat
        /\ faults <= faults'
    BY LateGrows
  <2>6. Len(posted') = 0 /\ Allowed' \in Nat /\ FreeSwipes + faults' <= Allowed'
    <3>1. faults' \in Nat
      BY <2>5
    <3>2. Late' \subseteq Asks
      BY DEF Late
    <3>3. IsFiniteSet(Late')
      BY <3>2, AskAssumption, FS_Subset
    <3>4. Cardinality(Late') \in Nat
      BY <3>3, FS_CardinalityType
    <3>5. Allowed' = FreeSwipes + faults' + Cardinality(Late')
      BY DEF Allowed
    <3>6. QED
      BY <1>0, <2>2, <3>1, <3>4, <3>5
  <2>7. ASSUME 0 < FreeSwipes + faults' \/ ~isNext' PROVE RoomOK'
    <3>1. Calling' = {}
      BY <1>0, <2>2 DEF Calling
    <3>2. Pending' => isNext'
      BY <2>3, <3>1 DEF Pending
    <3>3. CASE ~isNext'
      BY <2>6, <3>2, <3>3 DEF RoomOK
    <3>4. CASE 0 < FreeSwipes + faults'
      <4>1. 0 < Allowed'
        <5>1. FreeSwipes + faults' \in Nat
          BY <1>0, <2>5, SumType, Zenon
        <5>2. \A x, y \in Nat : 0 < x /\ x <= y => 0 < y
          OBVIOUS
        <5>3. QED
          BY <2>6, <3>4, <5>1, <5>2, Zenon
      <4>2. QED
        BY <2>6, <4>1 DEF RoomOK
    <3>5. QED
      BY <2>7, <3>3, <3>4
  <2>8. CASE AskConnected(FirstAsk) \/ AskServed(FirstAsk)
    <3>1. FirstAsk \in Asking'
      <4>1. ask'[FirstAsk].pc \in {"post", "answer"}
        <5>1. CASE AskConnected(FirstAsk)
          BY <1>0, <5>1 DEF AskConnected, Ask
        <5>2. CASE AskServed(FirstAsk)
          BY <1>0, <5>2 DEF AskServed, Ask
        <5>3. QED
          BY <2>8, <5>1, <5>2
      <4>2. QED
        BY <1>0, <4>1 DEF Asking
    <3>2. cards' = cards /\ faults' = faults
      BY <2>8 DEF AskConnected, AskServed
    <3>3. ask'[FirstAsk].next => 0 < FreeSwipes + faults
      <4>1. CASE AskConnected(FirstAsk)
        BY <1>0, <4>1 DEF AskConnected, Ask, Opening
      <4>2. CASE AskServed(FirstAsk)
        <5>1. ask'[FirstAsk].next = SwipesLeft(Len(posted))
          <6>1. PICK list \in Found[ask[FirstAsk].filter] :
                  ask' = [ask EXCEPT ![FirstAsk].pc = "answer",
                                     ![FirstAsk].list = list,
                                     ![FirstAsk].next = SwipesLeft(Len(posted))]
            BY <4>2 DEF AskServed
          <6>2. QED
            BY <1>0, <6>1 DEF Ask
        <5>2. ask'[FirstAsk].next => 0 < FreeSwipes
          BY <1>0, <5>1 DEF SwipesLeft
        <5>3. QED
          BY <1>0, <5>2
      <4>3. QED
        BY <2>8, <4>1, <4>2
    <3>4. QED
      BY <2>2, <2>3, <2>4, <3>1, <3>2, <3>3 DEF Opening
  <2>9. CASE AskRefused(FirstAsk)
    <3>1. FirstAsk \in Asking'
      BY <1>0, <2>9 DEF AskRefused, Asking, Ask
    <3>2. cards' = cards /\ faults' = faults + 1
      BY <2>9 DEF AskRefused, Fault
    <3>3. 0 < FreeSwipes + faults'
      BY <1>0, <3>2
    <3>4. QED
      BY <2>2, <2>3, <2>4, <3>1, <3>2, <3>3 DEF Opening
  <2>10. CASE AskOffline(FirstAsk) \/ AskFails(FirstAsk)
    <3>1. ask'[FirstAsk].pc \in {"offline", "done"}
      BY <1>0, <2>10 DEF AskOffline, AskFails, Ask
    <3>2. FirstAsk \notin Asking'
      BY <3>1 DEF Asking
    <3>3. faults' = faults + 1
      BY <2>10 DEF AskOffline, AskFails, Fault
    <3>4. RoomOK'
      BY <1>0, <2>7, <3>3
    <3>5. QED
      BY <2>4, <3>2, <3>4
  <2>11. CASE AskAnswered(FirstAsk)
    <3>1. FirstAsk \notin Asking'
      BY <1>0, <2>1, <2>11, AskGoes
    <3>2. isNext' = ask[FirstAsk].next /\ faults' = faults
      BY <2>11 DEF AskAnswered
    <3>3. RoomOK'
      BY <2>7, <3>2 DEF Opening
    <3>4. QED
      BY <2>4, <3>1, <3>3
  <2>12. QED
    BY <2>1, <2>8, <2>9, <2>10, <2>11 DEF AskStep
<1>4. ASSUME NEW a \in Asks, StartAsk(a) PROVE FALSE
  <2>1. IsFiniteSet(Asking)
    BY AskAssumption, FS_Subset DEF Asking
  <2>2. Cardinality(Asking) \in Nat /\ Cardinality(Asking) # 0
    BY <2>1, FS_CardinalityType, FS_EmptySet
  <2>3. Cardinality(Asking) < 1
    BY <1>4 DEF StartAsk
  <2>4. QED
    BY <2>2, <2>3
<1>5. CASE UpgradeTapped \/ PremiumLeft \/ UNCHANGED vars
  BY <1>2, <1>5 DEF UpgradeTapped, PremiumLeft, vars
<1>6. ~(\E dir \in Directions : LetGo(dir)) /\ ~SwipeComplete
      /\ ~(\E i \in 1..Len(made) : SwipeStep(i))
  BY <1>0 DEF LetGo, SwipeComplete, Opening
<1>7. QED
  BY <1>3, <1>4, <1>5, <1>6 DEF Next, ApplyFilter, PremiumBought

LEMMA RoomStep ==
    ASSUME TypeInv, [Next]_vars, CallsOK, RoomOK, FirstAsk \notin Asking,
           MaxAtOnce = 1, ~prime, ~prime'
    PROVE  CallsOK' /\ RoomOK'
<1>0. /\ made \in Seq(Swipe) /\ \A i \in 1..Len(made) : made[i] \in Swipe
      /\ posted \in Seq(Pair) /\ Len(posted) \in Nat /\ sendSwipe \in Pair \union {NoPair}
      /\ ask \in [Asks -> Ask]
  BY DEF TypeInv, TypeOK
<1>1. /\ Late \subseteq Late' /\ faults \in Nat /\ faults' \in Nat
      /\ faults <= faults'
  BY LateGrows
<1>2. /\ Allowed \in Nat /\ Allowed' \in Nat /\ Allowed <= Allowed'
      /\ FreeSwipes + faults <= Allowed
      /\ faults < faults' => Allowed < Allowed'
  BY <1>1, AllowedGrows
<1>3. CASE \E a \in Asks : AskStep(a)
  <2>1. PICK a \in Asks : AskStep(a)
    BY <1>3
  <2>2. a # FirstAsk
    BY <2>1, AskGoes
  <2>3. UNCHANGED <<made, posted>> /\ drag' \in {drag, NoDrag}
    BY <2>1 DEF AskStep, AskConnected, AskOffline, AskServed, AskRefused,
       AskAnswered, AskFails
  <2>4. CASE AskAnswered(a)
    <3>1. ask[a].pc = "answer" /\ ask'[a].pc = "done"
      BY <1>0, <2>4 DEF AskAnswered, Ask
    <3>2. Late # Late'
      BY <2>2, <3>1 DEF Late
    <3>3. QED
      BY <1>1, <2>3, <3>2, RoomKept
  <2>5. CASE ~AskAnswered(a)
    <3>1. isNext' = isNext
      BY <2>1, <2>5 DEF AskStep, AskConnected, AskOffline, AskServed,
         AskRefused, AskFails
    <3>2. QED
      BY <1>1, <2>3, <3>1, RoomKept
  <2>6. QED
    BY <2>4, <2>5
<1>4. CASE \/ \E a \in Asks, f \in Filters : ApplyFilter(a, f)
           \/ UpgradeTapped \/ PremiumLeft \/ UNCHANGED vars
  <2>1. UNCHANGED <<made, posted, isNext>> /\ drag' \in {drag, NoDrag}
    BY <1>4 DEF ApplyFilter, UpgradeTapped, PremiumLeft, vars
  <2>2. QED
    BY <1>1, <2>1, RoomKept
<1>5. CASE \E a \in Asks : PremiumBought(a)
  BY <1>5 DEF PremiumBought
<1>6. CASE \E dir \in Directions : LetGo(dir)
  <2>1. Calling = {}
    <3>1. Cardinality(Calling) < 1
      BY <1>6 DEF LetGo
    <3>2. QED
      BY <1>0, <3>1, NoCalls
  <2>2. Len(posted) < Allowed
    BY <1>6, <2>1 DEF LetGo, Pending, RoomOK
  <2>3. UNCHANGED <<made, posted>>
    BY <1>6 DEF LetGo
  <2>4. Calling' = {}
    BY <2>1, <2>3 DEF Calling
  <2>5. Len(posted') < Allowed'
    BY <1>0, <1>2, <2>2, <2>3
  <2>6. QED
    BY <1>0, <1>2, <2>3, <2>4, <2>5 DEF CallsOK, RoomOK
<1>7. CASE SwipeComplete
  <2>1. drag # NoDrag /\ Calling = {}
    BY <1>7 DEF SwipeComplete, CallsOK
  <2>2. Len(posted) < Allowed
    BY <2>1 DEF Pending, RoomOK
  <2>3. PICK s : made' = Append(made, s) /\ s.next = FALSE
    BY <1>7 DEF SwipeComplete
  <2>4. posted' = posted /\ drag' = NoDrag
    BY <1>7 DEF SwipeComplete
  <2>5. /\ Len(made') = Len(made) + 1 /\ made'[Len(made) + 1] = s
        /\ \A j \in 1..Len(made) : made'[j] = made[j]
    BY <1>0, <2>3
  <2>6. Calling' \subseteq {Len(made) + 1}
    <3>1. SUFFICES ASSUME NEW j \in 1..Len(made),
                          made'[j].pc \notin {"done", "failed"}
                   PROVE  FALSE
      BY <1>0, <2>5 DEF Calling
    <3>2. QED
      BY <2>1, <2>5, <3>1 DEF Calling
  <2>7. CallsOK'
    BY <2>3, <2>4, <2>5, <2>6 DEF CallsOK
  <2>8. QED
    BY <1>0, <1>2, <2>2, <2>4, <2>7 DEF RoomOK
<1>8. ASSUME NEW i \in 1..Len(made), SwipeStep(i)
      PROVE  CallsOK' /\ RoomOK'
  <2>1. made[i] \in Swipe /\ i \in Calling
    BY <1>0, <1>8 DEF Calling, SwipeStep, SwipeConnected, SwipePosted,
       SwipeRefused, SwipeAnswered, SwipeFails, Move
  <2>2. Calling = {i} /\ drag = NoDrag
    BY <2>1 DEF CallsOK
  <2>3. /\ Len(made') = Len(made)
        /\ \A j \in 1..Len(made) : j # i => made'[j] = made[j]
    BY <1>0, <1>8 DEF SwipeStep, SwipeConnected, SwipePosted, SwipeRefused,
       SwipeAnswered, SwipeFails, Move
  <2>4. drag' = NoDrag
    BY <1>8, <2>2 DEF SwipeStep, SwipeConnected, SwipePosted, SwipeRefused,
       SwipeAnswered, SwipeFails
  <2>5. Calling' \subseteq {i} /\ (made'[i].pc \notin {"done", "failed"}
                                     <=> Calling' = {i})
    BY <2>2, <2>3 DEF Calling
  <2>6. made[i].pc \in {"connect", "post"} => Len(posted) < Allowed
    BY <2>1 DEF Pending, RoomOK
  <2>7. CASE SwipeConnected(i)
    <3>1. made'[i].next = made[i].next /\ made[i].pc = "connect"
      BY <1>0, <2>1, <2>7 DEF SwipeConnected, Move, Swipe
    <3>2. made[i].next = FALSE
      BY <2>1, <3>1 DEF CallsOK, Swipe
    <3>3. CallsOK'
      BY <2>4, <2>5, <3>1, <3>2 DEF CallsOK
    <3>4. posted' = posted
      BY <2>7 DEF SwipeConnected
    <3>5. QED
      BY <1>0, <1>2, <2>6, <3>1, <3>3, <3>4 DEF RoomOK
  <2>8. CASE SwipePosted(i)
    <3>1. /\ made[i].pc = "post" /\ posted' = Append(posted, sendSwipe)
          /\ made'[i].pc = "answer"
          /\ made'[i].next = SwipesLeft(Len(posted'))
      BY <1>0, <2>1, <2>8 DEF SwipePosted, Swipe
    <3>2. Len(posted') = Len(posted) + 1
      BY <1>0, <3>1
    <3>3. made'[i].next => Len(posted') < FreeSwipes
      BY <3>1 DEF SwipesLeft
    <3>4. CallsOK'
      BY <2>4, <2>5, <3>1, <3>3 DEF CallsOK
    <3>5. ~Pending'
      BY <2>4, <2>5, <3>1 DEF Pending
    <3>6. Len(posted') <= Allowed'
      BY <1>0, <1>2, <2>6, <3>1, <3>2
    <3>7. QED
      BY <3>4, <3>5, <3>6 DEF RoomOK
  <2>9. CASE SwipeRefused(i)
    <3>1. made[i].pc = "post" /\ made'[i].next = FALSE /\ posted' = posted
      BY <1>0, <2>1, <2>9 DEF SwipeRefused, Swipe
    <3>2. CallsOK'
      BY <2>4, <2>5, <3>1 DEF CallsOK
    <3>3. QED
      BY <1>0, <1>2, <2>6, <3>1, <3>2 DEF RoomOK
  <2>10. CASE SwipeAnswered(i)
    <3>1. /\ made'[i].pc = "done" /\ isNext' = made[i].next /\ posted' = posted
      BY <1>0, <2>1, <2>10 DEF SwipeAnswered, Move, Swipe
    <3>2. Calling' = {}
      BY <2>5, <3>1
    <3>3. CallsOK'
      BY <3>2 DEF CallsOK
    <3>4. Pending' => isNext'
      BY <2>4, <3>2 DEF Pending
    <3>5. isNext' => Len(posted) < Allowed
      <4>1. isNext' => Len(posted) < FreeSwipes
        BY <2>1, <3>1 DEF CallsOK
      <4>2. QED
        BY <1>0, <1>1, <1>2, <4>1, BoundsAssumption
    <3>6. QED
      BY <1>0, <1>2, <3>1, <3>3, <3>4, <3>5 DEF RoomOK
  <2>11. CASE SwipeFails(i)
    <3>1. made'[i].pc = "failed" /\ posted' = posted /\ faults < faults'
      BY <1>0, <1>1, <2>1, <2>11 DEF SwipeFails, Fault, Swipe
    <3>2. Calling' = {}
      BY <2>5, <3>1
    <3>3. CallsOK'
      BY <3>2 DEF CallsOK
    <3>4. QED
      BY <1>0, <1>2, <3>1, <3>3 DEF RoomOK
  <2>12. QED
    BY <1>8, <2>7, <2>8, <2>9, <2>10, <2>11 DEF SwipeStep
<1>9. QED
  BY <1>3, <1>4, <1>5, <1>6, <1>7, <1>8 DEF Next

\* The first getFeeds has begun, and is made once.
LEMMA FirstAskOnce ==
    ASSUME TypeInv, [Next]_vars, ask[FirstAsk].pc # "unused"
    PROVE  /\ ask'[FirstAsk].pc # "unused"
           /\ FirstAsk \in Asking' => FirstAsk \in Asking
<1>0. ask \in [Asks -> Ask] /\ FirstAsk \in Asks /\ ask[FirstAsk] \in Ask
  BY AskAssumption DEF TypeInv, TypeOK
<1>1. ASSUME NEW b \in Asks, StartAsk(b) PROVE ask'[FirstAsk] = ask[FirstAsk]
  BY <1>0, <1>1 DEF StartAsk
<1>2. ASSUME NEW b \in Asks, AskStep(b)
      PROVE  \/ ask'[FirstAsk] = ask[FirstAsk]
             \/ FirstAsk \in Asking /\ ask'[FirstAsk].pc # "unused"
  <2>1. b \in Asking
    BY <1>2, AskGoes
  <2>2. \A c \in Asks : c # b => ask'[c] = ask[c]
    BY <1>0, <1>2 DEF AskStep, AskConnected, AskOffline, AskServed, AskRefused,
       AskAnswered, AskFails
  <2>3. ask'[b].pc # "unused"
    <3>1. ask[b] \in Ask
      BY <1>0
    <3>2. CASE AskServed(b)
      <4>1. PICK list \in Found[ask[b].filter] :
              ask' = [ask EXCEPT ![b].pc = "answer", ![b].list = list,
                                 ![b].next = SwipesLeft(Len(posted))]
        BY <3>2 DEF AskServed
      <4>2. QED
        BY <1>0, <3>1, <4>1 DEF Ask
    <3>3. CASE ~AskServed(b)
      BY <1>0, <1>2, <3>1, <3>3
         DEF AskStep, AskConnected, AskOffline, AskRefused, AskAnswered,
             AskFails, Ask
    <3>4. QED
      BY <3>2, <3>3
  <2>4. QED
    BY <1>0, <2>1, <2>2, <2>3
<1>3. CASE UNCHANGED ask
  BY <1>0, <1>3 DEF Asking
<1>4. QED
  BY <1>0, <1>1, <1>2, <1>3
     DEF Asking, Next, ApplyFilter, PremiumBought, LetGo, SwipeComplete,
         SwipeStep, SwipeConnected, SwipePosted, SwipeRefused, SwipeAnswered,
         SwipeFails, Move, UpgradeTapped, PremiumLeft, vars

LEMMA NextLimit ==
    ASSUME TypeInv, SeenOK, LimitInv, [Next]_vars
    PROVE  LimitInv'
<1>1. /\ ask'[FirstAsk].pc # "unused"
      /\ FirstAsk \in Asking' => FirstAsk \in Asking
  BY FirstAskOnce DEF LimitInv
<1>2. ASSUME MaxAtOnce = 1, MaxAsks = 1, ~prime'
      PROVE  CallsOK' /\ IF FirstAsk \in Asking' THEN Opening' ELSE RoomOK'
  <2>1. ~prime
    BY <1>2 DEF Next, ApplyFilter, PremiumBought, LetGo, SwipeComplete,
       SwipeStep, SwipeConnected, SwipePosted, SwipeRefused, SwipeAnswered,
       SwipeFails, UpgradeTapped, PremiumLeft, vars, AskStep, AskConnected,
       AskOffline, AskServed, AskRefused, AskAnswered, AskFails
  <2>2. CASE FirstAsk \in Asking
    BY <1>2, <2>1, <2>2, OpeningStep DEF LimitInv
  <2>3. CASE FirstAsk \notin Asking
    BY <1>1, <1>2, <2>1, <2>3, RoomStep DEF LimitInv
  <2>4. QED
    BY <2>2, <2>3
<1>3. QED
  BY <1>1, <1>2 DEF LimitInv

\* A user who swipes one card and asks for one list at a time gets no further
\* than the day's swipes, one for each list answered late and one for each fault.
THEOREM LimitTheorem == Spec => []DailyLimitKept
<1>1. ASSUME TypeInv, LimitInv PROVE DailyLimitKept
  <2>1. SUFFICES ASSUME MaxAtOnce = 1, MaxAsks = 1, ~prime
                 PROVE  Len(posted) <= Allowed
    BY DEF DailyLimitKept, Allowed, Late
  <2>2. CASE FirstAsk \notin Asking
    BY <1>1, <2>1, <2>2 DEF LimitInv, RoomOK
  <2>3. CASE FirstAsk \in Asking
    <3>1. Len(posted) = 0
      BY <1>1, <2>1, <2>3 DEF LimitInv, Opening
    <3>2. IsFiniteSet(Late)
      BY AskAssumption, FS_Subset DEF Late
    <3>3. Cardinality(Late) \in Nat /\ FreeSwipes \in Nat /\ faults \in Nat
      BY <1>1, <3>2, FS_CardinalityType, BoundsAssumption DEF TypeInv, TypeOK
    <3>4. QED
      BY <3>1, <3>3 DEF Allowed
  <2>4. QED
    BY <2>2, <2>3
<1>2. QED
  BY InitType, NextType, InitSeen, NextSeen, InitLimit, NextLimit, <1>1, PTL
     DEF Spec

-----------------------------------------------------------------------------
(* Loading ends. *)

\* The feed loads for a call under way, or since one that found no network.
LoaderOwned == isLoading => \E a \in Asks : a \in Asking \/ ask[a].pc = "offline"

\* What one step makes of a call of getFeeds that is under way: it stays where
\* it is, goes on, or ends with the loader gone.
LEMMA CallGoesOn ==
    ASSUME TypeInv, [Next]_vars, NEW a \in Asks, a \in Asking
    PROVE  \/ ask'[a].pc = ask[a].pc /\ ~AskStep(a)
           \/ /\ AskStep(a)
              /\ \/ ask[a].pc = "connect" /\ ask'[a].pc = "post"
                 \/ ask[a].pc = "post" /\ ask'[a].pc = "answer"
                 \/ ask'[a].pc = "offline"
                 \/ ~isLoading'
<1>0. ask \in [Asks -> Ask] /\ \A b \in Asks : ask[b] \in Ask
  BY DEF TypeInv, TypeOK
<1>1. CASE AskStep(a)
  <2>1. CASE AskConnected(a)
    BY <1>0, <1>1, <2>1 DEF AskConnected, Ask
  <2>2. CASE AskOffline(a)
    BY <1>0, <1>1, <2>2 DEF AskOffline, Ask
  <2>3. CASE AskServed(a)
    <3>1. PICK list \in Found[ask[a].filter] :
            ask' = [ask EXCEPT ![a].pc = "answer", ![a].list = list,
                               ![a].next = SwipesLeft(Len(posted))]
      BY <2>3 DEF AskServed
    <3>2. ask[a].pc = "post" /\ ask'[a].pc = "answer"
      BY <1>0, <2>3, <3>1 DEF AskServed, Ask
    <3>3. QED
      BY <1>1, <3>2
  <2>4. CASE AskRefused(a)
    BY <1>0, <1>1, <2>4 DEF AskRefused, Ask
  <2>5. CASE AskAnswered(a) \/ AskFails(a)
    BY <1>1, <2>5 DEF AskAnswered, AskFails
  <2>6. QED
    BY <1>1, <2>1, <2>2, <2>3, <2>4, <2>5 DEF AskStep
<1>2. CASE ~AskStep(a)
  <2>1. ask[a].pc # "unused"
    BY DEF Asking
  <2>2. ASSUME NEW b \in Asks, b # a, AskStep(b) PROVE ask'[a] = ask[a]
    BY <1>0, <2>2 DEF AskStep, AskConnected, AskOffline, AskServed, AskRefused,
       AskAnswered, AskFails
  <2>3. ASSUME NEW b \in Asks, StartAsk(b) PROVE ask'[a] = ask[a]
    BY <1>0, <2>1, <2>3 DEF StartAsk
  <2>4. CASE UNCHANGED ask
    BY <1>2, <2>4
  <2>5. QED
    BY <1>2, <2>2, <2>3, <2>4
       DEF Next, ApplyFilter, PremiumBought, LetGo, SwipeComplete, SwipeStep,
           SwipeConnected, SwipePosted, SwipeRefused, SwipeAnswered, SwipeFails,
           Move, UpgradeTapped, PremiumLeft, vars
<1>3. QED
  BY <1>1, <1>2

\* A call that has found no network is not made again.
LEMMA OfflineStays ==
    ASSUME TypeInv, [Next]_vars, NEW a \in Asks, ask[a].pc = "offline"
    PROVE  ask'[a].pc = "offline"
<1>0. ask \in [Asks -> Ask]
  BY DEF TypeInv, TypeOK
<1>1. ASSUME NEW b \in Asks, AskStep(b) PROVE ask'[a] = ask[a]
  <2>1. b # a
    BY <1>1, AskGoes DEF Asking
  <2>2. QED
    BY <1>0, <1>1, <2>1 DEF AskStep, AskConnected, AskOffline, AskServed,
       AskRefused, AskAnswered, AskFails
<1>2. ASSUME NEW b \in Asks, StartAsk(b) PROVE ask'[a] = ask[a]
  BY <1>0, <1>2 DEF StartAsk
<1>3. QED
  BY <1>1, <1>2
     DEF Next, ApplyFilter, PremiumBought, LetGo, SwipeComplete, SwipeStep,
         SwipeConnected, SwipePosted, SwipeRefused, SwipeAnswered, SwipeFails,
         Move, UpgradeTapped, PremiumLeft, vars

\* isLoading is set by a call that begins or finds no network.
LEMMA LoadingBegins ==
    ASSUME TypeInv, [Next]_vars, isLoading'
    PROVE  isLoading \/ \E a \in Asks : StartAsk(a) \/ AskOffline(a)
BY DEF Next, ApplyFilter, PremiumBought, LetGo, SwipeComplete, SwipeStep,
       SwipeConnected, SwipePosted, SwipeRefused, SwipeAnswered, SwipeFails,
       UpgradeTapped, PremiumLeft, vars, AskStep, AskConnected, AskOffline,
       AskServed, AskRefused, AskAnswered, AskFails

LEMMA NextOwned ==
    ASSUME TypeInv, LoaderOwned, [Next]_vars
    PROVE  LoaderOwned'
<1>0. ask \in [Asks -> Ask]
  BY DEF TypeInv, TypeOK
<1>1. SUFFICES ASSUME isLoading'
               PROVE  \E a \in Asks : a \in Asking' \/ ask'[a].pc = "offline"
  BY DEF LoaderOwned
<1>2. ASSUME NEW a \in Asks, StartAsk(a) PROVE a \in Asking'
  BY <1>0, <1>2 DEF StartAsk, Asking, Ask
<1>3. ASSUME NEW a \in Asks, AskOffline(a) PROVE ask'[a].pc = "offline"
  BY <1>0, <1>3 DEF AskOffline, Ask
<1>4. CASE isLoading
  <2>1. PICK a \in Asks : a \in Asking \/ ask[a].pc = "offline"
    BY <1>4 DEF LoaderOwned
  <2>2. CASE ask[a].pc = "offline"
    BY <2>2, OfflineStays
  <2>3. CASE a \in Asking
    BY <1>1, <2>3, CallGoesOn DEF Asking
  <2>4. QED
    BY <2>1, <2>2, <2>3
<1>5. QED
  BY <1>1, <1>2, <1>3, <1>4, LoadingBegins

\* One call of getFeeds, as long as its requests are answered or fail.
LEMMA CallEnds ==
    ASSUME NEW a \in Asks
    PROVE  /\ []TypeInv /\ [][Next]_vars
           /\ []<>(a \notin Asking) \/ []<><<AskStep(a)>>_vars
           => (a \in Asking ~> (~isLoading \/ ask[a].pc = "offline"))
<1> DEFINE At(pc) == ask[a].pc = pc
           Over == ~isLoading \/ ask[a].pc = "offline"
<1>1. TypeInv /\ At("connect") /\ [Next]_vars
        => At("connect")' \/ At("post")' \/ Over'
  BY CallGoesOn DEF Asking
<1>2. TypeInv /\ At("connect") /\ <<AskStep(a)>>_vars => At("post")' \/ Over'
  BY CallGoesOn DEF Asking, Next
<1>3. TypeInv /\ At("post") /\ [Next]_vars
        => At("post")' \/ At("answer")' \/ Over'
  BY CallGoesOn DEF Asking
<1>4. TypeInv /\ At("post") /\ <<AskStep(a)>>_vars => At("answer")' \/ Over'
  BY CallGoesOn DEF Asking, Next
<1>5. TypeInv /\ At("answer") /\ [Next]_vars => At("answer")' \/ Over'
  BY CallGoesOn DEF Asking
<1>6. TypeInv /\ At("answer") /\ <<AskStep(a)>>_vars => Over'
  BY CallGoesOn DEF Asking, Next
<1>7. a \in Asking <=> At("connect") \/ At("post") \/ At("answer")
  BY DEF Asking
<1>8. a \notin Asking <=> ~(a \in Asking)
  OBVIOUS
<1>9. QED
  BY <1>1, <1>2, <1>3, <1>4, <1>5, <1>6, <1>7, <1>8, PTL

\* The feed loads only for a call that is under way or found no network, and
\* every call ends with the loader gone, whatever other calls, swipes and
\* purchases do meanwhile.
THEOREM LoadingTheorem == FairSpec => LoadingEnds
<1>1. Init => LoaderOwned
  BY AskAssumption DEF Init, LoaderOwned, Asking
<1>2. Spec => []TypeInv /\ [][Next]_vars
  BY InitType, NextType, PTL DEF Spec
<1>3. Spec => []LoaderOwned
  BY InitType, NextType, <1>1, NextOwned, PTL DEF Spec
<1>4. FairSpec
        => \A a \in Asks :
             a \in Asking ~> (~isLoading \/ ask[a].pc = "offline")
  BY <1>2, CallEnds DEF FairSpec, RequestsEnd
<1>5. FairSpec => []LoaderOwned
  BY <1>3 DEF FairSpec
<1>6. QED
  BY <1>4, <1>5 DEF LoadingEnds, LoaderOwned
=============================================================================
