------------------------------ MODULE FeedSwipe ------------------------------
(***************************************************************************)
(* The feed of cards (lib/Pages/FeedsScreen.dart and FeedController).  A   *)
(* swipe puts its direction and the card's user in the controller's one    *)
(* object sendSwipe and calls feedSwipe, which reads that object again     *)
(* after two awaits (lib/Repository/FeedsRepository.dart).  getFeeds       *)
(* replaces list_feeds when the backend answers.  The backend counts the   *)
(* swipes of the day and says by isNext whether there are any left; if not *)
(* the cards are locked and the premium page is pushed.                    *)
(*                                                                         *)
(* Answers come in any order.  An action is the code between two awaits.   *)
(***************************************************************************)
EXTENDS Integers, Sequences, FiniteSets

CONSTANTS
    People,         \* the users whose cards are shown
    Filters,        \* what the filter page can be set to
    NoFilter,       \* what it is set to at first
    Found,          \* Found[f]: the lists the backend may find for f
    FreeSwipes,     \* swipes the backend allows in a day (10)
    Asks,           \* calls of getFeeds, each made once
    FirstAsk,       \* the one FeedController's constructor makes
    MaxSwipes,      \* bound on the swipes
    MaxAtOnce,      \* bound on the calls of feedSwipe under way at once
    MaxAsks,        \* bound on the calls of getFeeds under way at once
    MaxFaults,      \* bound on failures of the network and the backend
    MaxPremium,     \* bound on the premium pages on top of each other
    NoDrag          \* no card is on its way out

ASSUME FilterAssumption ==
    /\ NoFilter \in Filters
    /\ Found \in [Filters -> SUBSET Seq(People) \ {{}}]
ASSUME AskAssumption == IsFiniteSet(Asks) /\ FirstAsk \in Asks
ASSUME BoundsAssumption ==
    /\ FreeSwipes \in Nat /\ MaxSwipes \in Nat /\ MaxAtOnce \in Nat
    /\ MaxAsks \in Nat /\ MaxFaults \in Nat /\ MaxPremium \in Nat
ASSUME NoDragAssumption ==
    NoDrag \notin [user : People, swipe : {"0", "1"}]

VARIABLES
    filter,         \* sendData
    cards,          \* list_feeds
    front,          \* cards the stack has let go
    drag,           \* the card on its way out: who is on it and where it goes
    isLoading,      \* getFeeds has not answered
    isNext,         \* the backend has swipes left
    ask,            \* ask[a]: a call of getFeeds
    sendSwipe,      \* what feedSwipe posts
    made,           \* the swipes made, each with its call of feedSwipe
    posted,         \* the swipes the backend has received
    premium,        \* premium pages on top of the feed
    prime,          \* the backend no longer counts
    faults

vars == <<filter, cards, front, drag, isLoading, isNext, ask, sendSwipe, made,
          posted, premium, prime, faults>>

Directions == {"0", "1"}
Drag == [user : People, swipe : Directions]
Pair == [receiver : People, swipe : Directions]
NoPair == [receiver |-> "", swipe |-> ""]

Ask == [pc : {"unused", "connect", "post", "answer", "done", "offline"},
        filter : Filters, list : Seq(People), next : BOOLEAN]
\* seen: the user on the card the finger let go of.
Swipe == [receiver : People, swipe : Directions, seen : People,
          pc : {"connect", "post", "answer", "refused", "done", "failed"},
          next : BOOLEAN]

TypeOK ==
    /\ filter \in Filters
    /\ cards \in Seq(People)
    /\ front \in Nat /\ (cards # <<>> => front < Len(cards))
    /\ drag \in Drag \union {NoDrag}
    /\ isLoading \in BOOLEAN /\ isNext \in BOOLEAN
    /\ ask \in [Asks -> Ask]
    /\ sendSwipe \in Pair \union {NoPair}
    /\ made \in Seq(Swipe) /\ Len(made) <= MaxSwipes
    /\ posted \in Seq(Pair)
    /\ premium \in 0..MaxPremium /\ prime \in BOOLEAN
    /\ faults \in 0..MaxFaults

Init ==
    /\ filter = NoFilter
    /\ cards = <<>> /\ front = 0 /\ drag = NoDrag
    /\ isLoading = TRUE /\ isNext = TRUE
    /\ ask = [a \in Asks |-> [pc |-> IF a = FirstAsk THEN "connect" ELSE "unused",
                              filter |-> NoFilter, list |-> <<>>,
                              next |-> FALSE]]
    /\ sendSwipe = NoPair
    /\ made = <<>> /\ posted = <<>>
    /\ premium = 0 /\ prime = FALSE
    /\ faults = 0

Asking == {a \in Asks : ask[a].pc \in {"connect", "post", "answer"}}
Calling == {i \in 1..Len(made) : made[i].pc \notin {"done", "failed"}}

\* isNext, as the backend finds it after n swipes.
SwipesLeft(n) == prime \/ n < FreeSwipes

Fault == faults < MaxFaults /\ faults' = faults + 1

-----------------------------------------------------------------------------
(* getFeeds. *)

StartAsk(a) ==
    /\ ask[a].pc = "unused" /\ Cardinality(Asking) < MaxAsks
    /\ ask' = [ask EXCEPT ![a].pc = "connect"]
    /\ isLoading' = TRUE

\* Variant of ApplyFilter: the cards stay until the answer comes.
ApplyFilterKeepsCards(a, f) ==
    /\ premium = 0
    /\ StartAsk(a)
    /\ filter' = f
    /\ UNCHANGED <<cards, front, drag, isNext, sendSwipe, made, posted, premium,
                   prime, faults>>

\* The filter page returns.  Without cards the stack goes, and a drag with it.
ApplyFilter(a, f) ==
    /\ premium = 0
    /\ StartAsk(a)
    /\ filter' = f
    /\ cards' = <<>> /\ front' = 0 /\ drag' = NoDrag
    /\ UNCHANGED <<isNext, sendSwipe, made, posted, premium, prime, faults>>

\* isConnect says yes: the filter is the one set by now.
AskConnected(a) ==
    /\ ask[a].pc = "connect"
    /\ ask' = [ask EXCEPT ![a].pc = "post", ![a].filter = filter]
    /\ UNCHANGED <<filter, cards, front, drag, isLoading, isNext, sendSwipe,
                   made, posted, premium, prime, faults>>

\* No network: isLoading stays and nobody asks again.
AskOffline(a) ==
    /\ ask[a].pc = "connect"
    /\ Fault
    /\ ask' = [ask EXCEPT ![a].pc = "offline"]
    /\ isLoading' = TRUE
    /\ UNCHANGED <<filter, cards, front, drag, isNext, sendSwipe, made, posted,
                   premium, prime>>

AskServed(a) ==
    /\ ask[a].pc = "post"
    /\ \E list \in Found[ask[a].filter] :
         ask' = [ask EXCEPT ![a].pc = "answer", ![a].list = list,
                            ![a].next = SwipesLeft(Len(posted))]
    /\ UNCHANGED <<filter, cards, front, drag, isLoading, isNext, sendSwipe,
                   made, posted, premium, prime, faults>>

\* An answer without success is read as an empty list with swipes left.
AskRefused(a) ==
    /\ ask[a].pc = "post"
    /\ Fault
    /\ ask' = [ask EXCEPT ![a].pc = "answer", ![a].list = <<>>,
                          ![a].next = TRUE]
    /\ UNCHANGED <<filter, cards, front, drag, isLoading, isNext, sendSwipe,
                   made, posted, premium, prime>>

\* The list is replaced.  A stack that is on the screen stays there, on a card
\* that is up to it.
AskAnswered(a) ==
    LET list == ask[a].list IN
    /\ ask[a].pc = "answer"
    /\ ask' = [ask EXCEPT ![a].pc = "done"]
    /\ cards' = list
    /\ \/ cards = <<>> /\ front' = 0
       \/ cards # <<>> /\ front' \in {i - 1 : i \in 1..Len(list)}
       \/ list = <<>> /\ front' = 0
    /\ drag' = IF list = <<>> THEN NoDrag ELSE drag
    /\ isNext' = ask[a].next
    /\ isLoading' = FALSE
    /\ UNCHANGED <<filter, sendSwipe, made, posted, premium, prime, faults>>

\* Variant of AskFails: the error is only logged.
AskFailsLogged(a) ==
    /\ ask[a].pc \in {"post", "answer"}
    /\ Fault
    /\ ask' = [ask EXCEPT ![a].pc = "done"]
    /\ UNCHANGED <<isLoading, filter, cards, front, drag, isNext, sendSwipe,
                   made, posted, premium, prime>>

AskFails(a) ==
    /\ ask[a].pc \in {"post", "answer"}
    /\ Fault
    /\ ask' = [ask EXCEPT ![a].pc = "done"]
    /\ isLoading' = FALSE
    /\ UNCHANGED <<filter, cards, front, drag, isNext, sendSwipe, made, posted,
                   premium, prime>>

-----------------------------------------------------------------------------
(* Swiping. *)

\* The finger lets go of the front card, or a button sends it off.
LetGo(dir) ==
    /\ cards # <<>> /\ isNext /\ premium = 0 /\ drag = NoDrag
    /\ Len(made) < MaxSwipes /\ Cardinality(Calling) < MaxAtOnce
    /\ drag' = [user |-> cards[front + 1], swipe |-> dir]
    /\ UNCHANGED <<filter, cards, front, isLoading, isNext, ask, sendSwipe, made,
                   posted, premium, prime, faults>>

\* Variant of SwipeComplete: the list is kept after its last card.
SwipeCompleteKeepsList ==
    LET pair == [receiver |-> cards[front + 1], swipe |-> drag.swipe] IN
    /\ drag # NoDrag
    /\ sendSwipe' = pair
    /\ made' = Append(made, [receiver |-> pair.receiver, swipe |-> pair.swipe,
                             seen |-> drag.user, pc |-> "connect",
                             next |-> FALSE])
    /\ drag' = NoDrag
    /\ front' = front + 1
    /\ UNCHANGED <<cards, filter, isLoading, isNext, ask, posted, premium, prime,
                   faults>>

\* swipeCompleteCallback, with the list as it is when the card is gone.
SwipeComplete ==
    LET pair == [receiver |-> cards[front + 1], swipe |-> drag.swipe]
        last == front + 1 = Len(cards) IN
    /\ drag # NoDrag
    /\ sendSwipe' = pair
    /\ made' = Append(made, [receiver |-> pair.receiver, swipe |-> pair.swipe,
                             seen |-> drag.user, pc |-> "connect",
                             next |-> FALSE])
    /\ drag' = NoDrag
    /\ cards' = IF last THEN <<>> ELSE cards
    /\ front' = IF last THEN 0 ELSE front + 1
    /\ UNCHANGED <<filter, isLoading, isNext, ask, posted, premium, prime, faults>>

Move(i, from, to) ==
    /\ made[i].pc \in from
    /\ made' = [made EXCEPT ![i].pc = to]

SwipeConnected(i) ==
    /\ Move(i, {"connect"}, "post")
    /\ UNCHANGED <<filter, cards, front, drag, isLoading, isNext, ask, sendSwipe,
                   posted, premium, prime, faults>>

\* Variant of SwipePosted: the receiver was kept when the call began.
SwipePostedOwn(i) ==
    /\ made[i].pc = "post"
    /\ posted' = Append(posted, [receiver |-> made[i].receiver,
                                 swipe |-> sendSwipe.swipe])
    /\ made' = [made EXCEPT ![i].pc = "answer",
                            ![i].next = SwipesLeft(Len(posted'))]
    /\ UNCHANGED <<filter, cards, front, drag, isLoading, isNext, ask, sendSwipe,
                   premium, prime, faults>>

\* The body is made of sendSwipe as it is after the awaits.
SwipePosted(i) ==
    /\ made[i].pc = "post"
    /\ posted' = Append(posted, sendSwipe)
    /\ made' = [made EXCEPT ![i].pc = "answer",
                            ![i].next = SwipesLeft(Len(posted'))]
    /\ UNCHANGED <<filter, cards, front, drag, isLoading, isNext, ask, sendSwipe,
                   premium, prime, faults>>

\* An answer without success is read as no swipes left.
SwipeRefused(i) ==
    /\ made[i].pc = "post"
    /\ Fault
    /\ made' = [made EXCEPT ![i].pc = "refused", ![i].next = FALSE]
    /\ UNCHANGED <<filter, cards, front, drag, isLoading, isNext, ask, sendSwipe,
                   posted, premium, prime>>

\* Variant of SwipeAnswered: the cards are not locked.
SwipeAnsweredOpen(i) ==
    /\ Move(i, {"answer", "refused"}, "done")
    /\ isNext' = TRUE
    /\ UNCHANGED <<filter, cards, front, drag, isLoading, ask, sendSwipe, posted,
                   premium, prime, faults>>

SwipeAnswered(i) ==
    /\ Move(i, {"answer", "refused"}, "done")
    /\ isNext' = made[i].next
    /\ premium' = IF made[i].next THEN premium ELSE premium + 1
    /\ premium' <= MaxPremium
    /\ UNCHANGED <<filter, cards, front, drag, isLoading, ask, sendSwipe, posted,
                   prime, faults>>

\* No network, or the request fails, or its answer is lost.
SwipeFails(i) ==
    /\ i \in Calling
    /\ Fault
    /\ made' = [made EXCEPT ![i].pc = "failed"]
    /\ UNCHANGED <<filter, cards, front, drag, isLoading, isNext, ask, sendSwipe,
                   posted, premium, prime>>

-----------------------------------------------------------------------------
(* The premium page. *)

UpgradeTapped ==
    /\ ~isNext /\ premium = 0 /\ premium < MaxPremium
    /\ premium' = premium + 1
    /\ UNCHANGED <<filter, cards, front, drag, isLoading, isNext, ask, sendSwipe,
                   made, posted, prime, faults>>

PremiumLeft ==
    /\ premium > 0
    /\ premium' = premium - 1
    /\ UNCHANGED <<filter, cards, front, drag, isLoading, isNext, ask, sendSwipe,
                   made, posted, prime, faults>>

\* The page returns "1" when premiumStatus has told the backend.
PremiumBought(a) ==
    /\ premium > 0
    /\ premium' = premium - 1
    /\ prime' = TRUE
    /\ StartAsk(a)
    /\ UNCHANGED <<filter, cards, front, drag, isNext, sendSwipe, made, posted,
                   faults>>

AskStep(a) ==
    \/ AskConnected(a) \/ AskOffline(a) \/ AskServed(a) \/ AskRefused(a)
    \/ AskAnswered(a) \/ AskFails(a)

SwipeStep(i) ==
    \/ SwipeConnected(i) \/ SwipePosted(i) \/ SwipeRefused(i)
    \/ SwipeAnswered(i) \/ SwipeFails(i)

Next ==
    \/ \E a \in Asks : AskStep(a) \/ PremiumBought(a)
    \/ \E a \in Asks, f \in Filters : ApplyFilter(a, f)
    \/ \E dir \in Directions : LetGo(dir)
    \/ SwipeComplete
    \/ \E i \in 1..Len(made) : SwipeStep(i)
    \/ UpgradeTapped \/ PremiumLeft

Spec == Init /\ [][Next]_vars

\* Requests are answered or fail in the end: weak fairness of AskStep(a), whose
\* enabling condition, that the call is under way, is spelled out.
RequestsEnd ==
    \A a \in Asks : []<>(a \notin Asking) \/ []<><<AskStep(a)>>_vars

FairSpec == Spec /\ RequestsEnd

-----------------------------------------------------------------------------
(* Properties. *)

\* Until the plan is bought, one call of getFeeds at a time never replaces the
\* list between the finger and the callback: a swipe is about the card that was
\* seen.  (The premium page returns to a feed whose cards were not taken away.)
SwipedIsSeen ==
    MaxAsks = 1 /\ ~prime =>
      \A i \in 1..Len(made) : made[i].receiver = made[i].seen

\* A user who makes one swipe and one request at a time gets past the free
\* swipes of a day by one swipe for each answer to getFeeds, which may be older
\* than the answer that locked the cards, and for each fault, but no further.
DailyLimitKept ==
    MaxAtOnce = 1 /\ MaxAsks = 1 /\ ~prime =>
      Len(posted) <= FreeSwipes + faults
                       + Cardinality({a \in Asks : ask[a].pc = "done"} \ {FirstAsk})

\* The feed does not load for ever, unless getFeeds has found no network: it
\* loads only for a call that is under way or was made offline, and every call
\* ends with the loader gone, although the calls share the one flag.
LoadingEnds ==
    /\ [](isLoading => \E a \in Asks : a \in Asking \/ ask[a].pc = "offline")
    /\ \A a \in Asks :
         a \in Asking ~> (~isLoading \/ ask[a].pc = "offline")

-----------------------------------------------------------------------------
(* FeedSwipe implements SwipeLog: a swipe waits until its request has reached *)
(* the backend, and is over when it was refused, failed or answered.          *)

PairOf(i) == [receiver |-> made[i].receiver, swipe |-> made[i].swipe]

StageOf(pc) ==
    CASE pc \in {"connect", "post"} -> "waiting"
      [] pc = "answer" -> "told"
      [] OTHER -> "over"

swipesOf == [i \in 1..Len(made) |-> PairOf(i)]
stageOf == [i \in 1..Len(made) |-> StageOf(made[i].pc)]

Log == INSTANCE SwipeLog WITH
    Opinions <- Pair, swipes <- swipesOf, stage <- stageOf, log <- posted

\* Each call of feedSwipe posts at most once, and posts the newest swipe there is
\* by then: although the calls share the object they post, some time after it
\* was filled, no post mixes two swipes or goes back to an older one, and a swipe
\* no other overtakes is posted itself.  Of two quick swipes the second may be
\* posted by both calls and the first never (FeedController.dart:125).
KeepsTheLog == Log!Promise
=============================================================================
