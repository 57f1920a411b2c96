------------------------------- MODULE SwipeLog -------------------------------
(***************************************************************************)
(* What the feed promises of its swipes, without cards, filters, requests  *)
(* for cards and the premium page (FeedSwipe is the detailed specification *)
(* that implements this one).                                              *)
(*                                                                         *)
(* Swipes are made one after the other, and each makes one call.  A call   *)
(* posts at most once, and what it posts is the newest swipe there is by   *)
(* then: its own, or that of a swipe made while it was on its way, never   *)
(* an older one and never the user of one swipe with the direction of      *)
(* another.  Of two swipes in quick succession the second may therefore be *)
(* posted twice and the first never; only a swipe that no other overtakes  *)
(* is posted itself.                                                       *)
(***************************************************************************)
EXTENDS Naturals, Sequences

CONSTANT Opinions   \* who is swiped, and in which direction

VARIABLES
    swipes,     \* the swipes made, in order
    stage,      \* stage[i]: what has become of the call of the i-th swipe
    log         \* what the backend was told, in order

lvars == <<swipes, stage, log>>

Begin == swipes = <<>> /\ stage = <<>> /\ log = <<>>

Make ==
    /\ \E o \in Opinions : swipes' = Append(swipes, o)
    /\ stage' = Append(stage, "waiting")
    /\ UNCHANGED log

Tell(i) ==
    /\ stage[i] = "waiting"
    /\ stage' = [stage EXCEPT ![i] = "told"]
    /\ log' = Append(log, swipes[Len(swipes)])
    /\ UNCHANGED swipes

\* A call is done with, or given up before it has posted.
End(i) ==
    /\ stage[i] # "over"
    /\ stage' = [stage EXCEPT ![i] = "over"]
    /\ UNCHANGED <<swipes, log>>

Step == Make \/ \E i \in 1..Len(stage) : Tell(i) \/ End(i)

Promise == Begin /\ [][Step]_lvars
===============================================================================
