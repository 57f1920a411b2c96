---------------------------- MODULE Conversation ----------------------------
(***************************************************************************)
(* What a one-to-one conversation promises its two users, without the      *)
(* documents, look-ups, snapshots and deletes it is built from (DirectChat *)
(* is the detailed specification that implements this one).                *)
(*                                                                         *)
(* A message first shows in its author's inbox row and then in the peer's, *)
(* once each.  It is lost on the way only when a nudge clock has run out   *)
(* or something has failed, and a row goes only when a clock has run out.  *)
(***************************************************************************)
CONSTANTS
    Persons,        \* the two users
    Other(_),       \* the peer of a user
    Messages,       \* messages, each sent once
    NoMessage,      \* a row that is not there
    Nobody          \* the author of a message that was not written

VARIABLES
    row,        \* row[p]: the message p's inbox row shows
    stage,      \* stage[m]: how far a message has come
    author,     \* author[m]: who wrote it
    ranOut,     \* a nudge clock has run out
    failed      \* an application or a transaction has failed

cvars == <<row, stage, author, ranOut, failed>>

Begin ==
    /\ row = [p \in Persons |-> NoMessage]
    /\ stage = [m \in Messages |-> "none"]
    /\ author = [m \in Messages |-> Nobody]
    /\ ranOut = FALSE
    /\ failed = FALSE

Compose(m, p) ==
    /\ stage[m] = "none"
    /\ stage' = [stage EXCEPT ![m] = "composed"]
    /\ author' = [author EXCEPT ![m] = p]
    /\ UNCHANGED <<row, ranOut, failed>>

\* The author's own row shows the message.
Post(m) ==
    /\ stage[m] = "composed"
    /\ stage' = [stage EXCEPT ![m] = "posted"]
    /\ row' = [row EXCEPT ![author[m]] = m]
    /\ UNCHANGED <<author, ranOut, failed>>

\* The peer's row shows the message, and the send is over.
Arrive(m) ==
    /\ stage[m] = "posted"
    /\ stage' = [stage EXCEPT ![m] = "arrived"]
    /\ row' = [row EXCEPT ![Other(author[m])] = m]
    /\ UNCHANGED <<author, ranOut, failed>>

UnderWay == {m \in Messages : stage[m] \in {"composed", "posted"}}

\* A message gives up on its way, because of a row that was taken away.
Lose(m) ==
    /\ ranOut \/ failed
    /\ m \in UnderWay
    /\ stage' = [stage EXCEPT ![m] = "lost"]
    /\ UNCHANGED <<row, author, ranOut, failed>>

\* A failure, which may take messages that are under way with it.
Fail ==
    \E taken \in SUBSET UnderWay :
      /\ failed' = TRUE
      /\ stage' = [m \in Messages |-> IF m \in taken THEN "lost" ELSE stage[m]]
      /\ UNCHANGED <<row, author, ranOut>>

RunOut ==
    /\ ranOut' = TRUE
    /\ UNCHANGED <<row, stage, author, failed>>

\* A row goes.
Drop(p) ==
    /\ ranOut
    /\ row' = [row EXCEPT ![p] = NoMessage]
    /\ UNCHANGED <<stage, author, ranOut, failed>>

Step ==
    \/ \E m \in Messages, p \in Persons : Compose(m, p)
    \/ \E m \in Messages : Post(m) \/ Arrive(m) \/ Lose(m)
    \/ Fail
    \/ RunOut
    \/ \E p \in Persons : Drop(p)

Promise == Begin /\ [][Step]_cvars

\* No message stays on its way: weak fairness of the steps of a message, which
\* has one to take as long as it is under way.
Progress ==
    \A m \in Messages :
      []<>(m \notin UnderWay) \/ []<><<Post(m) \/ Arrive(m) \/ Lose(m)>>_cvars

FairPromise == Promise /\ Progress
=============================================================================
