----------------------------- MODULE NudgeClock -----------------------------
(***************************************************************************)
(* How the inbox reads a nudge clock: setList compares the stamp with the  *)
(* wall clock in daysBetween (lib/Helper/FirebaseManager.dart), and the    *)
(* row counts the result down second by second (lib/Widget/Countdown.dart).*)
(* setList writes the wall clock out and parses it with the pattern "hh",  *)
(* for which an hour of twelve is zero; the other hours, thirteen to       *)
(* twenty-three too, are taken as they are.                                *)
(*                                                                         *)
(* The inbox holds one conversation, so that its row keeps its index; with *)
(* several of them a Countdown may go over to another row.                 *)
(***************************************************************************)
EXTENDS Integers

CONSTANTS
    Hour,           \* seconds per hour
    MaxTime         \* bound of the clock

ASSUME HourAssumption == Hour \in Nat \ {0}
ASSUME MaxTimeAssumption == MaxTime \in Nat

VARIABLES
    now,            \* seconds since some midnight
    stamp,          \* nudgeSender of the document
    nudged,         \* isNudgeSent of the document
    row,            \* is the row, and its Countdown, on the screen?
    rowNudged,      \* isNudgeSent of the row
    shown,          \* _duration of the Countdown
    begun           \* isNudgeSent when the Countdown was begun

vars == <<now, stamp, nudged, row, rowNudged, shown, begun>>

Limit(isNudge) == (IF isNudge THEN 72 ELSE 48) * Hour
Noon == 12 * Hour

HourOf(t) == (t \div Hour) % 24

\* DateFormat("yyyy-MM-dd hh:mm:ss").parse of the time t.
ReadClock(t) == IF HourOf(t) = 12 THEN t - Noon ELSE t

daysBetween(from, to, isNudge) == Limit(isNudge) - (to - from)

TypeOK ==
    /\ now \in 0..MaxTime
    /\ stamp \in 0..now
    /\ nudged \in BOOLEAN /\ row \in BOOLEAN /\ rowNudged \in BOOLEAN
    /\ shown \in Int
    /\ begun \in BOOLEAN

\* A first message goes out at any time of the day.
Init ==
    /\ now \in 0..MaxTime /\ now < 24 * Hour
    /\ stamp = now
    /\ nudged = FALSE
    /\ row = FALSE
    /\ rowNudged = FALSE
    /\ shown = 0
    /\ begun = FALSE

\* setList makes the row, and the inbox begins a Countdown for it.
Build ==
    /\ row' = TRUE
    /\ rowNudged' = nudged
    /\ shown' = daysBetween(stamp, ReadClock(now), nudged)
    /\ begun' = nudged
    /\ UNCHANGED <<now, stamp, nudged>>

\* setList makes the row again before the next frame is drawn: the Countdown
\* on the screen is kept and does not look at its new duration.
Rebuild ==
    /\ row
    /\ rowNudged' = nudged
    /\ UNCHANGED <<now, stamp, nudged, row, shown, begun>>

\* The inbox is left: the Countdown is disposed of and its timer cancelled.
Leave ==
    /\ row
    /\ row' = FALSE
    /\ rowNudged' = FALSE /\ shown' = 0 /\ begun' = FALSE
    /\ UNCHANGED <<now, stamp, nudged>>

\* The nudge button, which does nothing once the row says it was used.
SendNudge ==
    /\ row /\ ~rowNudged
    /\ nudged' = TRUE
    /\ UNCHANGED <<now, stamp, row, rowNudged, shown, begun>>

\* Variant of timerCallback: it goes by twos.
timerCallbackByTwo(d) == IF d = 0 THEN 0 ELSE d - 2

\* The timer stops at zero and never starts again; below zero it goes on.
timerCallback(d) == IF d = 0 THEN 0 ELSE d - 1

\* A second passes, in which the system may let the timer sleep.
Tick(awake) ==
    /\ now < MaxTime
    /\ now' = now + 1
    /\ shown' = IF row /\ awake THEN timerCallback(shown) ELSE shown
    /\ UNCHANGED <<stamp, nudged, row, rowNudged, begun>>

Next ==
    \/ Build \/ Rebuild \/ Leave \/ SendNudge
    \/ \E awake \in BOOLEAN : Tick(awake)

Spec == Init /\ [][Next]_vars

-----------------------------------------------------------------------------
(* Properties. *)

\* The time that is really left, for a mark.
TimeLeft(isNudge) == Limit(isNudge) - (now - stamp)

\* However long a row stays on the screen, and whatever its timer sleeps, it
\* never shows less time than the document's mark left when its Countdown was
\* begun: what daysBetween, the pattern "hh" and the timer get wrong is to the
\* user's good.
CountdownNeverShort == row => shown >= TimeLeft(begun)
=============================================================================
