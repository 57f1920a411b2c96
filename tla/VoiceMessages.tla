---------------------------- MODULE VoiceMessages ----------------------------
(***************************************************************************)
(* The voice messages of one visit to a chat screen: the players of the    *)
(* rows and the recorder.  PlayerWidget (own messages, right) and          *)
(* PlayerWidgetLeft (the peer's) silence each other through two fields of  *)
(* FirebaseManager, which a player takes only when its play has answered.  *)
(* A row is mounted and disposed by the list; a row that comes back is a   *)
(* new State, hence another clip here.                                     *)
(*                                                                         *)
(* The platform executes play, pause and release in the order of the calls *)
(* and nothing in the application can tell when, so that they take effect  *)
(* with the call; their answers and the platform's events reach the        *)
(* application later, in order for each player.                            *)
(***************************************************************************)
EXTENDS Naturals, Sequences, FiniteSets

CONSTANTS
    Clips,          \* the States of the players
    Own,            \* those of own messages: PlayerWidgetState
    None,           \* no player
    MaxPresses,     \* bound on the presses of play buttons
    MaxTakes        \* bound on the presses of the recorder's button

ASSUME ClipsAssumption == Own \subseteq Clips /\ None \notin Clips
ASSUME BoundsAssumption == MaxPresses \in Nat /\ MaxTakes \in Nat

VARIABLES
    open,           \* the chat screen is there
    life,           \* life[c]: the State is "new", "mounted" or "disposed"
    ready,          \* ready[c]: c listens to the events of its player
    sound,          \* sound[c]: the platform plays c
    shown,          \* shown[c]: _playerState
    answers,        \* answers[c]: what the platform has still to tell c
    holder,         \* FirebaseManager's playerWidgetRight and playerWidgetLeft
    presses,        \* presses of play buttons so far
    finger,         \* the recorder's button is held
    starting,       \* calls of _start that have not reached the recorder
    mic,            \* the platform records
    takes,          \* presses of the recorder's button so far
    stray,          \* history: clips whose play overlapped with another
    overtaken       \* history: the last _stop came before a start

players == <<life, ready, sound, shown, answers, holder, presses, stray>>
recorder == <<finger, starting, mic, takes, overtaken>>
vars == <<open, players, recorder>>

Sides == {"right", "left"}
Side(c) == IF c \in Own THEN "right" ELSE "left"
Reports == {"playing", "paused", "stopped"}

TypeOK ==
    /\ open \in BOOLEAN
    /\ life \in [Clips -> {"new", "mounted", "disposed"}]
    /\ ready \in [Clips -> BOOLEAN]
    /\ sound \in [Clips -> BOOLEAN]
    /\ shown \in [Clips -> Reports]
    /\ answers \in [Clips -> Seq(Reports)]
    /\ holder \in [Sides -> Clips \union {None}]
    /\ presses \in 0..MaxPresses
    /\ finger \in BOOLEAN /\ starting \in Nat /\ mic \in BOOLEAN
    /\ takes \in 0..MaxTakes
    /\ stray \in SUBSET Clips /\ overtaken \in BOOLEAN
    /\ \A c \in Clips : life[c] # "mounted" => ~sound[c] /\ answers[c] = <<>>

Init ==
    /\ open = TRUE
    /\ life = [c \in Clips |-> "new"]
    /\ ready = [c \in Clips |-> FALSE]
    /\ sound = [c \in Clips |-> FALSE]
    /\ shown = [c \in Clips |-> "stopped"]
    /\ answers = [c \in Clips |-> <<>>]
    /\ holder = [s \in Sides |-> None]
    /\ presses = 0 /\ stray = {}
    /\ finger = FALSE /\ starting = 0 /\ mic = FALSE
    /\ takes = 0 /\ overtaken = FALSE

(***************************************************************************)
(* The players.                                                            *)
(***************************************************************************)

\* A play of c has been asked for and not answered.
UnderWay(c) == \E i \in 1..Len(answers[c]) : answers[c][i] = "playing"

Held == {holder[s] : s \in Sides} \ {None}

\* The row of c is built.
Mount(c) ==
    /\ open /\ life[c] = "new"
    /\ life' = [life EXCEPT ![c] = "mounted"]
    /\ UNCHANGED <<open, ready, sound, shown, answers, holder, presses, stray,
                   recorder>>

\* setUrl has answered, and the listeners are attached.
Ready(c) ==
    /\ life[c] = "mounted" /\ ~ready[c]
    /\ ready' = [ready EXCEPT ![c] = TRUE]
    /\ UNCHANGED <<open, life, sound, shown, answers, holder, presses, stray,
                   recorder>>

\* What the platform will tell d once c has been asked to play.
Told(c, d, works) ==
    (IF d \in Held /\ life[d] = "mounted" THEN <<"paused">> ELSE <<>>) \o
    (IF d # c THEN <<>>
     ELSE IF works THEN <<"playing">> ELSE <<"playing", "stopped">>)

\* Variant: the player of the other side is left alone.
PlayOneSide(c) ==
    /\ life[c] = "mounted" /\ shown[c] # "playing" /\ presses < MaxPresses
    /\ presses' = presses + 1
    /\ sound' = [d \in Clips |->
                    IF d = c THEN TRUE ELSE sound[d] /\ d # holder[Side(c)]]
    /\ answers' = [d \in Clips |-> answers[d] \o Told(c, d, TRUE)]
    /\ holder' = [holder EXCEPT ![Side(c)] = None]
    /\ stray' = LET busy == {d \in Clips : UnderWay(d)}
                IN  IF busy = {} THEN stray \ {c}
                    ELSE stray \union busy \union {c}
    /\ UNCHANGED <<open, life, ready, shown, recorder>>

\* The button of c: _play.  Both holders are paused and forgotten, and c is
\* asked to play; a clip that cannot be loaded answers and then fails.
Play(c) ==
    /\ life[c] = "mounted" /\ shown[c] # "playing" /\ presses < MaxPresses
    /\ presses' = presses + 1
    /\ \E works \in BOOLEAN :
          /\ sound' = [d \in Clips |->
                          IF d = c THEN works ELSE sound[d] /\ d \notin Held]
          /\ answers' = [d \in Clips |-> answers[d] \o Told(c, d, works)]
    /\ holder' = [s \in Sides |-> None]
    /\ stray' = LET busy == {d \in Clips : UnderWay(d)}
                IN  IF busy = {} THEN stray \ {c}
                    ELSE stray \union busy \union {c}
    /\ UNCHANGED <<open, life, ready, shown, recorder>>

\* The button of c: _pause.
Pause(c) ==
    /\ life[c] = "mounted" /\ shown[c] = "playing" /\ presses < MaxPresses
    /\ presses' = presses + 1
    /\ sound' = [sound EXCEPT ![c] = FALSE]
    /\ answers' = [answers EXCEPT ![c] = Append(@, "paused")]
    /\ UNCHANGED <<open, life, ready, shown, holder, stray, recorder>>

\* Variant: of the answers that wait together only the first is shown.
AnswerOnce(c) ==
    /\ answers[c] # <<>>
    /\ shown' = [shown EXCEPT ![c] = Head(answers[c])]
    /\ holder' = IF Head(answers[c]) = "playing"
                 THEN [holder EXCEPT ![Side(c)] = c] ELSE holder
    /\ answers' = [answers EXCEPT ![c] = <<>>]
    /\ UNCHANGED <<open, life, ready, sound, presses, stray, recorder>>

\* The platform tells c what has become of a call, or that the clip has ended
\* or failed, which c hears only when it listens.
Answer(c) ==
    /\ answers[c] # <<>>
    /\ shown' = [shown EXCEPT ![c] =
                    IF Head(answers[c]) = "stopped" /\ ~ready[c] THEN @
                    ELSE Head(answers[c])]
    /\ holder' = IF Head(answers[c]) = "playing"
                 THEN [holder EXCEPT ![Side(c)] = c] ELSE holder
    /\ answers' = [answers EXCEPT ![c] = Tail(@)]
    /\ UNCHANGED <<open, life, ready, sound, presses, stray, recorder>>

\* The clip has been played to its end.
Finish(c) ==
    /\ sound[c]
    /\ sound' = [sound EXCEPT ![c] = FALSE]
    /\ answers' = [answers EXCEPT ![c] = Append(@, "stopped")]
    /\ UNCHANGED <<open, life, ready, shown, holder, presses, stray, recorder>>

\* Variant: the player goes on when its row is gone.
DisposeQuietly(c) ==
    /\ life[c] = "mounted"
    /\ life' = [life EXCEPT ![c] = "disposed"]
    /\ answers' = [answers EXCEPT ![c] = <<>>]
    /\ UNCHANGED <<open, ready, sound, shown, holder, presses, stray, recorder>>

\* The row of c leaves the screen: the player is released, and the answer to
\* a play still under way finds no State to show it.  A holder stays one.
Dispose(c) ==
    /\ life[c] = "mounted"
    /\ life' = [life EXCEPT ![c] = "disposed"]
    /\ sound' = [sound EXCEPT ![c] = FALSE]
    /\ answers' = [answers EXCEPT ![c] = <<>>]
    /\ UNCHANGED <<open, ready, shown, holder, presses, stray, recorder>>

(***************************************************************************)
(* The recorder.                                                           *)
(***************************************************************************)

\* onLongPress: _start up to its first await.
HoldButton ==
    /\ open /\ ~finger /\ takes < MaxTakes
    /\ takes' = takes + 1
    /\ finger' = TRUE
    /\ starting' = starting + 1
    /\ UNCHANGED <<open, players, mic, overtaken>>

\* The directory, the old file and the permission have been looked after, and
\* the recorder starts, unless the permission is refused or it throws.
StartRecorder ==
    /\ starting > 0
    /\ starting' = starting - 1
    /\ mic' \in {mic, TRUE}
    /\ UNCHANGED <<open, players, finger, takes, overtaken>>

\* Variant: the release leaves the recorder to the next press.
ReleaseQuietly ==
    /\ finger
    /\ finger' = FALSE
    /\ mic' = mic
    /\ overtaken' = (starting > 0)
    /\ UNCHANGED <<open, players, starting, takes>>

\* onLongPressEnd: _stop, which does not wait for _start.
ReleaseButton ==
    /\ finger
    /\ finger' = FALSE
    /\ mic' = FALSE
    /\ overtaken' = (starting > 0)
    /\ UNCHANGED <<open, players, starting, takes>>

\* The screen is left: the rows and the recorder are disposed.
Leave ==
    /\ open
    /\ open' = FALSE
    /\ life' = [c \in Clips |-> IF life[c] = "mounted" THEN "disposed"
                                ELSE life[c]]
    /\ sound' = [c \in Clips |-> FALSE]
    /\ answers' = [c \in Clips |-> <<>>]
    /\ finger' = FALSE /\ mic' = FALSE
    /\ overtaken' = (starting > 0)
    /\ UNCHANGED <<ready, shown, holder, presses, stray, starting, takes>>

Next ==
    \/ \E c \in Clips :
          \/ Mount(c) \/ Ready(c) \/ Dispose(c)
          \/ Play(c) \/ Pause(c) \/ Answer(c) \/ Finish(c)
    \/ HoldButton \/ StartRecorder \/ ReleaseButton
    \/ Leave

Spec == Init /\ [][Next]_vars

(***************************************************************************)
(* Properties.                                                             *)
(***************************************************************************)

\* One voice at a time, over both sides and whatever rows come and go
\* (PlayerWidget.dart:288, :615): two clips sound together only if one of
\* them was started while a play was not yet answered.
OneVoice ==
    \A c, d \in Clips :
        sound[c] /\ sound[d] /\ c # d => c \in stray \/ d \in stray

\* Once the platform has said everything, the button of a clip that sounds
\* offers the pause: no order of answers, ends and pauses by other players
\* leaves a voice that the user cannot stop (PlayerWidget.dart:117, :298).
VoiceCanBeStopped ==
    \A c \in Clips : sound[c] /\ answers[c] = <<>> => shown[c] = "playing"

\* The microphone is open only while the button is held, unless the last
\* release, or the leaving of the screen, came before _start had reached the
\* recorder (FirebaseChatScreen.dart:313-333).
MicHasAnOwner == mic => finger \/ overtaken
==============================================================================
