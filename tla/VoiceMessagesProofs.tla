------------------------- MODULE VoiceMessagesProofs -------------------------
(***************************************************************************)
(* Proofs about VoiceMessages, for any clips and all bounds.               *)
(***************************************************************************)
EXTENDS VoiceMessages, SequenceTheorems, TLAPS

(***************************************************************************)
(* Sequences of reports.                                                   *)
(***************************************************************************)

\* The end of a concatenation, and its members.
LEMMA ConcatFacts ==
    ASSUME NEW s \in Seq(Reports), NEW t \in Seq(Reports)
    PROVE  /\ s \o t \in Seq(Reports)
           /\ s \o t = <<>> <=> s = <<>> /\ t = <<>>
           /\ t = <<>> => s \o t = s
           /\ t # <<>> => (s \o t)[Len(s \o t)] = t[Len(t)]
           /\ \A v : (\E i \in 1..Len(s \o t) : (s \o t)[i] = v) <=>
                     \/ \E i \in 1..Len(s) : s[i] = v
                     \/ \E i \in 1..Len(t) : t[i] = v
<1>1. /\ Len(s) \in Nat /\ Len(t) \in Nat
      /\ s \o t \in Seq(Reports) /\ Len(s \o t) = Len(s) + Len(t)
      /\ \A i \in 1..(Len(s) + Len(t)) :
            (s \o t)[i] = IF i <= Len(s) THEN s[i] ELSE t[i - Len(s)]
  BY ConcatProperties, LenProperties
<1>2. /\ s = <<>> <=> Len(s) = 0
      /\ t = <<>> <=> Len(t) = 0
      /\ s \o t = <<>> <=> Len(s \o t) = 0
  BY <1>1, EmptySeq
<1>3. t = <<>> => s \o t = s
  BY ConcatEmptySeq
<1>4. t # <<>> => (s \o t)[Len(s \o t)] = t[Len(t)]
  BY <1>1, <1>2
<1>5. ASSUME NEW v
      PROVE  (\E i \in 1..Len(s \o t) : (s \o t)[i] = v) <=>
                     \/ \E i \in 1..Len(s) : s[i] = v
                     \/ \E i \in 1..Len(t) : t[i] = v
  <2>1. ASSUME NEW i \in 1..Len(s), s[i] = v
        PROVE  \E j \in 1..Len(s \o t) : (s \o t)[j] = v
    <3>1. i \in 1..Len(s \o t) /\ (s \o t)[i] = v
      BY <1>1, <2>1
    <3> QED BY <3>1
  <2>2. ASSUME NEW i \in 1..Len(t), t[i] = v
        PROVE  \E j \in 1..Len(s \o t) : (s \o t)[j] = v
    <3>1. Len(s) + i \in 1..Len(s \o t) /\ (s \o t)[Len(s) + i] = v
      BY <1>1, <2>2
    <3> QED BY <3>1
  <2>3. ASSUME NEW i \in 1..Len(s \o t), (s \o t)[i] = v
        PROVE  \/ \E j \in 1..Len(s) : s[j] = v
               \/ \E j \in 1..Len(t) : t[j] = v
    <3>1. CASE i <= Len(s)
      <4>1. i \in 1..Len(s) /\ s[i] = v
        BY <1>1, <2>3, <3>1
      <4> QED BY <4>1
    <3>2. CASE i > Len(s)
      <4>1. i - Len(s) \in 1..Len(t) /\ t[i - Len(s)] = v
        BY <1>1, <2>3, <3>2
      <4> QED BY <4>1
    <3> QED BY <1>1, <3>1, <3>2
  <2> QED BY <2>1, <2>2, <2>3
<1>6. s \o t = <<>> <=> s = <<>> /\ t = <<>>
  BY <1>1, <1>2
<1> HIDE DEF Reports
<1> QED BY <1>1, <1>3, <1>4, <1>5, <1>6, Zenon

\* The end of the rest, and the members that are left.
LEMMA TailFacts ==
    ASSUME NEW s \in Seq(Reports), s # <<>>
    PROVE  /\ Head(s) \in Reports /\ Tail(s) \in Seq(Reports)
           /\ Tail(s) # <<>> => Tail(s)[Len(Tail(s))] = s[Len(s)]
           /\ Tail(s) = <<>> => s[Len(s)] = Head(s)
           /\ \A v : (\E i \in 1..Len(s) : s[i] = v) =>
                     Head(s) = v \/ \E i \in 1..Len(Tail(s)) : Tail(s)[i] = v
           /\ \A v : (\E i \in 1..Len(Tail(s)) : Tail(s)[i] = v) =>
                     \E i \in 1..Len(s) : s[i] = v
           /\ \E i \in 1..Len(s) : s[i] = Head(s)
<1>1. /\ Len(s) \in Nat /\ Len(s) > 0
      /\ Head(s) = s[1] /\ Head(s) \in Reports
      /\ Tail(s) \in Seq(Reports) /\ Len(Tail(s)) = Len(s) - 1
      /\ \A i \in 1..(Len(s) - 1) : Tail(s)[i] = s[i + 1]
  <2>1. Len(s) \in Nat /\ Len(s) # 0
    BY LenProperties, EmptySeq
  <2>3. Len(s) > 0 /\ Head(s) = s[1]
    BY <2>1
  <2>2. /\ Head(s) \in Reports /\ Tail(s) \in Seq(Reports)
        /\ Len(Tail(s)) = Len(s) - 1
        /\ \A i \in 1..Len(Tail(s)) : Tail(s)[i] = s[i + 1]
    BY HeadTailProperties
  <2> QED BY <2>1, <2>2, <2>3
<1>2. Tail(s) = <<>> <=> Len(Tail(s)) = 0
  BY <1>1, EmptySeq
<1>3. ASSUME NEW v, NEW i \in 1..Len(s), s[i] = v
      PROVE  Head(s) = v \/ \E j \in 1..Len(Tail(s)) : Tail(s)[j] = v
  <2>1. CASE i = 1
    BY <1>1, <1>3, <2>1
  <2>2. CASE i # 1
    <3>1. i - 1 \in 1..Len(Tail(s)) /\ Tail(s)[i - 1] = v
      BY <1>1, <1>3, <2>2
    <3> QED BY <3>1
  <2> QED BY <2>1, <2>2
<1>4. ASSUME NEW v, NEW i \in 1..Len(Tail(s)), Tail(s)[i] = v
      PROVE  \E j \in 1..Len(s) : s[j] = v
  <2>1. i + 1 \in 1..Len(s) /\ s[i + 1] = v
    BY <1>1, <1>4
  <2> QED BY <2>1
<1>5. 1 \in 1..Len(s) /\ s[1] = Head(s)
  BY <1>1
<1> QED BY <1>1, <1>2, <1>3, <1>4, <1>5

\* What the platform will tell is one of four short sequences.
LEMMA ToldFacts ==
    ASSUME NEW c, NEW d, NEW works \in BOOLEAN
    PROVE  /\ Told(c, d, works) \in Seq(Reports)
           /\ d = c /\ works =>
                /\ Told(c, d, works) # <<>>
                /\ Told(c, d, works)[Len(Told(c, d, works))] = "playing"
           /\ d # c => \A i \in 1..Len(Told(c, d, works)) :
                          Told(c, d, works)[i] = "paused"
           /\ d # c /\ (d \notin Held \/ life[d] # "mounted")
                => Told(c, d, works) = <<>>
<1> DEFINE front == IF d \in Held /\ life[d] = "mounted" THEN <<"paused">>
                    ELSE <<>>
           back == IF d # c THEN <<>>
                   ELSE IF works THEN <<"playing">>
                   ELSE <<"playing", "stopped">>
<1>1. Told(c, d, works) = front \o back
  BY DEF Told
<1>2. /\ front \in Seq(Reports)
      /\ back \in Seq(Reports)
      /\ (front = <<>> \/ front = <<"paused">>)
      /\ (d \notin Held \/ life[d] # "mounted") => front = <<>>
      /\ d # c => back = <<>>
      /\ d = c /\ works => back = <<"playing">>
  <2>1. /\ <<>> \in Seq(Reports)
        /\ <<"paused">> \in Seq(Reports)
        /\ <<"playing">> \in Seq(Reports)
        /\ <<"playing", "stopped">> \in Seq(Reports)
    BY DEF Reports
  <2> QED BY <2>1
<1> HIDE DEF front, back
<1>3. front \o back \in Seq(Reports)
  BY <1>2, ConcatFacts
<1>4. d # c => front \o back = front
  BY <1>2, ConcatFacts
<1>5. ASSUME d = c, works
      PROVE  /\ front \o back # <<>>
             /\ (front \o back)[Len(front \o back)] = "playing"
  <2>1. back = <<"playing">>
    BY <1>2, <1>5
  <2>2. back # <<>> /\ back[Len(back)] = "playing"
    BY <2>1
  <2> QED BY <1>2, <2>2, ConcatFacts
<1>6. \A k \in 1..Len(front) : front[k] = "paused"
  BY <1>2
<1>7. QED
  BY <1>1, <1>2, <1>3, <1>4, <1>5, <1>6

\* Appending a report.
LEMMA AppendFacts ==
    ASSUME NEW s \in Seq(Reports), NEW v \in Reports
    PROVE  /\ Append(s, v) \in Seq(Reports) /\ Append(s, v) # <<>>
           /\ Append(s, v)[Len(Append(s, v))] = v
           /\ \A w : (\E i \in 1..Len(Append(s, v)) : Append(s, v)[i] = w) <=>
                     w = v \/ \E i \in 1..Len(s) : s[i] = w
<1>1. /\ Len(s) \in Nat
      /\ Append(s, v) \in Seq(Reports) /\ Len(Append(s, v)) = Len(s) + 1
      /\ \A i \in 1..Len(s) : Append(s, v)[i] = s[i]
      /\ Append(s, v)[Len(s) + 1] = v
  BY AppendProperties, LenProperties
<1>2. Append(s, v) # <<>>
  BY <1>1, EmptySeq
<1>3. ASSUME NEW w, NEW i \in 1..Len(s), s[i] = w
      PROVE  \E j \in 1..Len(Append(s, v)) : Append(s, v)[j] = w
  <2>1. i \in 1..Len(Append(s, v)) /\ Append(s, v)[i] = w
    BY <1>1, <1>3
  <2> QED BY <2>1
<1>4. Len(s) + 1 \in 1..Len(Append(s, v))
  BY <1>1
<1>5. ASSUME NEW w, NEW i \in 1..Len(Append(s, v)), Append(s, v)[i] = w
      PROVE  w = v \/ \E j \in 1..Len(s) : s[j] = w
  BY <1>1, <1>5
<1> QED BY <1>1, <1>2, <1>3, <1>4, <1>5

(***************************************************************************)
(* Types.                                                                  *)
(***************************************************************************)

\* A sequence of reports for each clip, after one of them has changed.
LEMMA AnswersType ==
    ASSUME TypeOK, NEW c \in Clips, NEW s \in Seq(Reports)
    PROVE  [answers EXCEPT ![c] = s] \in [Clips -> Seq(Reports)]
BY DEF TypeOK

\* Types keep, and a row that is not mounted is silent and expects nothing.
LEMMA TypesStep == TypeOK /\ [Next]_vars => TypeOK'
<1> SUFFICES ASSUME TypeOK, [Next]_vars
             PROVE  TypeOK'
  OBVIOUS
<1> USE DEF TypeOK
<1>1. ASSUME NEW c \in Clips, Mount(c) PROVE TypeOK'
  BY <1>1 DEF Mount, recorder
<1>2. ASSUME NEW c \in Clips, Ready(c) PROVE TypeOK'
  BY <1>2 DEF Ready, recorder
<1>3. ASSUME NEW c \in Clips, Dispose(c) PROVE TypeOK'
  <2>1. <<>> \in Seq(Reports)
    OBVIOUS
  <2> QED BY <1>3, <2>1 DEF Dispose, recorder
<1>4. ASSUME NEW c \in Clips, Play(c) PROVE TypeOK'
  <2>1. PICK works \in BOOLEAN :
          /\ sound' = [d \in Clips |->
                          IF d = c THEN works ELSE sound[d] /\ d \notin Held]
          /\ answers' = [d \in Clips |-> answers[d] \o Told(c, d, works)]
    BY <1>4 DEF Play
  <2>2. \A d \in Clips : answers[d] \o Told(c, d, works) \in Seq(Reports)
    BY ToldFacts, ConcatFacts
  <2>3. /\ answers' \in [Clips -> Seq(Reports)]
        /\ sound' \in [Clips -> BOOLEAN]
    BY <2>1, <2>2
  <2>4. ASSUME NEW d \in Clips, life'[d] # "mounted"
        PROVE  ~sound'[d] /\ answers'[d] = <<>>
    <3>1. d # c /\ life[d] # "mounted" /\ ~sound[d] /\ answers[d] = <<>>
      BY <1>4, <2>4 DEF Play
    <3>2. Told(c, d, works) = <<>>
      BY <3>1, ToldFacts
    <3>3. answers[d] \o Told(c, d, works) = answers[d]
      BY <3>2, ConcatFacts
    <3> QED BY <2>1, <3>1, <3>3
  <2>5. stray' \in SUBSET Clips
    BY <1>4 DEF Play
  <2> QED BY <1>4, <2>3, <2>4, <2>5, BoundsAssumption DEF Play, recorder
<1>5. ASSUME NEW c \in Clips, Pause(c) PROVE TypeOK'
  <2>1. Append(answers[c], "paused") \in Seq(Reports)
    BY AppendFacts DEF Reports
  <2>2. answers' \in [Clips -> Seq(Reports)]
    BY <1>5, <2>1 DEF Pause
  <2> QED BY <1>5, <2>2, BoundsAssumption DEF Pause, recorder
<1>6. ASSUME NEW c \in Clips, Answer(c) PROVE TypeOK'
  <2>1. Head(answers[c]) \in Reports /\ Tail(answers[c]) \in Seq(Reports)
    BY <1>6, TailFacts DEF Answer
  <2>2. /\ answers' \in [Clips -> Seq(Reports)]
        /\ shown' \in [Clips -> Reports]
    BY <1>6, <2>1 DEF Answer
  <2>3. holder' \in [Sides -> Clips \union {None}]
    BY <1>6 DEF Answer, Sides, Side
  <2> QED BY <1>6, <2>2, <2>3 DEF Answer, recorder
<1>7. ASSUME NEW c \in Clips, Finish(c) PROVE TypeOK'
  <2>1. Append(answers[c], "stopped") \in Seq(Reports)
    BY AppendFacts DEF Reports
  <2>2. answers' \in [Clips -> Seq(Reports)]
    BY <1>7, <2>1 DEF Finish
  <2> QED BY <1>7, <2>2 DEF Finish, recorder
<1>8. CASE HoldButton
  BY <1>8, BoundsAssumption DEF HoldButton, players
<1>9. CASE StartRecorder
  <2>1. starting' \in Nat
    BY <1>9 DEF StartRecorder
  <2>2. mic' \in BOOLEAN
    BY <1>9, Zenon DEF StartRecorder
  <2> QED BY <1>9, <2>1, <2>2, Zenon DEF StartRecorder, players
<1>10. CASE ReleaseButton
  <2>1. overtaken' \in BOOLEAN
    BY <1>10 DEF ReleaseButton
  <2> QED BY <1>10, <2>1, Zenon DEF ReleaseButton, players
<1>11. CASE Leave
  <2>1. answers' \in [Clips -> Seq(Reports)]
    BY <1>11 DEF Leave
  <2>2. life' \in [Clips -> {"new", "mounted", "disposed"}]
    BY <1>11 DEF Leave
  <2>3. overtaken' \in BOOLEAN
    BY <1>11 DEF Leave
  <2>4. \A c \in Clips : ~sound'[c] /\ answers'[c] = <<>>
    BY <1>11 DEF Leave
  <2> QED BY <1>11, <2>1, <2>2, <2>3, <2>4 DEF Leave
<1>12. CASE UNCHANGED vars
  BY <1>12 DEF vars, players, recorder
<1> QED BY <1>1, <1>2, <1>3, <1>4, <1>5, <1>6, <1>7, <1>8, <1>9, <1>10,
           <1>11, <1>12 DEF Next

LEMMA TypesInit == Init => TypeOK
<1> SUFFICES ASSUME Init
             PROVE  TypeOK
  OBVIOUS
<1>1. answers \in [Clips -> Seq(Reports)]
  BY DEF Init
<1>2. holder \in [Sides -> Clips \union {None}]
  BY DEF Init
<1>3. /\ life \in [Clips -> {"new", "mounted", "disposed"}]
      /\ shown \in [Clips -> Reports]
  BY DEF Init, Reports
<1>4. /\ presses \in 0..MaxPresses /\ takes \in 0..MaxTakes
      /\ starting \in Nat
  BY BoundsAssumption DEF Init
<1>5. /\ open \in BOOLEAN /\ finger \in BOOLEAN /\ mic \in BOOLEAN
      /\ overtaken \in BOOLEAN
  BY Zenon DEF Init
<1>6. /\ ready \in [Clips -> BOOLEAN] /\ sound \in [Clips -> BOOLEAN]
      /\ stray \in SUBSET Clips
      /\ \A c \in Clips : ~sound[c] /\ answers[c] = <<>>
  BY DEF Init
<1> QED BY <1>1, <1>2, <1>3, <1>4, <1>5, <1>6, Zenon DEF TypeOK

\* The States of the rows, the platform's players and the recorder keep to
\* their types, and a disposed row neither sounds nor waits for an answer.
THEOREM VoiceTypes == Spec => []TypeOK
<1> QED BY TypesInit, TypesStep, PTL DEF Spec

(***************************************************************************)
(* A voice can be stopped: what sounds has been answered last, or will be. *)
(***************************************************************************)

\* The last word about a clip that sounds is that it plays.
Announced(c) ==
    sound[c] => IF answers[c] = <<>> THEN shown[c] = "playing"
                ELSE answers[c][Len(answers[c])] = "playing"

EndsInv == \A c \in Clips : Announced(c)

LEMMA EndsStep == TypeOK /\ EndsInv /\ [Next]_vars => EndsInv'
<1> SUFFICES ASSUME TypeOK, EndsInv, [Next]_vars, NEW d \in Clips, sound'[d]
             PROVE  IF answers'[d] = <<>> THEN shown'[d] = "playing"
                    ELSE answers'[d][Len(answers'[d])] = "playing"
  BY DEF EndsInv, Announced
<1>0. answers[d] \in Seq(Reports)
  BY DEF TypeOK
<1> DEFINE Same == sound[d] /\ answers'[d] = answers[d] /\ shown'[d] = shown[d]
<1>a. ASSUME Same
      PROVE  IF answers'[d] = <<>> THEN shown'[d] = "playing"
             ELSE answers'[d][Len(answers'[d])] = "playing"
  BY <1>a DEF EndsInv, Announced
<1>1. ASSUME NEW c \in Clips, Mount(c) PROVE Same
  BY <1>1 DEF Mount
<1>2. ASSUME NEW c \in Clips, Ready(c) PROVE Same
  BY <1>2 DEF Ready
<1>3. ASSUME NEW c \in Clips, Dispose(c) PROVE Same
  BY <1>3 DEF Dispose, TypeOK
<1>4. ASSUME NEW c \in Clips, Play(c)
      PROVE  IF answers'[d] = <<>> THEN shown'[d] = "playing"
             ELSE answers'[d][Len(answers'[d])] = "playing"
  <2>1. PICK works \in BOOLEAN :
          /\ sound' = [e \in Clips |->
                          IF e = c THEN works ELSE sound[e] /\ e \notin Held]
          /\ answers' = [e \in Clips |-> answers[e] \o Told(c, e, works)]
    BY <1>4 DEF Play
  <2>2. /\ answers'[d] = answers[d] \o Told(c, d, works)
        /\ Told(c, d, works) \in Seq(Reports)
    BY <2>1, ToldFacts
  <2>3. CASE d = c
    <3>1. works
      BY <2>1, <2>3
    <3>2. /\ Told(c, d, works) # <<>>
          /\ Told(c, d, works)[Len(Told(c, d, works))] = "playing"
      BY <2>3, <3>1, ToldFacts
    <3> QED BY <1>0, <2>2, <3>2, ConcatFacts
  <2>4. CASE d # c
    <3>1. sound[d] /\ d \notin Held
      BY <2>1, <2>4
    <3>2. Told(c, d, works) = <<>>
      BY <2>4, <3>1, ToldFacts
    <3>3. answers'[d] = answers[d]
      BY <1>0, <2>2, <3>2, ConcatFacts
    <3>4. shown'[d] = shown[d]
      BY <1>4 DEF Play
    <3> QED BY <1>a, <3>1, <3>3, <3>4
  <2> QED BY <2>3, <2>4
<1>5. ASSUME NEW c \in Clips, Pause(c) PROVE Same
  BY <1>5 DEF Pause, TypeOK
<1>6. ASSUME NEW c \in Clips, Answer(c)
      PROVE  IF answers'[d] = <<>> THEN shown'[d] = "playing"
             ELSE answers'[d][Len(answers'[d])] = "playing"
  <2>1. CASE d # c
    <3>1. Same
      BY <1>6, <2>1 DEF Answer, TypeOK
    <3> QED BY <1>a, <3>1
  <2>2. CASE d = c
    <3>1. answers[d] # <<>> /\ sound[d] /\ answers'[d] = Tail(answers[d])
      BY <1>6, <2>2 DEF Answer, TypeOK
    <3>2. answers[d][Len(answers[d])] = "playing"
      BY <3>1 DEF EndsInv, Announced
    <3>3. CASE Tail(answers[d]) = <<>>
      <4>1. Head(answers[d]) = "playing"
        BY <1>0, <3>1, <3>2, <3>3, TailFacts
      <4>2. shown'[d] = "playing"
        BY <1>6, <2>2, <4>1 DEF Answer, TypeOK
      <4> QED BY <3>1, <3>3, <4>2
    <3>4. CASE Tail(answers[d]) # <<>>
      BY <1>0, <3>1, <3>2, <3>4, TailFacts
    <3> QED BY <3>3, <3>4
  <2> QED BY <2>1, <2>2
<1>7. ASSUME NEW c \in Clips, Finish(c) PROVE Same
  BY <1>7 DEF Finish, TypeOK
<1>8. CASE HoldButton \/ StartRecorder \/ ReleaseButton
  <2>1. Same
    BY <1>8 DEF HoldButton, StartRecorder, ReleaseButton, players
  <2> QED BY <1>a, <2>1
<1>9. CASE Leave
  BY <1>9 DEF Leave
<1>10. CASE UNCHANGED vars
  <2>1. Same
    BY <1>10 DEF vars, players
  <2> QED BY <1>a, <2>1
<1> HIDE DEF Same
<1> QED BY <1>a, <1>1, <1>2, <1>3, <1>4, <1>5, <1>6, <1>7, <1>8, <1>9, <1>10
        DEF Next

\* Whatever rows come and go and whichever answers are late: once everything
\* has been told, the button of a sounding clip is a pause button.
THEOREM StopTheorem == Spec => []VoiceCanBeStopped
<1>1. Init => EndsInv
  BY DEF Init, EndsInv, Announced
<1>2. EndsInv => VoiceCanBeStopped
  BY DEF EndsInv, Announced, VoiceCanBeStopped
<1> QED BY <1>1, <1>2, EndsStep, VoiceTypes, PTL DEF Spec

(***************************************************************************)
(* One voice: a clip that sounds and was started alone is the one the next *)
(* play will pause.                                                        *)
(***************************************************************************)

\* It is held, or it will be once its play has answered.
Kept == \A c \in Clips :
    sound[c] /\ c \notin stray => c \in Held \/ UnderWay(c)

\* While a play is under way no other clip that was started alone sounds.
Alone == \A c, d \in Clips : UnderWay(c) /\ sound[d] /\ d # c => d \in stray

OneInv == OneVoice /\ Kept /\ Alone

\* A step after which the same plays are under way and the same clips held, and
\* no more clips sound, keeps it.
LEMMA Quieter ==
    ASSUME OneInv, stray' = stray, holder' = holder,
           \A c \in Clips : sound'[c] => sound[c],
           \A c \in Clips : UnderWay(c)' => UnderWay(c),
           \A c \in Clips : sound'[c] /\ UnderWay(c) => UnderWay(c)'
    PROVE  OneInv'
<1>1. Held' = Held
  BY DEF Held
<1>2. OneVoice'
  BY DEF OneInv, OneVoice
<1>3. Kept'
  BY <1>1 DEF OneInv, Kept
<1>4. Alone'
  BY DEF OneInv, Alone
<1> QED BY <1>2, <1>3, <1>4 DEF OneInv

LEMMA OneStep == TypeOK /\ OneInv /\ [Next]_vars => OneInv'
<1> SUFFICES ASSUME TypeOK, OneInv, [Next]_vars
             PROVE  OneInv'
  OBVIOUS
<1>0. \A c \in Clips : answers[c] \in Seq(Reports)
  BY DEF TypeOK
<1>1. ASSUME NEW c \in Clips, Mount(c) PROVE OneInv'
  <2>1. sound' = sound /\ answers' = answers
    BY <1>1 DEF Mount
  <2> QED BY <1>1, <2>1, Quieter DEF Mount, UnderWay
<1>2. ASSUME NEW c \in Clips, Ready(c) PROVE OneInv'
  <2>1. sound' = sound /\ answers' = answers
    BY <1>2 DEF Ready
  <2> QED BY <1>2, <2>1, Quieter DEF Ready, UnderWay
<1>3. ASSUME NEW c \in Clips, Dispose(c) PROVE OneInv'
  <2>1. /\ ~sound'[c] /\ answers'[c] = <<>>
        /\ \A d \in Clips \ {c} :
              sound'[d] = sound[d] /\ answers'[d] = answers[d]
    BY <1>3 DEF Dispose, TypeOK
  <2>2. ~UnderWay(c)'
    BY <2>1 DEF UnderWay
  <2>3. \A d \in Clips \ {c} : UnderWay(d)' <=> UnderWay(d)
    BY <2>1 DEF UnderWay
  <2>4. stray' = stray /\ holder' = holder
    BY <1>3 DEF Dispose
  <2> QED BY <2>1, <2>2, <2>3, <2>4, Quieter
<1>4. ASSUME NEW c \in Clips, Play(c) PROVE OneInv'
  <2>1. PICK works \in BOOLEAN :
          /\ sound' = [d \in Clips |->
                          IF d = c THEN works ELSE sound[d] /\ d \notin Held]
          /\ answers' = [d \in Clips |-> answers[d] \o Told(c, d, works)]
    BY <1>4 DEF Play
  <2> DEFINE busy == {d \in Clips : UnderWay(d)}
  <2>2. stray' = IF busy = {} THEN stray \ {c} ELSE stray \union busy \union {c}
    BY <1>4 DEF Play
  <2>3. ASSUME NEW d \in Clips, d # c, sound'[d]
        PROVE  d \in stray'
    <3>1. sound[d] /\ d \notin Held
      BY <2>1, <2>3
    <3>2. d \in stray \/ UnderWay(d)
      BY <3>1 DEF OneInv, Kept
    <3> QED BY <2>2, <2>3, <3>2
  <2>4. ASSUME NEW d \in Clips, d # c, UnderWay(d)'
        PROVE  UnderWay(d)
    <3>1. answers'[d] = answers[d] \o Told(c, d, works)
      BY <2>1
    <3>2. \E i \in 1..Len(answers[d] \o Told(c, d, works)) :
             (answers[d] \o Told(c, d, works))[i] = "playing"
      BY <2>4, <3>1 DEF UnderWay
    <3>3. \/ \E i \in 1..Len(answers[d]) : answers[d][i] = "playing"
          \/ \E i \in 1..Len(Told(c, d, works)) :
                Told(c, d, works)[i] = "playing"
      BY <1>0, <3>2, ToldFacts, ConcatFacts
    <3>4. ~\E i \in 1..Len(Told(c, d, works)) :
              Told(c, d, works)[i] = "playing"
      BY <2>4, ToldFacts
    <3> QED BY <3>3, <3>4 DEF UnderWay
  <2>5. sound'[c] => UnderWay(c)'
    <3> SUFFICES ASSUME works
                 PROVE  UnderWay(c)'
      BY <2>1
    <3> DEFINE s == answers[c]
               t == Told(c, c, works)
    <3>1. t \in Seq(Reports) /\ t # <<>> /\ t[Len(t)] = "playing"
      BY ToldFacts
    <3>2. s \in Seq(Reports) /\ answers'[c] = s \o t
      BY <1>0, <2>1
    <3> HIDE DEF s, t
    <3>3. s \o t # <<>> /\ (s \o t)[Len(s \o t)] = "playing"
          /\ s \o t \in Seq(Reports)
      BY <3>1, <3>2, ConcatFacts
    <3>4. Len(s \o t) \in 1..Len(s \o t)
      BY <3>3, LenProperties, EmptySeq
    <3> QED BY <3>2, <3>3, <3>4 DEF UnderWay
  <2>6. OneVoice'
    BY <2>3 DEF OneVoice
  <2>7. Kept'
    BY <2>3, <2>5 DEF Kept
  <2>8. ASSUME NEW e \in Clips, NEW d \in Clips, UnderWay(e)', sound'[d], d # e
        PROVE  d \in stray'
    <3>1. CASE d # c
      BY <2>3, <2>8, <3>1
    <3>2. CASE d = c
      <4>1. e \in busy
        BY <2>4, <2>8, <3>2
      <4> QED BY <2>2, <3>2, <4>1
    <3> QED BY <3>1, <3>2
  <2>9. Alone'
    BY <2>8 DEF Alone
  <2> QED BY <2>6, <2>7, <2>9 DEF OneInv
<1>5. ASSUME NEW c \in Clips, Pause(c) PROVE OneInv'
  <2>1. /\ ~sound'[c] /\ answers'[c] = Append(answers[c], "paused")
        /\ \A d \in Clips \ {c} :
              sound'[d] = sound[d] /\ answers'[d] = answers[d]
    BY <1>5 DEF Pause, TypeOK
  <2>2. UnderWay(c)' <=> UnderWay(c)
    BY <1>0, <2>1, AppendFacts DEF UnderWay, Reports
  <2>3. \A d \in Clips \ {c} : UnderWay(d)' <=> UnderWay(d)
    BY <2>1 DEF UnderWay
  <2>4. stray' = stray /\ holder' = holder
    BY <1>5 DEF Pause
  <2> QED BY <2>1, <2>2, <2>3, <2>4, Quieter
<1>6. ASSUME NEW c \in Clips, Answer(c) PROVE OneInv'
  <2>1. /\ sound' = sound /\ stray' = stray
        /\ answers[c] # <<>> /\ answers'[c] = Tail(answers[c])
        /\ \A d \in Clips \ {c} : answers'[d] = answers[d]
        /\ holder' = IF Head(answers[c]) = "playing"
                     THEN [holder EXCEPT ![Side(c)] = c] ELSE holder
    BY <1>6 DEF Answer, TypeOK
  <2>2. \A d \in Clips \ {c} : UnderWay(d)' <=> UnderWay(d)
    BY <2>1 DEF UnderWay
  <2>3. UnderWay(c)' => UnderWay(c)
    BY <1>0, <2>1, TailFacts DEF UnderWay
  <2>4. Head(answers[c]) = "playing" => UnderWay(c)
    BY <1>0, <2>1, TailFacts DEF UnderWay
  <2>5. UnderWay(c) => Head(answers[c]) = "playing" \/ UnderWay(c)'
    BY <1>0, <2>1, TailFacts DEF UnderWay
  <2>6. OneVoice'
    BY <2>1 DEF OneInv, OneVoice
  <2>7. Alone'
    BY <2>1, <2>2, <2>3 DEF OneInv, Alone
  <2>8. CASE Head(answers[c]) = "playing"
    <3>1. c \in Held'
      BY <2>1, <2>8, ClipsAssumption DEF Held, TypeOK, Sides, Side
    <3>2. \A d \in Clips : sound[d] /\ d # c => d \in stray
      BY <2>4, <2>8 DEF OneInv, Alone
    <3>3. Kept'
      BY <2>1, <3>1, <3>2 DEF Kept
    <3> QED BY <2>6, <2>7, <3>3 DEF OneInv
  <2>9. CASE Head(answers[c]) # "playing"
    <3>1. Held' = Held
      BY <2>1, <2>9 DEF Held
    <3>2. Kept'
      BY <2>1, <2>2, <2>5, <2>9, <3>1 DEF OneInv, Kept
    <3> QED BY <2>6, <2>7, <3>2 DEF OneInv
  <2> QED BY <2>8, <2>9
<1>7. ASSUME NEW c \in Clips, Finish(c) PROVE OneInv'
  <2>1. /\ ~sound'[c] /\ answers'[c] = Append(answers[c], "stopped")
        /\ \A d \in Clips \ {c} :
              sound'[d] = sound[d] /\ answers'[d] = answers[d]
    BY <1>7 DEF Finish, TypeOK
  <2>2. UnderWay(c)' <=> UnderWay(c)
    BY <1>0, <2>1, AppendFacts DEF UnderWay, Reports
  <2>3. \A d \in Clips \ {c} : UnderWay(d)' <=> UnderWay(d)
    BY <2>1 DEF UnderWay
  <2>4. stray' = stray /\ holder' = holder
    BY <1>7 DEF Finish
  <2> QED BY <2>1, <2>2, <2>3, <2>4, Quieter
<1>8. CASE HoldButton \/ StartRecorder \/ ReleaseButton
  <2>1. /\ sound' = sound /\ answers' = answers
        /\ stray' = stray /\ holder' = holder
    BY <1>8 DEF HoldButton, StartRecorder, ReleaseButton, players
  <2> QED BY <2>1, Quieter DEF UnderWay
<1>9. CASE Leave
  <2>1. /\ \A d \in Clips : ~sound'[d] /\ answers'[d] = <<>>
        /\ stray' = stray /\ holder' = holder
    BY <1>9 DEF Leave
  <2>2. \A d \in Clips : ~UnderWay(d)'
    BY <2>1 DEF UnderWay
  <2> QED BY <2>1, <2>2, Quieter
<1>10. CASE UNCHANGED vars
  <2>1. /\ sound' = sound /\ answers' = answers
        /\ stray' = stray /\ holder' = holder
    BY <1>10 DEF vars, players
  <2> QED BY <2>1, Quieter DEF UnderWay
<1> QED BY <1>1, <1>2, <1>3, <1>4, <1>5, <1>6, <1>7, <1>8, <1>9, <1>10
        DEF Next

\* For any rows on either side: two clips sound together only if one of them
\* was started while another play had not been answered.
THEOREM OneVoiceTheorem == Spec => []OneVoice
<1>1. Init => OneInv
  BY DEF Init, OneInv, OneVoice, Kept, Alone
<1>2. OneInv => OneVoice
  BY DEF OneInv
<1> QED BY <1>1, <1>2, OneStep, VoiceTypes, PTL DEF Spec

(***************************************************************************)
(* The microphone.                                                         *)
(***************************************************************************)

\* Who will start the recorder has a finger on the button or came too late.
MicInv == (mic \/ starting > 0) => finger \/ overtaken

\* The microphone is left on only by a start that was overtaken.
THEOREM MicTheorem == Spec => []MicHasAnOwner
<1>1. Init => MicInv
  BY DEF Init, MicInv
<1>2. TypeOK /\ MicInv /\ [Next]_vars => MicInv'
  <2> SUFFICES ASSUME TypeOK, MicInv, [Next]_vars
               PROVE  MicInv'
    OBVIOUS
  <2>1. CASE UNCHANGED <<starting, mic, finger, overtaken>>
    BY <2>1 DEF MicInv
  <2>2. CASE \E c \in Clips :
                \/ Mount(c) \/ Ready(c) \/ Dispose(c)
                \/ Play(c) \/ Pause(c) \/ Answer(c) \/ Finish(c)
    <3>1. UNCHANGED recorder
      BY <2>2 DEF Mount, Ready, Dispose, Play, Pause, Answer, Finish
    <3> QED BY <2>1, <3>1 DEF recorder
  <2>3. CASE HoldButton
    BY <2>3 DEF HoldButton, MicInv
  <2>4. CASE StartRecorder
    <3>1. finger \/ overtaken
      BY <2>4 DEF StartRecorder, MicInv
    <3> QED BY <2>4, <3>1 DEF StartRecorder, MicInv
  <2>5. CASE ReleaseButton
    BY <2>5 DEF ReleaseButton, MicInv
  <2>6. CASE Leave
    BY <2>6 DEF Leave, MicInv
  <2>7. CASE UNCHANGED vars
    BY <2>1, <2>7 DEF vars, recorder
  <2> QED BY <2>2, <2>3, <2>4, <2>5, <2>6, <2>7 DEF Next
<1>3. MicInv => MicHasAnOwner
  BY DEF MicInv, MicHasAnOwner
<1> QED BY <1>1, <1>2, <1>3, VoiceTypes, PTL DEF Spec
==============================================================================
