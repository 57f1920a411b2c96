-------------------------- MODULE NudgeClockProofs --------------------------
(***************************************************************************)
(* Proofs about NudgeClock, for any length of the hour and any time of the *)
(* first message.                                                          *)
(***************************************************************************)
EXTENDS NudgeClock, TLAPS

\* The clock setList reads is right or half a day behind (the pattern "hh").
LEMMA ReadClockLag ==
    ASSUME NEW t \in Int
    PROVE  /\ ReadClock(t) \in {t, t - Noon}
           /\ ReadClock(t) \in Int
           /\ ReadClock(t) <= t
           /\ Noon \in Int /\ Noon > 0
  BY HourAssumption DEF ReadClock, Noon, HourOf

\* daysBetween takes a clock for run out exactly when the stamp is older than
\* the limit by the time setList has read, which lags by nothing or by Noon:
\* the condition RanOut of DirectChat, where lag is 0 or NoonShift.
THEOREM DecisionLag ==
    ASSUME NEW t \in Int, NEW s \in Int, NEW n \in BOOLEAN
    PROVE  \E lag \in {0, Noon} :
             daysBetween(s, ReadClock(t), n) < 0 <=> (t - lag) - s > Limit(n)
<1>1. Limit(n) \in Int
  BY HourAssumption DEF Limit
<1>2. CASE ReadClock(t) = t
  BY <1>1, <1>2, ReadClockLag DEF daysBetween
<1>3. CASE ReadClock(t) = t - Noon
  BY <1>1, <1>3, ReadClockLag DEF daysBetween
<1> QED BY <1>2, <1>3, ReadClockLag

\* The values of the variables keep to their types.
THEOREM ClockTypes == Spec => []TypeOK
<1>1. Init => TypeOK
  <2> SUFFICES ASSUME Init PROVE TypeOK
    OBVIOUS
  <2>1. now \in 0..MaxTime /\ stamp \in 0..now
    BY MaxTimeAssumption DEF Init
  <2>2. shown \in Int
    BY DEF Init
  <2>3. /\ nudged \in BOOLEAN /\ row \in BOOLEAN /\ rowNudged \in BOOLEAN
        /\ begun \in BOOLEAN
    BY DEF Init
  <2> QED BY <2>1, <2>2, <2>3 DEF TypeOK
<1>2. TypeOK /\ [Next]_vars => TypeOK'
  <2> SUFFICES ASSUME TypeOK, [Next]_vars PROVE TypeOK'
    OBVIOUS
  <2> USE HourAssumption, MaxTimeAssumption DEF TypeOK
  <2>1. CASE Build
    <3>1. shown' \in Int
      <4>1. ReadClock(now) \in Int /\ Limit(nudged) \in Int
        BY ReadClockLag DEF Limit
      <4> QED BY <2>1, <4>1 DEF Build, daysBetween
    <3> QED BY <2>1, <3>1 DEF Build
  <2>2. CASE Rebuild
    BY <2>2 DEF Rebuild
  <2>3. CASE Leave
    <3>1. /\ row' \in BOOLEAN /\ rowNudged' \in BOOLEAN /\ begun' \in BOOLEAN
      BY <2>3 DEF Leave
    <3>2. shown' \in Int
      BY <2>3 DEF Leave
    <3> QED BY <2>3, <3>1, <3>2 DEF Leave
  <2>4. CASE SendNudge
    BY <2>4 DEF SendNudge
  <2>5. CASE \E awake \in BOOLEAN : Tick(awake)
    BY <2>5 DEF Tick, timerCallback
  <2>6. CASE UNCHANGED vars
    BY <2>6 DEF vars
  <2> QED BY <2>1, <2>2, <2>3, <2>4, <2>5, <2>6 DEF Next
<1> QED BY <1>1, <1>2, PTL DEF Spec

\* A row never shows less time than the mark left when its Countdown was
\* begun, whatever the timer sleeps and however setList rebuilds the row.
THEOREM NeverShort == Spec => []CountdownNeverShort
<1>1. Init => CountdownNeverShort
  BY DEF Init, CountdownNeverShort
<1>2. TypeOK /\ CountdownNeverShort /\ [Next]_vars => CountdownNeverShort'
  <2> SUFFICES ASSUME TypeOK, CountdownNeverShort, [Next]_vars, row'
               PROVE  shown' >= TimeLeft(begun)'
    BY DEF CountdownNeverShort
  <2> DEFINE L == Limit(begun)
  <2>0. /\ now \in Int /\ stamp \in Int /\ shown \in Int
        /\ L \in Int /\ Limit(nudged) \in Int
    BY HourAssumption, MaxTimeAssumption DEF TypeOK, Limit
  <2>1. CASE Build
    <3>1. shown' = Limit(nudged) - (ReadClock(now) - stamp)
      BY <2>1 DEF Build, daysBetween
    <3>2. TimeLeft(begun)' = Limit(nudged) - (now - stamp)
      BY <2>1 DEF Build, TimeLeft, Limit
    <3>3. ReadClock(now) <= now /\ ReadClock(now) \in Int
      BY <2>0, ReadClockLag
    <3> QED BY <2>0, <3>1, <3>2, <3>3
  <2>2. CASE Rebuild \/ SendNudge \/ UNCHANGED vars
    <3>1. /\ row /\ shown' = shown /\ now' = now /\ stamp' = stamp
          /\ begun' = begun
      BY <2>2 DEF Rebuild, SendNudge, vars
    <3>2. Limit(begun)' = L
      BY <3>1, Zenon DEF Limit
    <3>3. TimeLeft(begun)' = L - (now - stamp)
      BY <3>1, <3>2 DEF TimeLeft
    <3>4. shown >= L - (now - stamp)
      BY <3>1 DEF CountdownNeverShort, TimeLeft
    <3> QED BY <3>1, <3>3, <3>4
  <2>3. CASE Leave
    BY <2>3 DEF Leave
  <2>4. CASE \E awake \in BOOLEAN : Tick(awake)
    <3>1. row /\ now' = now + 1 /\ shown' \in {shown, timerCallback(shown)}
      BY <2>4 DEF Tick
    <3>2. TimeLeft(begun)' = L - (now' - stamp)
      <4>1. now' = now + 1 /\ stamp' = stamp /\ begun' = begun
        BY <2>4 DEF Tick
      <4>2. Limit(begun)' = L
        BY <4>1, Zenon DEF Limit
      <4> QED BY <4>1, <4>2 DEF TimeLeft
    <3>3. shown >= L - (now - stamp)
      BY <3>1 DEF CountdownNeverShort, TimeLeft
    <3>4. CASE shown' = shown
      <4> HIDE DEF L
      <4> QED BY <2>0, <3>1, <3>2, <3>3, <3>4
    <3>5. CASE shown' = timerCallback(shown)
      <4>1. (shown' = 0 /\ shown = 0) \/ shown' = shown - 1
        BY <3>5 DEF timerCallback
      <4> HIDE DEF L
      <4> QED BY <2>0, <3>1, <3>2, <3>3, <4>1
    <3> QED BY <3>1, <3>4, <3>5
  <2> QED BY <2>1, <2>2, <2>3, <2>4 DEF Next
<1> QED BY <1>1, <1>2, ClockTypes, PTL DEF Spec
=============================================================================
