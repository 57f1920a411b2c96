--------------------------- MODULE PurchasesProofs ---------------------------
(***************************************************************************)
(* Proofs about Purchases, for all bounds.                                 *)
(***************************************************************************)
EXTENDS Purchases, TLAPS

(***************************************************************************)
(* The types.  They are kept in parts: the flags, which the prover without *)
(* arithmetic handles, the counts, and what the page says of them.         *)
(***************************************************************************)

Flags ==
    /\ user \in BOOLEAN /\ prime \in BOOLEAN /\ below \in BOOLEAN
    /\ crowded \in BOOLEAN /\ premium \in BOOLEAN /\ unheard \in BOOLEAN

Numbers ==
    /\ subs \in Nat /\ inits \in Nat /\ deaf \in Nat
    /\ checks \in [Verdicts -> Nat]
    /\ upgrades \in Counts /\ buys \in Counts /\ timers \in Counts
    /\ asked \in Nat /\ stream \in [Kinds -> Nat] /\ credits \in Nat
    /\ opened \in 0..MaxPages /\ presses \in 0..MaxPresses
    /\ late \in 0..MaxLate /\ sessions \in 0..MaxSessions

Screen ==
    /\ page \in Pages
    /\ loader \in {"none", "page", "plan", "nudges"}
    /\ page = NoPage => loader # "page" /\ upgrades.page = 0
    /\ page.kind # "nudges" => buys.page = 0 /\ timers.page = 0
    /\ page.kind = "nudges" => upgrades.page = 0
    /\ page.state = "opening" => buys.page = 0 /\ loader = "none"

LEMMA TypesInParts == TypeOK <=> Flags /\ Numbers /\ Screen
BY DEF TypeOK, Flags, Numbers, Screen

LEMMA FlagsStep == Flags /\ [Next]_vars => Flags'
<1> SUFFICES ASSUME Flags, [Next]_vars PROVE Flags'
  OBVIOUS
<1> USE DEF Flags, app, pages, requests, store, backend
<1>1. CASE Login
  BY <1>1, Zenon DEF Login
<1>2. CASE Logout
  BY <1>2, Zenon DEF Logout
<1>3. CASE Restart
  BY <1>3, Zenon DEF Restart
<1>4. CASE Connect
  BY <1>4, Zenon DEF Connect
<1>5. CASE ReadStatus
  BY <1>5, Zenon DEF ReadStatus
<1>6. ASSUME NEW v \in Verdicts, LandStatus(v) PROVE Flags'
  BY <1>6, Zenon DEF LandStatus
<1>7. ASSUME NEW kind \in {"plan", "nudges"}, OpenPage(kind) PROVE Flags'
  BY <1>7, Zenon DEF OpenPage
<1>8. CASE Subscribe \/ PressBuy
  BY <1>8, Zenon DEF Subscribe, PressBuy
<1>9. CASE Back \/ Dispose
  BY <1>9, Zenon DEF Back, Dispose
<1>10. CASE StoreAnswers \/ StoreReports
  BY <1>10, Zenon DEF StoreAnswers, StoreReports
<1>11. ASSUME NEW k \in Kinds, Deliver(k) PROVE Flags'
  BY <1>11, Zenon DEF Deliver
<1>12. ASSUME NEW w \in {"page", "gone"}, AnswerUpgrade(w) PROVE Flags'
  BY <1>12, Zenon DEF AnswerUpgrade, PopIf, Pop
<1>13. ASSUME NEW w \in {"page", "gone"}, AnswerBuy(w) PROVE Flags'
  BY <1>13, Zenon DEF AnswerBuy, PopIf, Pop
<1>14. ASSUME NEW w \in {"page", "gone"}, HideLoader(w) PROVE Flags'
  BY <1>14, Zenon DEF HideLoader
<1>15. CASE UNCHANGED vars
  BY <1>15, Zenon DEF vars
<1> QED
  BY <1>1, <1>2, <1>3, <1>4, <1>5, <1>6, <1>7, <1>8, <1>9, <1>10, <1>11,
     <1>12, <1>13, <1>14, <1>15, Zenon DEF Next

LEMMA NumbersStep == Numbers /\ [Next]_vars => Numbers'
<1> SUFFICES ASSUME Numbers, [Next]_vars PROVE Numbers'
  OBVIOUS
<1> USE BoundsAssumption
    DEF Numbers, Verdicts, Kinds, Counts, NoneOfBoth, app, pages, requests,
        store, backend
<1>1. CASE Login \/ Logout
  BY <1>1 DEF Login, Logout
<1>2. CASE Restart
  <2>1. credits' \in Nat
    BY <1>2 DEF Restart
  <2>2. inits' \in Nat
    BY <1>2 DEF Restart
  <2> QED BY <1>2, <2>1, <2>2 DEF Restart
<1>3. CASE Connect
  BY <1>3 DEF Connect
<1>4. CASE ReadStatus
  BY <1>4 DEF ReadStatus
<1>5. ASSUME NEW v \in Verdicts, LandStatus(v) PROVE Numbers'
  BY <1>5 DEF LandStatus
<1>6. ASSUME NEW kind \in {"plan", "nudges"}, OpenPage(kind) PROVE Numbers'
  BY <1>6 DEF OpenPage
<1>7. CASE Subscribe \/ Back
  BY <1>7 DEF Subscribe, Back
<1>8. CASE PressBuy
  BY <1>8 DEF PressBuy
<1>9. CASE Dispose
  BY <1>9 DEF Dispose, Left
<1>10. CASE StoreAnswers
  BY <1>10 DEF StoreAnswers
<1>11. CASE StoreReports
  BY <1>11 DEF StoreReports
<1>12. ASSUME NEW k \in Kinds, Deliver(k) PROVE Numbers'
  <2>1. deaf * subs \in Nat
    OBVIOUS
  <2>2. upgrades' \in Counts
    BY <1>12, <2>1 DEF Deliver
  <2>3. buys' \in Counts
    BY <1>12 DEF Deliver
  <2>4. stream' \in [Kinds -> Nat]
    BY <1>12 DEF Deliver
  <2> QED BY <1>12, <2>2, <2>3, <2>4 DEF Deliver
<1>13. ASSUME NEW w \in {"page", "gone"}, AnswerUpgrade(w) PROVE Numbers'
  BY <1>13 DEF AnswerUpgrade
<1>14. ASSUME NEW w \in {"page", "gone"}, AnswerBuy(w) PROVE Numbers'
  <2>1. credits' \in Nat /\ timers' \in Counts
    BY <1>14 DEF AnswerBuy, Credited, Answers
  <2> QED BY <1>14, <2>1 DEF AnswerBuy
<1>15. ASSUME NEW w \in {"page", "gone"}, HideLoader(w) PROVE Numbers'
  BY <1>15 DEF HideLoader
<1>16. CASE UNCHANGED vars
  BY <1>16 DEF vars
<1> QED
  BY <1>1, <1>2, <1>3, <1>4, <1>5, <1>6, <1>7, <1>8, <1>9, <1>10, <1>11,
     <1>12, <1>13, <1>14, <1>15, <1>16 DEF Next

LEMMA ScreenStep == Numbers /\ Screen /\ [Next]_vars => Screen'
<1> SUFFICES ASSUME Numbers, Screen, [Next]_vars PROVE Screen'
  OBVIOUS
<1> USE DEF Numbers, Screen, Pages, NoPage, Counts, NoneOfBoth, app, pages,
        requests, store, backend
<1>1. CASE Login \/ Logout \/ Connect
  BY <1>1 DEF Login, Logout, Connect
<1>2. CASE Restart
  BY <1>2 DEF Restart
<1>3. CASE ReadStatus
  BY <1>3 DEF ReadStatus
<1>4. ASSUME NEW v \in Verdicts, LandStatus(v) PROVE Screen'
  BY <1>4 DEF LandStatus
<1>5. ASSUME NEW kind \in {"plan", "nudges"}, OpenPage(kind) PROVE Screen'
  BY <1>5 DEF OpenPage
<1>6. CASE Subscribe
  BY <1>6 DEF Subscribe
<1>7. CASE PressBuy
  BY <1>7 DEF PressBuy
<1>8. CASE Back
  BY <1>8 DEF Back
<1>9. CASE Dispose
  BY <1>9 DEF Dispose, Left
<1>10. CASE StoreAnswers \/ StoreReports
  BY <1>10 DEF StoreAnswers, StoreReports
<1>11. ASSUME NEW k \in Kinds, Deliver(k) PROVE Screen'
  BY <1>11 DEF Deliver
<1>12. ASSUME NEW w \in {"page", "gone"}, AnswerUpgrade(w) PROVE Screen'
  BY <1>12 DEF AnswerUpgrade, PopIf, Pop
<1>13. ASSUME NEW w \in {"page", "gone"}, AnswerBuy(w) PROVE Screen'
  BY <1>13 DEF AnswerBuy, PopIf, Pop, Uncovered
<1>14. ASSUME NEW w \in {"page", "gone"}, HideLoader(w) PROVE Screen'
  BY <1>14 DEF HideLoader, Uncovered
<1>15. CASE UNCHANGED vars
  BY <1>15 DEF vars
<1> QED
  BY <1>1, <1>2, <1>3, <1>4, <1>5, <1>6, <1>7, <1>8, <1>9, <1>10, <1>11,
     <1>12, <1>13, <1>14, <1>15 DEF Next

\* Every variable keeps its type, and the requests of a page belong to a page
\* that makes them (Purchases).
THEOREM PurchaseTypes == Spec => []TypeOK
<1>1. Init => TypeOK
  <2>1. Init => Flags
    BY Zenon DEF Init, Flags
  <2>2. Init => Numbers
    BY BoundsAssumption
    DEF Init, Numbers, Counts, NoneOfBoth, Verdicts, Kinds
  <2>3. Init => Screen
    BY DEF Init, Screen, Pages, NoPage, NoneOfBoth
  <2> QED BY <2>1, <2>2, <2>3, TypesInParts, Zenon
<1>2. TypeOK /\ [Next]_vars => TypeOK'
  <2>1. TypeOK' <=> Flags' /\ Numbers' /\ Screen'
    BY DEF TypeOK, Flags, Numbers, Screen
  <2> QED
    BY <2>1, TypesInParts, FlagsStep, NumbersStep, ScreenStep, Zenon
<1> QED BY <1>1, <1>2, PTL DEF Spec

(***************************************************************************)
(* The premium status.                                                     *)
(***************************************************************************)

\* The preference and the checks that will set it are right, and the backend
\* never takes the status away.
StatusTrue == (prime \/ checks["premium"] > 0) => premium

\* UnlockedIsPremium: nothing opens the premium pages to an account that the
\* backend does not hold for premium.
THEOREM UnlockedTheorem == Spec => []UnlockedIsPremium
<1>1. Init => StatusTrue
  BY DEF Init, StatusTrue, Verdicts
<1>2. TypeOK /\ StatusTrue /\ [Next]_vars => StatusTrue'
  <2> SUFFICES ASSUME Flags, Numbers, StatusTrue, [Next]_vars
               PROVE  StatusTrue'
    BY TypesInParts
  <2> USE DEF StatusTrue, Numbers, Verdicts, app, pages, requests, store,
              backend
  <2>1. CASE Login
    BY <2>1 DEF Login
  <2>2. CASE Logout
    BY <2>2 DEF Logout
  <2>3. CASE Restart
    <3>1. /\ prime' = prime /\ checks'["premium"] = 0
          /\ premium => premium'
      <4>1. prime' = prime /\ checks' = [v \in Verdicts |-> 0]
        BY <2>3, Zenon DEF Restart
      <4>2. \/ premium' = premium
            \/ premium' = (premium \/ upgrades.page + upgrades.gone > 0)
        BY <2>3, Zenon DEF Restart
      <4>3. checks'["premium"] = 0
        BY <4>1
      <4>4. premium => premium'
        BY <4>2, Zenon
      <4> QED BY <4>1, <4>3, <4>4, Zenon
    <3> QED BY <3>1
  <2>4. CASE Connect
    BY <2>4 DEF Connect
  <2>5. CASE ReadStatus
    <3>1. premium' = premium /\ prime' = prime
      BY <2>5, Zenon DEF ReadStatus
    <3>2. checks'["premium"] > 0 => premium \/ checks["premium"] > 0
      BY <2>5 DEF ReadStatus
    <3> QED BY <3>1, <3>2
  <2>6. ASSUME NEW v \in Verdicts, LandStatus(v) PROVE StatusTrue'
    <3>1. premium' = premium
      BY <2>6, Zenon DEF LandStatus
    <3>2. checks'["premium"] > 0 => checks["premium"] > 0
      BY <2>6 DEF LandStatus
    <3>3. prime' => prime \/ (v = "premium" /\ checks[v] > 0)
      BY <2>6, Zenon DEF LandStatus, Flags
    <3> QED BY <3>1, <3>2, <3>3
  <2>7. ASSUME NEW kind \in {"plan", "nudges"}, OpenPage(kind)
        PROVE  StatusTrue'
    BY <2>7 DEF OpenPage
  <2>8. CASE Subscribe \/ PressBuy \/ Back \/ Dispose
    BY <2>8, Zenon DEF Subscribe, PressBuy, Back, Dispose
  <2>9. CASE StoreAnswers \/ StoreReports
    BY <2>9, Zenon DEF StoreAnswers, StoreReports
  <2>10. ASSUME NEW k \in Kinds, Deliver(k) PROVE StatusTrue'
    BY <2>10, Zenon DEF Deliver
  <2>11. ASSUME NEW w \in {"page", "gone"}, AnswerUpgrade(w)
         PROVE  StatusTrue'
    <3>1. PICK a \in Answers :
             /\ premium' \in (CASE a = "done" -> {TRUE}
                                [] a = "lost" -> {premium, TRUE}
                                [] OTHER -> {premium})
             /\ prime' = (prime \/ a = "done")
      BY <2>11, Zenon DEF AnswerUpgrade
    <3>2. checks' = checks
      BY <2>11, Zenon DEF AnswerUpgrade
    <3>3. CASE a = "done"
      <4>1. premium' = TRUE
        BY <3>1, <3>3
      <4> QED BY <4>1
    <3>4. CASE a = "lost"
      <4>1. (premium' = premium \/ premium' = TRUE) /\ prime' = prime
        BY <3>1, <3>4, Zenon DEF Flags
      <4> QED BY <3>2, <4>1, Zenon
    <3>5. CASE a # "done" /\ a # "lost"
      <4>1. premium' = premium /\ prime' = prime
        BY <3>1, <3>5, Zenon DEF Flags
      <4> QED BY <3>2, <4>1, Zenon
    <3> QED BY <3>3, <3>4, <3>5
  <2>12. ASSUME NEW w \in {"page", "gone"}, AnswerBuy(w) \/ HideLoader(w)
         PROVE  StatusTrue'
    BY <2>12, Zenon DEF AnswerBuy, HideLoader
  <2>13. CASE UNCHANGED vars
    BY <2>13, Zenon DEF vars
  <2> QED
    BY <2>1, <2>2, <2>3, <2>4, <2>5, <2>6, <2>7, <2>8, <2>9, <2>10, <2>11,
       <2>12, <2>13, Zenon DEF Next
<1>3. StatusTrue => UnlockedIsPremium
  BY DEF StatusTrue, UnlockedIsPremium
<1> QED BY <1>1, <1>2, <1>3, PurchaseTypes, PTL DEF Spec

(***************************************************************************)
(* The application is not popped away.                                     *)
(***************************************************************************)

\* A page that nothing crowded waits for one answer at most, and for none once
\* it leaves, so that each page is popped once.
OnePop ==
    ~crowded => /\ below
                /\ Awaited("page") <= 1
                /\ page.state = "leaving" => Awaited("page") = 0

\* AppStaysOpen: what is below the pages goes only after a page was reported to
\* twice or was left while it waited for an answer.
THEOREM StaysOpenTheorem == Spec => []AppStaysOpen
<1>1. Init => OnePop
  BY DEF Init, OnePop, Awaited, NoneOfBoth
<1>2. TypeOK /\ OnePop /\ [Next]_vars => OnePop'
  <2> SUFFICES ASSUME Flags, Numbers, Screen, OnePop, [Next]_vars
               PROVE  OnePop'
    BY TypesInParts
  <2> USE DEF OnePop, Numbers, Screen, Counts, Awaited, NoneOfBoth, NoPage,
              app, pages, requests, store, backend
  <2>1. CASE Login \/ Logout \/ Connect \/ ReadStatus
    BY <2>1, Zenon DEF Login, Logout, Connect, ReadStatus
  <2>2. CASE Restart
    BY <2>2 DEF Restart
  <2>3. ASSUME NEW v \in Verdicts, LandStatus(v) PROVE OnePop'
    BY <2>3, Zenon DEF LandStatus
  <2>4. ASSUME NEW kind \in {"plan", "nudges"}, OpenPage(kind) PROVE OnePop'
    BY <2>4 DEF OpenPage
  <2>5. CASE Subscribe
    BY <2>5 DEF Subscribe, Pages
  <2>6. CASE PressBuy \/ StoreAnswers \/ StoreReports
    BY <2>6, Zenon DEF PressBuy, StoreAnswers, StoreReports
  <2>7. CASE Back
    <3>1. /\ crowded' = (crowded \/ Awaited("page") > 0)
          /\ below' = below /\ upgrades' = upgrades /\ buys' = buys
      BY <2>7, Zenon DEF Back
    <3>2. CASE crowded \/ Awaited("page") > 0
      <4>1. crowded'
        BY <3>1, <3>2, Zenon
      <4> QED BY <4>1
    <3>3. CASE ~crowded /\ ~(Awaited("page") > 0)
      BY <3>1, <3>3
    <3> QED BY <3>2, <3>3
  <2>8. CASE Dispose
    BY <2>8 DEF Dispose, Left
  <2>9. ASSUME NEW k \in Kinds, Deliver(k) PROVE OnePop'
    <3>1. /\ below' = below /\ page' = page
          /\ upgrades' \in Counts /\ buys' \in Counts
      <4>1. Numbers'
        BY <2>9, NumbersStep, Zenon DEF Next
      <4> QED BY <2>9, <4>1, Zenon DEF Deliver
    <3>2. /\ crowded => crowded'
          /\ Awaited("page")' > Awaited("page")
             /\ (Awaited("page")' > 1 \/ page.state = "leaving") => crowded'
      BY <2>9, Zenon DEF Deliver
    <3>3. Awaited("page")' \in Nat /\ Awaited("page") \in Nat
      BY <3>1
    <3> QED BY <3>1, <3>2, <3>3
  <2>10. ASSUME NEW w \in {"page", "gone"}, AnswerUpgrade(w) PROVE OnePop'
    <3>1. /\ upgrades[w] > 0 /\ upgrades' = [upgrades EXCEPT ![w] = @ - 1]
          /\ buys' = buys /\ crowded' = crowded
      BY <2>10, Zenon DEF AnswerUpgrade
    <3>2. \/ UNCHANGED <<page, below>>
          \/ w = "page" /\ Pop
      BY <2>10, Zenon DEF AnswerUpgrade, PopIf
    <3>3. CASE UNCHANGED <<page, below>>
      BY <3>1, <3>3
    <3>4. CASE w = "page" /\ Pop
      <4>1. upgrades'.page = upgrades.page - 1 /\ upgrades["page"] > 0
        BY <3>1, <3>4
      <4>2. below' = (below /\ page.state # "leaving")
        BY <3>4, Zenon DEF Pop
      <4>3. Awaited("page")' = Awaited("page") - 1 /\ Awaited("page") > 0
        BY <3>1, <4>1
      <4>4. ~crowded => below /\ page.state # "leaving" /\ Awaited("page") <= 1
        BY <4>3
      <4>5. ~crowded => below' /\ Awaited("page")' = 0
        <5>1. ~crowded => below'
          BY <4>2, <4>4, Zenon
        <5>2. Awaited("page") \in Nat
          OBVIOUS
        <5> HIDE DEF Awaited
        <5> QED BY <4>3, <4>4, <5>1, <5>2
      <4> QED BY <3>1, <4>5
    <3> QED BY <3>2, <3>3, <3>4
  <2>11. ASSUME NEW w \in {"page", "gone"}, AnswerBuy(w) PROVE OnePop'
    <3>1. /\ buys[w] > 0 /\ buys' = [buys EXCEPT ![w] = @ - 1]
          /\ upgrades' = upgrades /\ crowded' = crowded
      BY <2>11, Zenon DEF AnswerBuy
    <3>2. \/ UNCHANGED <<page, below>>
          \/ w = "page" /\ Pop
      BY <2>11, Zenon DEF AnswerBuy, PopIf
    <3>3. CASE UNCHANGED <<page, below>>
      BY <3>1, <3>3
    <3>4. CASE w = "page" /\ Pop
      <4>1. buys'.page = buys.page - 1 /\ buys["page"] > 0
        BY <3>1, <3>4
      <4>2. below' = (below /\ page.state # "leaving")
        BY <3>4, Zenon DEF Pop
      <4>3. Awaited("page")' = Awaited("page") - 1 /\ Awaited("page") > 0
        BY <3>1, <4>1
      <4>4. ~crowded => below /\ page.state # "leaving" /\ Awaited("page") <= 1
        BY <4>3
      <4>5. ~crowded => below' /\ Awaited("page")' = 0
        <5>1. ~crowded => below'
          BY <4>2, <4>4, Zenon
        <5>2. Awaited("page") \in Nat
          OBVIOUS
        <5> HIDE DEF Awaited
        <5> QED BY <4>3, <4>4, <5>1, <5>2
      <4> QED BY <3>1, <4>5
    <3> QED BY <3>2, <3>3, <3>4
  <2>12. ASSUME NEW w \in {"page", "gone"}, HideLoader(w) PROVE OnePop'
    BY <2>12, Zenon DEF HideLoader
  <2>13. CASE UNCHANGED vars
    BY <2>13, Zenon DEF vars
  <2> QED
    BY <2>1, <2>2, <2>3, <2>4, <2>5, <2>6, <2>7, <2>8, <2>9, <2>10, <2>11,
       <2>12, <2>13, Zenon DEF Next
<1>3. OnePop => AppStaysOpen
  BY DEF OnePop, AppStaysOpen
<1> QED BY <1>1, <1>2, <1>3, PurchaseTypes, PTL DEF Spec

(***************************************************************************)
(* The packs of nudges.                                                    *)
(***************************************************************************)

\* Every pack, every request for one, every report and every purchase the store
\* has yet to report on has a press or an unasked report of its own.
EachOnItsOwn ==
    credits + buys.page + buys.gone + asked + stream["bought"]
        + stream["failed"] + stream["silent"] + stream["error"]
    <= presses + late

\* PacksAreReported: however many listen to a report, and whatever answers are
\* lost, each pack has a press or an unasked report of its own.
THEOREM PacksTheorem == Spec => []PacksAreReported
<1>1. Init => EachOnItsOwn
  BY DEF Init, EachOnItsOwn, Kinds, NoneOfBoth
<1>2. TypeOK /\ EachOnItsOwn /\ [Next]_vars => EachOnItsOwn'
  <2> SUFFICES ASSUME Numbers, EachOnItsOwn, [Next]_vars
               PROVE  EachOnItsOwn'
    BY TypesInParts
  <2> USE BoundsAssumption
      DEF EachOnItsOwn, Numbers, Counts, Kinds, NoneOfBoth, app, pages,
          requests, store, backend
  <2>1. CASE Login \/ Logout \/ Connect \/ ReadStatus
    BY <2>1, Zenon DEF Login, Logout, Connect, ReadStatus
  <2>2. CASE Restart
    <3>1. credits' <= credits + buys.page + buys.gone /\ credits' \in Nat
      BY <2>2 DEF Restart
    <3>2. /\ buys' = NoneOfBoth /\ asked' = 0 /\ stream' = [k \in Kinds |-> 0]
          /\ presses' = presses /\ late' = late
      BY <2>2, Zenon DEF Restart
    <3>3. buys' \in Counts /\ stream' \in [Kinds -> Nat]
      BY <3>2
    <3>4. /\ buys'.page = 0 /\ buys'.gone = 0
          /\ stream'["bought"] = 0 /\ stream'["failed"] = 0
          /\ stream'["silent"] = 0 /\ stream'["error"] = 0
      BY <3>2
    <3>5. credits' <= presses + late
      BY <3>1
    <3>6. credits' \in Nat /\ asked' = 0 /\ presses' + late' = presses + late
      BY <3>1, <3>2
    <3> QED BY <3>3, <3>4, <3>5, <3>6
  <2>3. ASSUME NEW v \in Verdicts, LandStatus(v) PROVE EachOnItsOwn'
    BY <2>3, Zenon DEF LandStatus
  <2>4. ASSUME NEW kind \in {"plan", "nudges"}, OpenPage(kind)
        PROVE  EachOnItsOwn'
    BY <2>4, Zenon DEF OpenPage
  <2>5. CASE Subscribe \/ Back
    BY <2>5, Zenon DEF Subscribe, Back
  <2>6. CASE PressBuy
    BY <2>6 DEF PressBuy
  <2>7. CASE Dispose
    BY <2>7 DEF Dispose, Left
  <2>8. CASE StoreAnswers
    BY <2>8 DEF StoreAnswers
  <2>9. CASE StoreReports
    BY <2>9 DEF StoreReports
  <2>10. ASSUME NEW k \in Kinds, Deliver(k) PROVE EachOnItsOwn'
    <3>1. /\ stream[k] > 0 /\ stream' = [stream EXCEPT ![k] = @ - 1]
          /\ buys' = buys \/ buys' = [buys EXCEPT !.page = @ + 1]
          /\ UNCHANGED <<credits, asked, presses, late>>
      BY <2>10, Zenon DEF Deliver
    <3>2. buys'.page + buys'.gone <= buys.page + buys.gone + 1
          /\ buys'.page \in Nat /\ buys'.gone \in Nat
      BY <3>1
    <3> QED BY <3>1, <3>2
  <2>11. ASSUME NEW w \in {"page", "gone"}, AnswerUpgrade(w)
         PROVE  EachOnItsOwn'
    BY <2>11, Zenon DEF AnswerUpgrade
  <2>12. ASSUME NEW w \in {"page", "gone"}, AnswerBuy(w)
         PROVE  EachOnItsOwn'
    <3>1. credits' \in {credits, credits + 1}
      BY <2>12 DEF AnswerBuy, Credited, Answers
    <3>2. /\ buys[w] > 0 /\ buys' = [buys EXCEPT ![w] = @ - 1]
          /\ UNCHANGED <<asked, stream, presses, late>>
      BY <2>12, Zenon DEF AnswerBuy
    <3> QED BY <3>1, <3>2
  <2>13. ASSUME NEW w \in {"page", "gone"}, HideLoader(w)
         PROVE  EachOnItsOwn'
    BY <2>13, Zenon DEF HideLoader
  <2>14. CASE UNCHANGED vars
    BY <2>14, Zenon DEF vars
  <2> QED
    BY <2>1, <2>2, <2>3, <2>4, <2>5, <2>6, <2>7, <2>8, <2>9, <2>10, <2>11,
       <2>12, <2>13, <2>14, Zenon DEF Next
<1>3. TypeOK /\ EachOnItsOwn => PacksAreReported
  BY BoundsAssumption DEF TypeOK, EachOnItsOwn, PacksAreReported, Counts, Kinds
<1> QED BY <1>1, <1>2, <1>3, PurchaseTypes, PTL DEF Spec

(***************************************************************************)
(* The loader of the nudge page.                                           *)
(***************************************************************************)

\* The nudge page's loader is up, and the store has had the press.
Covered == page.kind = "nudges" /\ loader = "page" /\ ~unheard

\* What the loader may be waiting for, in the order in which it comes.
AtStore == Covered /\ asked > 0
Reported(k) == Covered /\ stream[k] > 0
Requested == Covered /\ buys.page > 0
Timed == Covered /\ timers.page > 0

\* The loader never waits for nothing.
WaitsForSomething ==
    Covered => AtStore \/ (\E k \in Kinds : Reported(k)) \/ Requested \/ Timed

\* What a step under the loader leaves of what it waits for.
GoesOn ==
    /\ Covered'
    /\ asked > 0 => asked' > 0 \/ \E k \in Kinds : stream'[k] > 0
    /\ \A k \in Kinds : stream[k] > 0 => stream'[k] > 0 \/ buys'.page > 0
    /\ buys.page > 0 => buys'.page > 0 \/ timers'.page > 0
    /\ timers.page > 0 => timers'.page > 0

LEMMA GoesOnStep ==
    ASSUME Numbers, Screen, Covered, [Next]_vars, loader' = "page"
    PROVE  GoesOn
<1> USE DEF GoesOn, Covered, Numbers, Counts, Kinds, app, pages, requests, store,
            backend
<1>0. page.kind = "nudges" /\ loader = "page" /\ ~unheard /\ page # NoPage
      /\ page.state \in {"up", "leaving"}
  BY DEF Screen, NoPage, Pages
<1>1. CASE Login \/ Connect \/ ReadStatus
  BY <1>0, <1>1 DEF Login, Connect, ReadStatus
<1>2. CASE Logout \/ Restart \/ Dispose
  BY <1>0, <1>2 DEF Logout, Restart, Dispose
<1>3. ASSUME NEW v \in Verdicts, LandStatus(v) PROVE GoesOn
  BY <1>0, <1>3 DEF LandStatus
<1>4. ASSUME NEW kind \in {"plan", "nudges"}, OpenPage(kind) PROVE GoesOn
  BY <1>0, <1>4 DEF OpenPage
<1>5. CASE Subscribe \/ PressBuy
  BY <1>0, <1>5 DEF Subscribe, PressBuy
<1>6. CASE Back
  <2>1. page'.kind = page.kind
    BY <1>6 DEF Back, Screen, Pages, NoPage
  <2> QED BY <1>0, <1>6, <2>1 DEF Back
<1>7. CASE StoreAnswers
  <2>1. PICK k \in Kinds : stream' = [stream EXCEPT ![k] = @ + 1]
    BY <1>7 DEF StoreAnswers
  <2>2. /\ stream'[k] > 0
        /\ \A j \in Kinds : stream[j] > 0 => stream'[j] > 0
    BY <2>1
  <2>3. UNCHANGED <<page, loader, buys, timers, unheard>>
    BY <1>7 DEF StoreAnswers
  <2> QED BY <1>0, <2>1, <2>2, <2>3
<1>8. CASE StoreReports
  <2>1. PICK k \in Kinds : stream' = [stream EXCEPT ![k] = @ + 1]
    BY <1>8 DEF StoreReports
  <2>2. \A j \in Kinds : stream[j] > 0 => stream'[j] > 0
    BY <2>1
  <2>3. UNCHANGED <<page, loader, buys, timers, asked, unheard>>
    BY <1>8 DEF StoreReports
  <2> QED BY <1>0, <2>2, <2>3
<1>9. ASSUME NEW k \in Kinds, Deliver(k) PROVE GoesOn
  <2>1. k # "error"
    BY <1>0, <1>9 DEF Deliver
  <2>2. buys' = [buys EXCEPT !.page = @ + 1]
    BY <1>0, <1>9, <2>1 DEF Deliver
  <2>3. buys'.page > 0
    BY <2>2
  <2>4. UNCHANGED <<page, asked, timers, unheard>>
    BY <1>9 DEF Deliver
  <2> QED BY <1>0, <2>3, <2>4
<1>10. ASSUME NEW w \in {"page", "gone"}, AnswerUpgrade(w) PROVE GoesOn
  <2>1. UNCHANGED <<loader, asked, stream, buys, timers, unheard>>
    BY <1>10 DEF AnswerUpgrade
  <2>2. page'.kind = page.kind
    BY <1>10 DEF AnswerUpgrade, PopIf, Pop, Screen, Pages, NoPage
  <2> QED BY <1>0, <2>1, <2>2
<1>11. ASSUME NEW w \in {"page", "gone"}, AnswerBuy(w) PROVE GoesOn
  <2>1. PICK a \in Answers :
          /\ loader' \in (IF a = "lost" \/ (a = "done" /\ w = "gone")
                         THEN {loader} ELSE Uncovered(w))
          /\ timers' = IF a = "offline" THEN timers
                       ELSE [timers EXCEPT ![w] = @ + 1]
          /\ PopIf(w = "page" /\ a = "done")
    BY <1>11 DEF AnswerBuy
  <2>2. w = "page" => a = "lost"
    BY <1>0, <2>1 DEF Uncovered, Answers
  <2>3. timers.page > 0 => timers'.page > 0
    BY <2>1
  <2>4. w = "page" => timers'.page > 0
    BY <2>1, <2>2
  <2>5. w = "gone" => buys'.page = buys.page
    BY <1>11 DEF AnswerBuy
  <2>6. page'.kind = page.kind
    BY <2>1 DEF PopIf, Pop, Screen, Pages, NoPage
  <2>7. UNCHANGED <<asked, stream, unheard>>
    BY <1>11 DEF AnswerBuy
  <2> QED BY <1>0, <2>3, <2>4, <2>5, <2>6, <2>7
<1>12. ASSUME NEW w \in {"page", "gone"}, HideLoader(w) PROVE GoesOn
  <2>1. w = "gone"
    BY <1>0, <1>12 DEF HideLoader, Uncovered
  <2>2. timers'.page = timers.page
    BY <1>12, <2>1 DEF HideLoader
  <2> QED BY <1>0, <1>12, <2>2 DEF HideLoader
<1>13. CASE UNCHANGED vars
  BY <1>0, <1>13 DEF vars
<1> QED
  BY <1>1, <1>2, <1>3, <1>4, <1>5, <1>6, <1>7, <1>8, <1>9, <1>10, <1>11,
     <1>12, <1>13 DEF Next

\* The loader comes with a purchase asked for.
LEMMA CoverBegins ==
    ASSUME Numbers, Screen, [Next]_vars, ~Covered, Covered'
    PROVE  asked' > 0
<1> USE DEF Covered, Numbers, app, pages, requests, store, backend
<1>1. CASE PressBuy
  <2>1. asked' \in {asked, asked + 1} /\ unheard' = (asked' = asked)
    BY <1>1, Zenon DEF PressBuy
  <2>2. asked' # asked
    BY <2>1, Zenon
  <2> QED BY <2>1, <2>2
<1>2. CASE Login \/ Logout \/ Connect \/ ReadStatus \/ StoreAnswers
             \/ StoreReports \/ UNCHANGED vars
  <2>1. UNCHANGED <<page, loader, unheard>>
    BY <1>2, Zenon DEF Login, Logout, Connect, ReadStatus, StoreAnswers,
                       StoreReports, vars
  <2> QED BY <2>1, Zenon
<1>3. CASE Restart \/ Dispose
  BY <1>3 DEF Restart, Dispose, NoPage
<1>4. ASSUME NEW v \in Verdicts, LandStatus(v) PROVE FALSE
  BY <1>4, Zenon DEF LandStatus
<1>5. ASSUME NEW kind \in {"plan", "nudges"}, OpenPage(kind) PROVE FALSE
  BY <1>5 DEF OpenPage
<1>6. CASE Subscribe \/ Back
  BY <1>6 DEF Subscribe, Back, Screen, Pages, NoPage
<1>7. ASSUME NEW k \in Kinds, Deliver(k) PROVE FALSE
  BY <1>7 DEF Deliver
<1>8. ASSUME NEW w \in {"page", "gone"}, AnswerUpgrade(w) PROVE FALSE
  BY <1>8 DEF AnswerUpgrade, PopIf, Pop, Screen, Pages, NoPage
<1>9. ASSUME NEW w \in {"page", "gone"}, AnswerBuy(w) PROVE FALSE
  <2>1. loader' # "page" \/ loader' = loader
    BY <1>9 DEF AnswerBuy, Uncovered
  <2>2. page'.kind = page.kind
    BY <1>9 DEF AnswerBuy, PopIf, Pop, Screen, Pages, NoPage
  <2>3. unheard' = unheard
    BY <1>9, Zenon DEF AnswerBuy
  <2> QED BY <2>1, <2>2, <2>3
<1>10. ASSUME NEW w \in {"page", "gone"}, HideLoader(w) PROVE FALSE
  BY <1>10 DEF HideLoader, Uncovered
<1> QED
  BY <1>1, <1>2, <1>3, <1>4, <1>5, <1>6, <1>7, <1>8, <1>9, <1>10 DEF Next

LEMMA WaitsStep ==
    ASSUME Numbers, Screen, WaitsForSomething, [Next]_vars
    PROVE  WaitsForSomething'
<1>1. SUFFICES ASSUME Covered'
               PROVE  \/ asked' > 0 \/ \E k \in Kinds : stream'[k] > 0
                      \/ buys'.page > 0 \/ timers'.page > 0
  BY DEF WaitsForSomething, AtStore, Reported, Requested, Timed
<1>2. CASE ~Covered
  BY <1>1, <1>2, CoverBegins
<1>3. CASE Covered
  <2>1. GoesOn
    BY <1>1, <1>3, GoesOnStep DEF Covered
  <2> QED
    BY <1>3, <2>1
       DEF GoesOn, WaitsForSomething, AtStore, Reported, Requested, Timed
<1> QED BY <1>2, <1>3

\* One report; what it leaves under the loader is a request.
Settles(k) == Reported(k) ~> (Requested \/ loader # "page")

LEMMA ReportEnds ==
    ASSUME NEW k \in Kinds
    PROVE  /\ []Numbers /\ []Screen /\ [][Next]_vars
           /\ []<>~(stream[k] > 0) \/ []<><<Deliver(k)>>_vars
           => Settles(k)
<1>1. Numbers /\ Screen /\ Reported(k) /\ [Next]_vars
        => Reported(k)' \/ Requested' \/ (loader # "page")'
  BY GoesOnStep DEF GoesOn, Reported, Requested
<1>2. Numbers /\ Screen /\ Reported(k) /\ <<Deliver(k)>>_vars
        => Requested' \/ (loader # "page")'
  <2> SUFFICES ASSUME Numbers, Screen, Reported(k), Deliver(k), loader' = "page"
               PROVE  Requested'
    OBVIOUS
  <2>1. page.kind = "nudges" /\ loader = "page"
    BY DEF Reported, Covered
  <2>2. k # "error" /\ page' = page /\ unheard' = unheard
    BY <2>1 DEF Deliver
  <2>3. buys' = [buys EXCEPT !.page = @ + 1]
    BY <2>1, <2>2 DEF Deliver
  <2>4. buys'.page > 0
    BY <2>3 DEF Numbers, Counts
  <2> QED BY <2>1, <2>2, <2>4 DEF Requested, Covered, Reported
<1>3. Reported(k) => stream[k] > 0
  BY DEF Reported
<1> QED BY <1>1, <1>2, <1>3, PTL DEF Settles

\* LoaderGoes: the loader of the nudge page goes once the store has had the
\* press, with whatever reports and answers, late timers and further purchases.
THEOREM LoaderTheorem == FairSpec => LoaderGoes
<1>1. Init => WaitsForSomething
  BY DEF Init, WaitsForSomething, Covered
<1>2. TypeOK => Numbers /\ Screen
  BY TypesInParts
<1>3. Spec => []Numbers /\ []Screen /\ []WaitsForSomething /\ [][Next]_vars
  BY <1>1, <1>2, WaitsStep, PurchaseTypes, PTL DEF Spec
<1>4. Numbers /\ Screen /\ AtStore /\ [Next]_vars
        => AtStore' \/ (\E k \in Kinds : Reported(k))' \/ (loader # "page")'
  BY GoesOnStep DEF GoesOn, AtStore, Reported
<1>5. Numbers /\ Screen /\ AtStore /\ <<StoreAnswers>>_vars
        => (\E k \in Kinds : Reported(k))'
  <2> SUFFICES ASSUME Numbers, AtStore, StoreAnswers
               PROVE  \E k \in Kinds : Reported(k)'
    OBVIOUS
  <2>1. PICK k \in Kinds : stream' = [stream EXCEPT ![k] = @ + 1]
    BY DEF StoreAnswers
  <2>2. stream'[k] > 0
    BY <2>1 DEF Numbers
  <2> QED BY <2>2 DEF StoreAnswers, AtStore, Reported, Covered, pages
<1>6. AtStore => asked > 0
  BY DEF AtStore
<1>7. FairSpec => \A k \in Kinds : Settles(k)
  BY <1>3, ReportEnds DEF FairSpec, ReportsArrive
<1>8. FairSpec => /\ Settles("bought") /\ Settles("failed")
                  /\ Settles("silent") /\ Settles("error")
  BY <1>7 DEF Kinds
<1>9. (\E k \in Kinds : Reported(k))
        => \/ Reported("bought") \/ Reported("failed")
           \/ Reported("silent") \/ Reported("error")
  BY DEF Kinds
<1>10. Numbers /\ Screen /\ Requested /\ [Next]_vars
         => Requested' \/ Timed' \/ (loader # "page")'
  BY GoesOnStep DEF GoesOn, Requested, Timed
<1>11. Numbers /\ Screen /\ Requested /\ <<AnswerBuy("page")>>_vars
         => Timed' \/ (loader # "page")'
  <2> SUFFICES ASSUME Numbers, Screen, Requested, AnswerBuy("page"),
                      loader' = "page"
               PROVE  Timed'
    OBVIOUS
  <2>1. PICK a \in Answers :
          /\ loader' \in (IF a = "lost" \/ (a = "done" /\ "page" = "gone")
                         THEN {loader} ELSE Uncovered("page"))
          /\ timers' = IF a = "offline" THEN timers
                       ELSE [timers EXCEPT !["page"] = @ + 1]
          /\ PopIf("page" = "page" /\ a = "done")
    BY DEF AnswerBuy
  <2>2. a = "lost"
    BY <2>1 DEF Uncovered, Requested, Covered
  <2>3. timers'.page > 0 /\ page' = page
    BY <2>1, <2>2 DEF PopIf, Numbers, Counts
  <2>4. unheard' = unheard
    BY DEF AnswerBuy, store
  <2> QED BY <2>3, <2>4 DEF Timed, Requested, Covered
<1>12. Requested => buys.page > 0
  BY DEF Requested
<1>13. Numbers /\ Screen /\ Timed /\ [Next]_vars
         => Timed' \/ (loader # "page")'
  BY GoesOnStep DEF GoesOn, Timed
<1>14. Numbers /\ Screen /\ Timed /\ <<HideLoader("page")>>_vars
         => (loader # "page")'
  BY DEF HideLoader, Uncovered
<1>15. Timed => timers.page > 0
  BY DEF Timed
<1>16. /\ WaitsForSomething
       /\ page.kind = "nudges" /\ loader = "page" /\ ~unheard
       => AtStore \/ (\E k \in Kinds : Reported(k)) \/ Requested \/ Timed
  BY DEF WaitsForSomething, Covered
<1>17. FairSpec => Spec /\ PurchasesReported /\ RequestsEnd /\ TimersFire
  BY DEF FairSpec
<1> QED
  BY <1>3, <1>4, <1>5, <1>6, <1>8, <1>9, <1>10, <1>11, <1>12, <1>13, <1>14,
     <1>15, <1>16, <1>17, PTL
     DEF LoaderGoes, Settles, PurchasesReported, RequestsEnd, TimersFire
==============================================================================
