------------------------------ MODULE Purchases ------------------------------
(***************************************************************************)
(* Purchases in the application: PaymentService, the page of the premium   *)
(* plan and the page that sells nudges, for one account.  All of them      *)
(* listen to the store's one stream of reports, and none looks at the      *)
(* product a report is about.  PaymentService subscribes once more at      *)
(* every login and never cancels; a plan page registers a callback with it *)
(* and never removes it; a nudge page cancels its own subscription when it *)
(* is disposed.                                                            *)
(*                                                                         *)
(* A page is popped first and disposed when the transition is over; in     *)
(* between it is still mounted, and a pop from it takes the page below.    *)
(* A loader covers the whole screen, so that only the system's back button *)
(* works until it is removed.                                              *)
(***************************************************************************)
EXTENDS Naturals

CONSTANTS
    MaxPages,       \* bound on the pages opened
    MaxPresses,     \* bound on the presses of a buy button
    MaxLate,        \* bound on the reports the store sends unasked
    MaxSessions     \* bound on logins and restarts

ASSUME BoundsAssumption ==
    /\ MaxPages \in Nat /\ MaxPresses \in Nat
    /\ MaxLate \in Nat /\ MaxSessions \in Nat

VARIABLES
    user,           \* somebody is logged in
    prime,          \* preference ISPRIME
    subs,           \* PaymentService's subscriptions
    inits,          \* calls of initConnection that await the store
    checks,         \* checks[v]: varifydate under way, v what it has read
    deaf,           \* callbacks of plan pages that are gone
    page,           \* the page on top: its kind and its state
    loader,         \* the loader that covers the screen, and whose it is
    below,          \* the page the others were opened from is still there
    upgrades,       \* change_status under way: for the page, for pages gone
    buys,           \* budge_buy under way: for the page, for pages gone
    timers,         \* hideLoader's timers: of the page, of pages gone
    asked,          \* purchases the store has and has not reported on
    stream,         \* stream[k]: the store's reports of kind k under way
    premium,        \* the backend's status of the account
    credits,        \* the backend's packs of nudges
    opened, presses, late, sessions,    \* counters for the bounds
    unheard,        \* history: the last press did not reach the store
    crowded         \* history: a page was reported to twice, or left too soon

app == <<user, prime, subs, inits, checks, sessions>>
pages == <<page, loader, below, opened, crowded>>
requests == <<upgrades, buys, timers>>
store == <<asked, stream, presses, late, unheard>>
backend == <<premium, credits>>
vars == <<app, deaf, pages, requests, store, backend>>

\* bought: purchased, and acknowledged on Android; failed: a state that calls
\* the error listeners; silent: one that does nothing in PaymentService; error:
\* a report on the stream of errors.
Kinds == {"bought", "failed", "silent", "error"}

Verdicts == {"unread", "premium", "free"}

NoPage == [kind |-> "none", state |-> "none"]
Pages == {NoPage} \union [kind : {"plan"}, state : {"up", "leaving"}]
                  \union [kind : {"nudges"},
                          state : {"opening", "up", "leaving"}]
Counts == [page : Nat, gone : Nat]
NoneOfBoth == [page |-> 0, gone |-> 0]
Left(c) == [page |-> 0, gone |-> c.page + c.gone]

TypeOK ==
    /\ user \in BOOLEAN /\ prime \in BOOLEAN
    /\ subs \in Nat /\ inits \in Nat /\ deaf \in Nat
    /\ checks \in [Verdicts -> Nat]
    /\ page \in Pages
    /\ loader \in {"none", "page", "plan", "nudges"}
    /\ below \in BOOLEAN /\ crowded \in BOOLEAN /\ unheard \in BOOLEAN
    /\ upgrades \in Counts /\ buys \in Counts /\ timers \in Counts
    /\ asked \in Nat /\ stream \in [Kinds -> Nat]
    /\ premium \in BOOLEAN /\ credits \in Nat
    /\ opened \in 0..MaxPages /\ presses \in 0..MaxPresses
    /\ late \in 0..MaxLate /\ sessions \in 0..MaxSessions
    /\ page = NoPage => loader # "page" /\ upgrades.page = 0
    /\ page.kind # "nudges" => buys.page = 0 /\ timers.page = 0
    /\ page.kind = "nudges" => upgrades.page = 0
    /\ page.state = "opening" => buys.page = 0 /\ loader = "none"

Init ==
    /\ user = FALSE /\ prime = FALSE
    /\ subs = 0 /\ inits = 0 /\ deaf = 0
    /\ checks = [v \in Verdicts |-> 0]
    /\ page = NoPage /\ loader = "none" /\ below = TRUE /\ crowded = FALSE
    /\ upgrades = NoneOfBoth /\ buys = NoneOfBoth /\ timers = NoneOfBoth
    /\ asked = 0 /\ stream = [k \in Kinds |-> 0]
    /\ premium = FALSE /\ credits = 0
    /\ opened = 0 /\ presses = 0 /\ late = 0 /\ sessions = 0 /\ unheard = FALSE

(***************************************************************************)
(* The session and the check of the premium status.                        *)
(***************************************************************************)

\* userLogin or userRegister, and initConnection up to its first await.
Login ==
    /\ ~user /\ sessions < MaxSessions
    /\ user' = TRUE /\ prime' = premium
    /\ inits' = inits + 1 /\ sessions' = sessions + 1
    /\ UNCHANGED <<subs, checks, deaf, pages, requests, store, backend>>

\* logout: the preferences are cleared.  No subscription is cancelled.
Logout ==
    /\ user /\ page = NoPage /\ loader = "none"
    /\ user' = FALSE /\ prime' = FALSE
    /\ UNCHANGED <<subs, inits, checks, sessions, deaf, pages, requests, store,
                   backend>>

\* The application is killed and started anew; what it has posted may have
\* reached the backend, and what the store reports again comes unasked.
Restart ==
    /\ sessions < MaxSessions
    /\ sessions' = sessions + 1
    /\ inits' = (IF user THEN 1 ELSE 0) /\ subs' = 0 /\ deaf' = 0
    /\ checks' = [v \in Verdicts |-> 0]
    /\ page' = NoPage /\ loader' = "none" /\ below' = TRUE /\ crowded' = FALSE
    /\ premium' \in {premium, premium \/ upgrades.page + upgrades.gone > 0}
    /\ credits' \in {credits, credits + buys.page + buys.gone}
    /\ upgrades' = NoneOfBoth /\ buys' = NoneOfBoth /\ timers' = NoneOfBoth
    /\ asked' = 0 /\ stream' = [k \in Kinds |-> 0] /\ unheard' = FALSE
    /\ UNCHANGED <<user, prime, opened, presses, late>>

\* initConnection goes on: the status is asked for, and one more subscription.
Connect ==
    /\ inits > 0
    /\ inits' = inits - 1 /\ subs' = subs + 1
    /\ checks' = [checks EXCEPT !["unread"] = @ + 1]
    /\ UNCHANGED <<user, prime, sessions, deaf, pages, requests, store,
                   backend>>

\* The backend answers _getSubscriptionStatus.
ReadStatus ==
    LET v == IF premium THEN "premium" ELSE "free"
    IN  /\ checks["unread"] > 0
        /\ checks' = [checks EXCEPT !["unread"] = @ - 1, ![v] = @ + 1]
        /\ UNCHANGED <<user, prime, subs, inits, sessions, deaf, pages,
                       requests, store, backend>>

\* Its answer arrives: a failure counts as not premium, and no answer at all
\* leaves the preference as it is.
LandStatus(v) ==
    /\ checks[v] > 0
    /\ checks' = [checks EXCEPT ![v] = @ - 1]
    /\ prime' \in {prime, FALSE} \union (IF v = "premium" THEN {TRUE} ELSE {})
    /\ UNCHANGED <<user, subs, inits, sessions, deaf, pages, requests, store,
                   backend>>

(***************************************************************************)
(* The pages.                                                              *)
(***************************************************************************)

\* A plan page registers its callback; a nudge page waits for the store.
OpenPage(kind) ==
    /\ user /\ below /\ page = NoPage /\ loader = "none" /\ opened < MaxPages
    /\ page' = [kind |-> kind,
                state |-> IF kind = "plan" THEN "up" ELSE "opening"]
    /\ opened' = opened + 1
    /\ UNCHANGED <<app, deaf, loader, below, crowded, requests, store, backend>>

\* initPlatformState of the nudge page has subscribed.
Subscribe ==
    /\ page.state = "opening"
    /\ page' = [page EXCEPT !.state = "up"]
    /\ UNCHANGED <<app, deaf, loader, below, opened, crowded, requests, store,
                   backend>>

\* The buy button.  The request may fail: the plan page catches what it throws,
\* and the nudge page neither awaits it nor catches anything.  Either way, and
\* when the page has no product to ask for, its loader is up and the store has
\* nothing to report.
PressBuy ==
    /\ page.state = "up" /\ loader = "none" /\ presses < MaxPresses
    /\ presses' = presses + 1
    /\ loader' = "page"
    /\ asked' \in {asked, asked + 1}
    /\ unheard' = (asked' = asked)
    /\ UNCHANGED <<app, deaf, page, below, opened, crowded, requests, stream,
                   late, backend>>

Awaited(w) == upgrades[w] + buys[w]

\* The arrow of the page, or the system's back button.
Back ==
    /\ page.state \in {"opening", "up"}
    /\ page' = [page EXCEPT !.state = "leaving"]
    /\ crowded' = (crowded \/ Awaited("page") > 0)
    /\ UNCHANGED <<app, deaf, loader, below, opened, requests, store, backend>>

\* Variant: a disposed page still counts as mounted for its requests.
DisposeQuietly ==
    /\ page.state = "leaving"
    /\ page' = NoPage
    /\ loader' = IF loader = "page" THEN page.kind ELSE loader
    /\ deaf' = IF page.kind = "plan" THEN deaf + 1 ELSE deaf
    /\ UNCHANGED <<app, below, opened, crowded, requests, store, backend>>

\* The transition is over and the page is disposed; its loader, its callback
\* and its requests stay.
Dispose ==
    /\ page.state = "leaving"
    /\ page' = NoPage
    /\ loader' = IF loader = "page" THEN page.kind ELSE loader
    /\ deaf' = IF page.kind = "plan" THEN deaf + 1 ELSE deaf
    /\ upgrades' = Left(upgrades) /\ buys' = Left(buys)
    /\ timers' = Left(timers)
    /\ UNCHANGED <<app, below, opened, crowded, store, backend>>

(***************************************************************************)
(* The store.                                                              *)
(***************************************************************************)

\* A purchase that was asked for is reported.
StoreAnswers ==
    /\ asked > 0
    /\ asked' = asked - 1
    /\ \E k \in Kinds : stream' = [stream EXCEPT ![k] = @ + 1]
    /\ UNCHANGED <<app, deaf, pages, requests, presses, late, unheard, backend>>

\* A purchase is reported again, or long after it was asked for.
StoreReports ==
    /\ late < MaxLate
    /\ late' = late + 1
    /\ \E k \in Kinds : stream' = [stream EXCEPT ![k] = @ + 1]
    /\ UNCHANGED <<app, deaf, pages, requests, asked, presses, unheard, backend>>

\* A report reaches everybody who listens.  PaymentService calls each callback
\* once for each of its subscriptions; the callback of a plan page removes the
\* page's loader and posts change_status.  The nudge page takes any report
\* while its loader is up for its purchase: it posts budge_buy.
Deliver(k) ==
    LET plan == page.kind = "plan"
        sells == page.kind = "nudges" /\ loader = "page"
        called == subs > 0 /\ k # "silent"
    IN  /\ stream[k] > 0
        /\ stream' = [stream EXCEPT ![k] = @ - 1]
        /\ upgrades' =
              IF k # "bought" THEN upgrades
              ELSE [page |-> upgrades.page + (IF plan THEN subs ELSE 0),
                    gone |-> upgrades.gone + deaf * subs]
        /\ buys' = IF sells /\ k # "error" THEN [buys EXCEPT !.page = @ + 1]
                   ELSE buys
        /\ loader' = IF \/ called /\ loader = "plan"
                        \/ called /\ plan /\ loader = "page"
                        \/ sells /\ k = "error"
                     THEN "none" ELSE loader
        /\ crowded' =
              \/ crowded
              \/ /\ Awaited("page")' > Awaited("page")
                 /\ (Awaited("page")' > 1 \/ page.state = "leaving")
        /\ UNCHANGED <<app, deaf, page, below, opened, timers, asked, presses,
                       late, unheard, backend>>

(***************************************************************************)
(* The answers to the requests.                                            *)
(***************************************************************************)

\* offline: isConnect finds no network, and nothing is posted.
Answers == {"done", "refused", "lost", "offline"}

\* Navigator.pop from the page: while the page leaves, the one below goes.
Pop ==
    /\ page' = [page EXCEPT !.state = "leaving"]
    /\ below' = (below /\ page.state # "leaving")

\* Only a page that is still mounted has a context to pop from.
PopIf(popped) == IF popped THEN Pop ELSE UNCHANGED <<page, below>>

\* Variant: the preference is set whatever the backend has said.
AnswerUpgradeAny(w) ==
    /\ upgrades[w] > 0
    /\ upgrades' = [upgrades EXCEPT ![w] = @ - 1]
    /\ \E a \in Answers :
          /\ premium' \in (IF a = "done" THEN {TRUE} ELSE {premium})
          /\ prime' = TRUE
          /\ PopIf(w = "page" /\ a \in {"done", "refused"})
    /\ UNCHANGED <<user, subs, inits, checks, sessions, deaf, loader, opened,
                   crowded, buys, timers, store, credits>>

\* Variant: the pop does not go through the context of the page.
AnswerUpgradeBlindly(w) ==
    /\ upgrades[w] > 0
    /\ upgrades' = [upgrades EXCEPT ![w] = @ - 1]
    /\ premium' = TRUE /\ prime' = TRUE
    /\ IF page = NoPage THEN below' = FALSE /\ UNCHANGED page ELSE Pop
    /\ UNCHANGED <<user, subs, inits, checks, sessions, deaf, loader, opened,
                   crowded, buys, timers, store, credits>>

\* change_status is answered: done sets the preference, and either answer pops
\* the page if it is still mounted.  A lost answer may have been executed.
AnswerUpgrade(w) ==
    /\ upgrades[w] > 0
    /\ upgrades' = [upgrades EXCEPT ![w] = @ - 1]
    /\ \E a \in Answers :
          /\ premium' \in (CASE a = "done" -> {TRUE}
                             [] a = "lost" -> {premium, TRUE}
                             [] OTHER -> {premium})
          /\ prime' = (prime \/ a = "done")
          /\ PopIf(w = "page" /\ a \in {"done", "refused"})
    /\ UNCHANGED <<user, subs, inits, checks, sessions, deaf, loader, opened,
                   crowded, buys, timers, store, credits>>

\* loader.remove() of the page the request is from.
Uncovered(w) ==
    IF w = "page" THEN IF loader = "page" THEN {"none"} ELSE {loader}
    ELSE IF loader = "nudges" THEN {"none", loader} ELSE {loader}

\* What the backend has added when the request ends.
Credited(a) ==
    CASE a = "done" -> {credits + 1}
      [] a = "lost" -> {credits, credits + 1}
      [] OTHER -> {credits}

\* Variant: a lost request is kept and posted again.
AnswerBuyAgain(w) ==
    /\ buys[w] > 0
    /\ \E a \in Answers :
          /\ buys' = IF a = "lost" THEN buys ELSE [buys EXCEPT ![w] = @ - 1]
          /\ credits' \in Credited(a)
          /\ loader' \in Uncovered(w)
          /\ PopIf(w = "page" /\ a = "done")
    /\ UNCHANGED <<app, deaf, opened, crowded, upgrades, timers, store, premium>>

\* Variant: no timer removes what a lost answer leaves.
AnswerBuyCovered(w) ==
    /\ buys[w] > 0
    /\ buys' = [buys EXCEPT ![w] = @ - 1]
    /\ \E a \in Answers :
          /\ credits' \in Credited(a)
          /\ loader' \in (IF a = "lost" THEN {loader} ELSE Uncovered(w))
          /\ PopIf(w = "page" /\ a = "done")
    /\ UNCHANGED <<app, deaf, opened, crowded, upgrades, timers, store, premium>>

\* budge_buy ends: done pops the page if it is still mounted (if not, the pop
\* throws and the loader stays), every answer removes the loader, and after
\* everything that was posted hideLoader sets its timer.
AnswerBuy(w) ==
    /\ buys[w] > 0
    /\ buys' = [buys EXCEPT ![w] = @ - 1]
    /\ \E a \in Answers :
          /\ credits' \in Credited(a)
          /\ loader' \in (IF a = "lost" \/ (a = "done" /\ w = "gone")
                         THEN {loader} ELSE Uncovered(w))
          /\ timers' = IF a = "offline" THEN timers
                       ELSE [timers EXCEPT ![w] = @ + 1]
          /\ PopIf(w = "page" /\ a = "done")
    /\ UNCHANGED <<app, deaf, opened, crowded, upgrades, store, premium>>

\* hideLoader's timer fires: the page's loader goes, whoever waits for it now.
HideLoader(w) ==
    /\ timers[w] > 0
    /\ timers' = [timers EXCEPT ![w] = @ - 1]
    /\ loader' \in Uncovered(w)
    /\ UNCHANGED <<app, deaf, page, below, opened, crowded, upgrades, buys, store,
                   backend>>

Next ==
    \/ Login \/ Logout \/ Restart
    \/ Connect \/ ReadStatus
    \/ \E v \in Verdicts : LandStatus(v)
    \/ \E kind \in {"plan", "nudges"} : OpenPage(kind)
    \/ Subscribe \/ PressBuy \/ Back \/ Dispose
    \/ StoreAnswers \/ StoreReports
    \/ \E k \in Kinds : Deliver(k)
    \/ \E w \in {"page", "gone"} :
          AnswerUpgrade(w) \/ AnswerBuy(w) \/ HideLoader(w)

Spec == Init /\ [][Next]_vars

\* The store reports on every purchase it has, reports arrive, a request of the page
\* ends (it is answered, or the client gives it up) and a timer fires: weak
\* fairness of the four actions, whose enabling conditions are spelled out.
PurchasesReported == []<>~(asked > 0) \/ []<><<StoreAnswers>>_vars
ReportsArrive ==
    \A k \in Kinds : []<>~(stream[k] > 0) \/ []<><<Deliver(k)>>_vars
RequestsEnd == []<>~(buys.page > 0) \/ []<><<AnswerBuy("page")>>_vars
TimersFire == []<>~(timers.page > 0) \/ []<><<HideLoader("page")>>_vars

FairSpec ==
    Spec /\ PurchasesReported /\ ReportsArrive /\ RequestsEnd /\ TimersFire

(***************************************************************************)
(* Properties.                                                             *)
(***************************************************************************)

\* The premium pages open only to an account the backend holds for premium,
\* whatever callbacks of dead pages, repeated posts and late checks have
\* written (PremiumRepository.dart:31, PaymentService.dart:137).
UnlockedIsPremium == prime => premium

\* The application is not popped away under the user: that takes a page that
\* was reported to twice, as after a second login, or that was left while an
\* answer was on its way (PrimeController.dart:28, NudgeController.dart:27).
AppStaysOpen == ~below => crowded

\* There are no more packs of nudges than purchases asked for and reports the
\* store sent unasked, although several listen to one report and a lost answer
\* may hide a credit (BuyNudegeScreen.dart:73-77).
PacksAreReported == credits <= presses + late

\* The loader over the nudge page does not stay once the store has the purchase:
\* the page is left, or the purchase ends, with whatever report and answer
\* (NudgeController.dart:34).  After a request that failed nothing is owed, and
\* the page stays covered unless some other report comes
\* (BuyNudegeScreen.dart:89-91, 267-268).
LoaderGoes ==
    page.kind = "nudges" /\ loader = "page" /\ ~unheard ~> loader # "page"
==============================================================================
