# Specification and proofs of the NeuroPal client

This directory is a TLA+ verification of the Flutter application under `src/lib`
(package `neuro`, shown to its users as NeuroPal): a friend-finding and chat app
whose state lives in three places at once.

* **On each phone**: one Dart isolate. A handler runs without interruption until
  its next `await`, `.then` or listener; between two of those anything else may
  run. Every action of the modules below is such an uninterrupted stretch.
* **In Firestore**: messages, inbox documents, groups. Several phones write the
  same documents, in transactions of a single `set` or `update`, and read them
  through listeners and `get()`.
* **At the company's backend** (HTTP): feed, swipes, requests, matches, groups,
  balance. Answers come in any order or not at all.

Most of what can go wrong in this code is a consequence of that arrangement: a
value looked at before an `await` and used after it, two documents that should
agree written one after the other, an answer that arrives when the question no
longer matters.

## 1. Inventory

Paths are relative to `src/lib`.

### 1.1 One-to-one conversation
`Pages/FirebaseChatScreen.dart`, `Helper/FirebaseManager.dart`,
`Widget/MessageInboxView.dart`, `Widget/MessageMatchesView.dart`.

*State.* `messages/<a>-<b>` (the messages); `recentusers/<u>/<u>/<peer>`, one
inbox document per user with the last message, `nudgeSender` or `nudgeReceiver`
(when the unanswered first message of a match was sent) and `isNudgeSent`;
per screen a `RouteArgument` (`isMatches`, `userChat.nudgeReceiver`); per phone
`list_user`, the rows of the inbox; in the preferences the time a chat was last
opened.
*Operations.* `onSendMessage`, the listener and `setList`, `_removeUser`, the
nudge button, opening a screen from a match, a notification or the inbox.
*Interactions.* `removeMatches` and the push request at the backend; both phones
write both documents.
*Hard.* Existence checks that go stale, half-written pairs of documents, deletes
that land late, snapshots processed after what they describe has changed,
crashes between the two writes.
*Correct when* both inboxes have the conversation or neither, a delete takes only
what had run out when `setList` looked, a match is given up only for a delivered message,
both phones agree on the nudge, and what was sent arrives.

### 1.2 Message history of a chat screen
Same file, lines 374-450 and 616-643; `Pages/FirebaseGroupChatScreen.dart`
303-379 is a copy. *State*: `listMessage`, `lastMessage`, `templastMessage`,
`_isLoading`, queries and listeners under way. *Hard*: listeners accumulate, one
page at a time; the query for newer messages and the reports that trigger it
overlap. *Correct when* rows are sorted, unique, without a gap at the top, and
the screen does not stop reacting.

### 1.3 Nudge clock
`daysBetween` and `setList` (`Helper/FirebaseManager.dart`),
`Widget/Countdown.dart`. *Hard*: the hour between noon and one reads as zero
under the pattern `hh`; a timer that stops at exactly zero; a widget state that
outlives the value it was made with; `setList` looks at the clock with a snapshot
only. *Correct when* the countdown, the delete and the mark go by the same limits
and no reading error ends a conversation early.

### 1.4 Groups
`Repository/GroupRepository.dart`, `Controller/GroupController.dart`,
`Widget/GroupMessageRequestView.dart`, `Pages/UserSelectionScreen.dart`,
`Pages/FirebaseGroupChatScreen.dart`, `FirebaseManager.getGroupList` and
`setListGroup`. *State*: `groups/<g>.members` (an array of maps compared as
wholes), `recentgroups/<u>/<u>/<g>` per member, the invitation at the backend,
`list_group` per phone, `list_member` per open screen. *Hard*: three writes per
answer and three per removal with an `await` between them, a list index used
again after each `await`, a fan-out over a list of members that has aged.
*Correct when* the members of the document are the users with the group in their
inbox, nobody is stuck half way in, and only the user's own yes brings the group.

### 1.5 Feed
`Pages/FeedsScreen.dart`, `Controller/FeedController.dart`,
`Repository/FeedsRepository.dart`. *State*: `list_feeds`, `sendSwipe` (one object
for all calls), `isNext`, `isLoading`, the filter, the stack's own index and the
card on its way out. *Hard*: the object posted is read after two awaits; the list
may be replaced between the finger and the callback; answers unlock what other
answers have locked. *Correct when* what is recorded is what the user did, and
the day's limit holds up to stated exceptions.

### 1.6 Inbox list and session
`FirebaseManager.getUserList` and `setList`, `Widget/MessageInboxView.dart`, the
stamps `readLocal` and the message list of `FirebaseChatScreen` write, `main.dart`,
`Repository/RegisterRepository.dart`, `Controller/ProfileController.dart`.
*State.* `list_user`; the preferences USERID and one time stamp per peer; the
listeners that starts, logins and registrations have attached and nobody ever
cancels; the counts under way. *Operations.* A snapshot resets the list and
starts a count for each document with a stamp; the count's answer appends its
row. *Hard.* Counts of an old snapshot answer into the new list; listeners of an
account that has logged out replace the list of the account that is there; a
message's inbox document may arrive before the message; a message in flight while
the chat is stamped is older than the stamp when it lands. *Correct when* no
conversation is missing from a list that has come to rest, nothing is in it twice,
and a badge counts what the chat has not shown.

### 1.7 Purchases, premium status and nudge packs
`Helper/PaymentService.dart`, `Pages/PremiumPlanScreen.dart`,
`Pages/BuyNudegeScreen.dart`, `Controller/PrimeController.dart`,
`Controller/NudgeController.dart`. *State.* Subscriptions to the store, callbacks
of plan pages, checks and posts under way, the preference ISPRIME, the loader, the
page on top. *Hard.* Reports reach everybody who listens, whatever they are about;
`initConnection` subscribes once more at each login; callbacks outlive their
pages; a page is popped by an answer that may find it already leaving; the loader
is removed by reports, answers and a timer; a request to the store may throw.
*Correct when* premium is what the backend says, each purchase is credited once,
the user is not thrown out of the application and the screen does not stay covered.
The code keeps the second and the last with the exceptions section 3 names.

### 1.8 Voice messages
`Helper/PlayerWidget.dart`, the recorder in `Pages/FirebaseChatScreen.dart`.
*State.* A player for each row, two fields of `FirebaseManager` with the players to
be silenced, the recorder. *Hard.* A player takes its field only after its play has
answered; rows come and go with plays under way; `_stop` does not wait for
`_start`; a long press the system cancels has no callback. *Correct when* one voice sounds at a time, whatever sounds can be
stopped, and the microphone is open only while the button is held.

### 1.9 Requests, matches and push
`NeuroRequestController`, `MatcheController`, `FirebaseMessages`. Lists the backend
keeps and the application fetches anew; an answer to a request covers the screen
until it is done, so that two do not overlap. A page opened from a notification
with an incomplete peer is modelled where it matters, in DirectChat.

### 1.10 Everything else
Forms (profile, settings, group editing, verification, hash tags), onboarding
pages, layout helpers and routes keep no state that outlives a page or is shared.
`ios/Pods`, `ThirdParty/assorted_layout_widget`, the platform projects and
`firebase_options.dart` are vendored or generated.

## 2. Modules

| Module | Models | Proofs |
| --- | --- | --- |
| `Conversation` | what 1.1 promises, abstractly | refined in `DirectChatProofs` |
| `DirectChat` | 1.1 | `DirectChatProofs` |
| `ChatHistory` | 1.2 | `ChatHistoryProofs` |
| `NudgeClock` | 1.3 | `NudgeClockProofs` |
| `GroupMembership` | 1.4 | `GroupMembershipProofs` |
| `SwipeLog` | what 1.5 promises of swipes, abstractly | refined in `FeedSwipeProofs` |
| `FeedSwipe` | 1.5 | `FeedSwipeProofs` |
| `InboxList` | 1.6 | `InboxListProofs` |
| `Purchases` | 1.7 | `PurchasesProofs` |
| `VoiceMessages` | 1.8 | `VoiceMessagesProofs` |

The modules that begin with `MC` give the constants small values and name the
symmetries; `ChatHistory`, `NudgeClock` and `Purchases` have numbers for constants
and need none.

In every module a definition introduced by "Variant" is a deliberately broken
version of the definition after it. No specification uses one: each is the kind
of mistake a change of the code could make, and the property it is written for
fails as soon as it takes the real definition's place.

### 2.1 DirectChat
Two users, their two documents (`doc`), screens (`route`), calls of
`onSendMessage` (`call`), taps on the nudge button (`tap`), and per phone the
last snapshot (`seen`), the documents `setList` still works on (`tasks`), the
rows (`entries`) and the deletes issued (`removals`), each with the document
`setList` was looking at (`saw`, a history field).

A call goes through `get`, `write`, `peerget`, `peerwrite`: the `get()` of the own
document, its `update` or `set`, and the same for the peer's (lines 137-203).
With `userChat.nudgeReceiver` set, both `get`s are skipped, as in the code; that
is an answer, it replaces both documents, and so it stops the clock. The map for
the peer's document is built after the own write, which is when `isMatches` is
read the second time; it is read once more at the end (line 235). `SetDoc` and
`UpdateDoc` differ in what they leave of the old document: that is what makes
a wrong choice visible. A transaction with a single `update` fails if the
document is gone, and the rest of the call is skipped (`UpdateFails`).

`Deliver` is a snapshot of the listener, including Firestore's own view of
pending deletes; `ProcessEntry` the rest of `setList` for one document;
`RemovalLands` a delete that reaches the server, in the order of issue. `Crash`
loses everything but those deletes. Leaving a screen is no action of its own: its
effects are that it starts no further call, and that the `setState` before
`removeMatches` may throw, which is the choice in `PeerWrite`.

Abstractions: a message's content is the call that sent it; the message document
(a separate un-awaited write), the stamps in the preferences and unread counts are
InboxList's, and the notification is left out. The phones' clocks agree.

`Conversation` says the same without documents, look-ups, snapshots and deletes:
a message is composed, shows in its author's row, shows in the peer's row, or is
lost once a clock has run out or something has failed; a row goes only after a
clock has run out. DirectChat instantiates it (`Conv`) with a call as a message
(`stageOf`, from the call's program counter), a document's last message as a row
(`rowOf`), and states `KeepsThePromise`, that every step of the phones is a step of
the conversation or none, and `NoMessageIsStuck`, with the conversation's progress.

### 2.2 ChatHistory
Messages are numbers, in the order of their time stamps, which are distinct.
`LiveSnapshot` is the `StreamBuilder`'s builder before the first page;
`ScrollToEnd` asks for a page, `PageArrives` runs `loadToTrue` and appends it;
`ListenerFires` is one of the listeners that pages leave; `NewMessageListener`,
`GetAnswered` and `GetArrives` the query for newer messages, split where the
server answers, because messages may arrive between question and answer and
between answer and delivery. Group chats run the same code over other names.

### 2.3 NudgeClock
One row, its document's stamp and mark, and the wall clock in seconds (hours in
the run). `ReadClock` is what formatting and parsing with `hh` do to the time, and
`DecisionLag` (in the proofs) the lag this gives to `setList`'s decision.
`Build` makes a `Countdown`, `Rebuild` keeps one although the row was made anew,
`Leave` disposes of it; `Tick` is a second with the timer awake or asleep.

### 2.4 GroupMembership
One group, made by `Admin`, with `Friends` in the order of the selection screen.
`accept`, `removal` and `send` are runs of the three handlers that write to
Firestore in steps; `inbox[u]` distinguishes a full document from one without
`groupId`, which is what the fan-out's `set` leaves, and for which `setListGroup`
throws. `At(i)` is the friend at index `i` of the list the search field leaves,
taken anew after each `await` (`GoesOn`). `members` holds maps of id and version
of the profile, because `arrayRemove` compares maps. The set of the group's
document is queued, not awaited (`GroupLands`). A plain write that a dying phone
had asked for is carried out by Firestore afterwards (`alive` is false then, and
nothing follows it). `ReadGroup` and `ReadFails` are the two ends of the `get()` of
the group's document behind a row; nothing in `setListGroup` catches the second, and
the history variable `lost` keeps who is without a row for it.

### 2.5 FeedSwipe
`ask[a]` is a call of `getFeeds` and `made[i]` a swipe with its call of
`feedSwipe`. `LetGo` is the finger, `SwipeComplete` the callback after the
animation, `SwipePosted` the request, whose body is the shared `sendSwipe` of that
moment. The backend is external: it counts what is posted (`SwipesLeft`) and
answers with a list it may find for the filter (`Found`). `AskAnswered` leaves the
stack's index where the widget keeps it.

`SwipeLog` is what remains of it when cards, filters, requests for cards and the
premium page are taken away: each swipe makes one call, a call posts at most once,
and what it posts is the newest swipe there is by then. Of two quick swipes the later
may so be posted by both calls and the first never: the object is shared, and
`SwipeLog` says what is left to rely on. FeedSwipe instantiates it
(`Log`) with the swipes made (`swipesOf`), how far their calls are (`stageOf`) and what
was posted, and states `KeepsTheLog`.

### 2.6 InboxList
The accounts that use one phone one after the other, each with several peers, and
the server's documents for them. `Post`, `LandMessage` and `LandInbox` are the peer's
`onSendMessage`, whose message and inbox document arrive in either order. `Deliver`
is a snapshot for one listener: `setList` empties `rows`, adds a row at once for each
chat never opened, and a task for each of the others; `Answer` is the count that
comes back, in any order. `OpenChat`, `ShowMessages` and `CloseChat` are the chat page
with the stamps it writes. `Login`, `Logout`, `Restart` and `Start` are the session:
preferences survive a restart and are cleared by a logout, listeners and counts
the other way round. `last`, `clean`, `early` and `missed`, and `stamp` and `asker` of a
row, are history for the properties: `missed` holds what was in flight at a chat's last
stamp, `early` the messages whose inbox document was there first. The phones' clocks agree, and a peer sends one message at a time in
a conversation; DirectChat has the overlaps.

### 2.7 VoiceMessages
A clip is one State of a player. `Play` silences both `Held` players and forgets
them; its answer (`Answer`) makes the clip the holder of its side. The platform
carries out calls in their order and answers later, in order for each player
(`answers`). `Mount`, `Ready` and `Dispose` are the life of a row. `HoldButton`,
`StartRecorder`, `ReleaseButton` and `Leave` are the recorder. `stray` and `overtaken` are
history variables: the clips started while another play was unanswered, and a
release that overtook the start. A long press that the system cancels, for which the
page has no callback, is not in the module.

### 2.8 Purchases
One account, the store's reports by kind (what distinguishes them in the code),
PaymentService's subscriptions, and one page at a time, of the plan or of nudges,
whose pop and disposal are two steps, as the route's transition is. `Deliver` is a
report to everybody who listens: each callback of a plan page, alive or not, once
per subscription, and the nudge page while its loader is up (without it,
`loader.remove()` throws before anything is posted). `AnswerUpgrade` and `AnswerBuy` are
the ends of the two posts, with a pop that needs the page to be still mounted;
`HideLoader` is the timer of `Helper.hideLoader`. `PressBuy` puts up the loader and hands
the store a purchase, or does not: `requestPurchase` may throw, which the plan page
catches and the nudge page neither awaits nor catches, or find no product
(`unheard`, a history variable). `below` is the page the others are
opened from, `crowded` a history variable. The plan does not expire while the run
lasts, and the preference of another account is not in the module.

## 3. Runs

The configurations say CHECK_DEADLOCK FALSE: users may stop, and the bounds on
calls, taps and messages are finite, so every behaviour of the models ends.

| Run | Question | Bounds |
| --- | --- | --- |
| `direct_overlap` | Do the inboxes agree after two overlapping sends, from one phone or both, and does each delete take what was seen to have run out? | 2 screens, 2 calls, 2 ticks |
| `direct_crash` | Does a match survive a crash or lost network anywhere in a send, and do the phones keep the conversation's promise? | the same, one at a time, 1 fault |
| `direct_live` | Do the nudge marks agree, does a message that was sent reach the peer's inbox, and does none stay on its way? | 1 screen, 2 calls one at a time, 1 tap, 1 restart or fault; no clock runs out |
| `chat_history` | Sorted, unique, no gap on top and one at most below, never deaf, nothing lost for good | window 2, 6 messages, 3 pages |
| `nudge_clock` | Does the countdown never promise less than there was when it began? | 100 hours, every hour of the day |
| `group_serial` | Do members and inboxes agree between handlers, is nobody stuck after a crash, does the group appear unless a read fails? | 3 users, 2 answers, 1 removal, 1 message, 1 crash |
| `group_overlap` | Two handlers at a time: does a message bring a group back? | 1 answer, 1 removal, 1 message, 1 change of profile |
| `feed_serial` | Seen is swiped; the daily limit | 5 swipes, 3 requests, 1 fault |
| `feed_overlap` | Do calls that share one object keep the log's promise, and does loading end? | 4 swipes, 2 requests, 2 at once, 2 faults |
| `inbox` | Is a list at rest complete and exact, and does a badge count what was not shown? | 2 accounts, 2 peers, 2 messages, 2 logins or restarts; chats opened any number of times |
| `voice` | One voice, one that can be stopped, and a microphone with an owner? | 3 clips on 2 sides, 3 presses of play, 2 of the recorder |
| `purchases` | Is premium true, no pack without a press or an unasked report, the application open, the loader gone once the store has the purchase? | 2 pages, 2 presses, 1 unasked report, 2 logins or restarts |

*Why the bounds are enough to be interesting.* The hazards of DirectChat are
between two calls, or between one call and an expiry: two calls, and a clock that
runs out one tick after its start, give every such pair and every order of their
eight accesses. In `direct_live` the clocks never run out, so that neither the
marks nor the arrival of a message can be excused by an expiry. `group_serial`
allows one crash; `SerialMembership` is stated for the states before it. A window
of 2 with 6 messages and 3 pages has messages that have left the window, pages
that overlap with arrivals, and two or three listeners that report the same
message. A hundred hours exceed the 72-hour limit by a whole day from every
starting hour. Three users are the fewest with a removal redirected from one
friend to another. One or two free swipes make the limit reachable in both
directions. Two accounts with two peers each are the fewest with a listener of another account
and a second row to mix up; two messages make a document newer than a count that
is under way. Three clips have two on one side and one on the other, and a row
that comes back is another clip; a third press is the one that finds a holder
forgotten. Two logins give PaymentService two subscriptions, two pages a callback
that has outlived its page, and an unasked report stands for every report that
is repeated or late. Names of users, screens, calls, accounts, peers and clips are
interchangeable in `direct_overlap`, `direct_crash`, `inbox` and `voice`, which use
symmetry (`KeepsThePromise`, checked in `direct_crash`, is a safety property); the
runs with a liveness property do not.

### What each property rules out

* `InboxesAgree` - no existence check of a send goes stale, and no call leaves the
  conversation in one inbox only, unless a clock has run out or something failed.
* `RemovedOnlyAfterExpiry` - a delete that lands takes what `setList` looked at: its
  own document with the very clocks seen, or the peer's with the same last message,
  and one of those clocks has run for more than the limit. So neither half-written
  pairs, nor a clock read wrongly, nor deletes of both phones that cross end a
  conversation early. One exception is named, a message written since `setList`
  looked: an answer after the snapshot, or a conversation begun anew before the
  delete lands, is lost, and this the property does not rule out.
* `MatchKeptUntilDelivered` - `removeMatches` is preceded by a first message that
  went out in full.
* `KeepsThePromise` - the phones implement `Conversation`: a message shows in its
  author's row first and in the peer's next, once each, and neither a stale look-up
  nor a late delete ends a send or takes a row before a clock has run out or
  something has failed.
* `NoMessageIsStuck` - and each message arrives or is lost, under fairness.
* `SerialSendsAgree` - after one send at a time both documents show the same last
  message and a clock on both sides or on none.
* `NudgeMarksAgree` - after the tap both documents are marked or neither is,
  although the row's state and the documents may have moved on in between. Stated
  for one send at a time (`MaxInFlight = 1`): two sends at once do leave the marks
  apart. An answer is excluded too: it replaces the documents and drops the marks
  one by one.
* `ConversationReachesPeer` - snapshots, restarts and rebuilt lists lose no row.
* `NewestFirst`, `NoHolesOnTop`, `NeverDeaf`, `MissedMessageComesWithNext` - for a
  paged screen with any number of leftover listeners.
* `TornOnce` - the list leaves messages out in one place at most, where the first page
  did not join a window that had moved on: no other page, listener or query tears it.
* `CountdownNeverShort` - the pattern `hh`, the sleeping timer and the kept widget state
  never show less than was left under the mark the countdown began with. A mark that
  comes later is not in it.
* `SerialMembership`, `JoinCanBeFinished`, `OnlyYesBringsTheGroup` - 1.4's conditions on
  documents; the first for handlers that do not overlap.
* `GroupAppears` - snapshots that empty the list under a read, messages, removals and
  restarts keep no group off the screen; a read that fails does, until the next snapshot.
* `SwipedIsSeen`, `DailyLimitKept`, `LoadingEnds` - 1.5's conditions with the exceptions
  the code has.
* `KeepsTheLog` - the calls that share one object implement `SwipeLog`: no call posts
  twice, no user is paired with another swipe's direction, nothing goes back to an older
  swipe, and a swipe no other overtakes is posted itself. That of two quick swipes the
  later is posted twice and the first never is allowed: the code does it.
* `EveryConversationListed` - no order of snapshots, counts, restarts, logouts and
  leftover listeners loses a row or leaves an old message on it, once the last
  snapshot was the account's own and everything has been answered.
* `ListExact` - the same list has no second row and no other account's, unless a count
  was under way when the snapshot came: the one way either can happen.
* `BadgeCountsUnread` - a badge counted for the account that is there, from the stamp
  that still is, counts nothing the chat has had on the screen. Of the rest, up to the
  row's message, it misses two kinds: a message whose inbox document came first, and one
  that was in flight at the chat's last stamp. Without the second kind the run fails.
* `OneVoice`, `VoiceCanBeStopped`, `MicHasAnOwner` - 1.8's conditions; the first and the
  last name the overlap in which the code fails them.
* `UnlockedIsPremium` - neither dead callbacks nor repeated posts nor checks that answer
  late say premium to an account that never was. (The backend's status does not lapse in
  the module. The converse fails: a check that was read before an upgrade locks the
  account until the next start.)
* `AppStaysOpen` - two pops of one page are needed to lose the page below, and only a
  page that was reported to twice, or left while an answer was on its way, gets them.
* `PacksAreReported` - with several listeners, lost answers and restarts there are never
  more packs than presses and unasked reports. A report the store repeats while the
  loader is up counts as unasked: the code credits it again. Packs that are not
  credited are not in it.
* `LoaderGoes` - the nudge page does not stay covered once the store has the purchase.

### What the models show the code does

These are outcomes of the code the properties above are stated around; none
contradicts a comment, document or test of the repository.

* Concurrent first messages may leave two documents with different last messages;
  `SerialSendsAgree` therefore asks for one send at a time.
* An answer sent from a screen that a notification opened does not stop the clock,
  because that route's user has no `nudgeReceiver`; the conversation can expire
  although it was answered.
* Two page queries at once show a page twice; a window that moves while the first
  page is under way leaves a gap below it.
* A conversation that was answered, or begun anew, after the snapshot `setList` works on
  is deleted with what the snapshot showed: the delete asks nothing (`FirebaseManager.dart:35`).
* A read of a group's document that fails leaves the group without a row until the next
  snapshot.
* A message's fan-out that looked up a member's inbox before the member said yes
  replaces the fresh document with one without `groupId`; the group then has no row
  and hides the groups after it. A search while a removal runs redirects the rest
  of the removal. A changed name or picture makes `arrayRemove` a no-op.
* A second quick swipe makes the app post it twice and the first never. A late
  answer of `getFeeds` unlocks a locked feed. A failed swipe is read as "limit
  reached". After buying, cards on the screen can be replaced under the finger.
  Without network the feed loads until the filter is used.
* A count that was under way at the last snapshot shows a conversation twice, or a
  row of the account before, until the next snapshot. A snapshot for an account
  that has logged out replaces the list of the account that is there with its own
  rows; they stay until the present account's inbox changes.
* A message in flight when the chat is stamped is on no badge counted from that stamp;
  one whose inbox document was there before it is on none until another snapshot.
* A second play while another is unanswered silences nobody: both sound. A press
  shorter than the way to the recorder leaves it recording.
* After a second login each report of the store is posted twice by a plan page, and
  the second answer pops the page below. A purchase begun within half a second of
  a refused one loses its loader to the timer; its report then throws and the pack
  is not credited. A report repeated while the nudge page's loader is up is credited
  again. A nudge purchase whose request throws, or that finds no product, leaves the
  page covered until some other report comes (`BuyNudegeScreen.dart:89-91`). The plan
  page's loader stays if the report is one PaymentService is silent about, or if there
  are no products.
* After a nudge sent with a network the application stays covered by the loader,
  whose removal in `SentRequestController.dart:68` is commented out; found while
  reading, not by a run.
* Group screens throw after the first query for newer messages, since
  `userChat` is null there (`Pages/FirebaseGroupChatScreen.dart:351`).

## 4. Fairness

`direct_live`, `chat_history`, `group_serial`, `feed_overlap` and `purchases` assume weak
fairness of what the platform does, never of what a user, the clock or a fault does: an access
to Firestore under way is answered or fails, a listener with news reports it, a
task of `setList` is run, an HTTP request is answered or fails, the store reports on
each purchase it was given, a timer fires. Where a call can fail the fairness is of its
end, whichever it is (`ReadsEnd` in GroupMembership), and a purchase the store never got
is owed nothing. All of these are callbacks the Dart event loop runs once they are due, and neither Firestore nor
the HTTP client nor the store's library drops one. Scrolling, sending, tapping and restarting are never
assumed. `direct_live` and `group_serial` allow a restart, after which the listener
starts again and reports afresh. Weak fairness suffices because nothing the user does
disables a pending answer; a crash removes it and the obligation with it.

Where a theorem rests on it, the weak fairness of an action A is written with A's
enabling condition spelled out, `[]<>~Guard \/ []<><<A>>_vars`, because the prover
cannot reason about ENABLED: so in ChatHistory, FeedSwipe, GroupMembership and
Purchases, for the listeners and `setList` of DirectChat, and in `Conversation`. In
each case the guard is all that A asks of the state; the rest of A assigns.
The accesses of a send, the nudges and the deletes of DirectChat have WF itself.
Listeners, reads and `setList` have fairness each of their own, since each is a
callback of its own that waits for nothing but its turn.

## 5. Proofs

Every theorem holds for all values of the constants that satisfy the named
assumptions of its module (finite sets of calls, natural-number bounds, distinct
users): not for the instance of a run only.

**DirectChat.** `TypeInv` strengthens `TypeOK` by `OwnersOK` (calls, taps and
screens in use belong to users) and `DocsOK` (a document that exists was written
by a started call, and its clocks are stamps of calls; this also for snapshots
and tasks). Without `DocsOK` nothing is known of the user a delete is aimed at,
nor of the age of the clock that caused it. `TypeCorrect` includes that no document is there
without a message. `RemovalTheorem` looks at the one step that removes a document, a
delete that lands (`VanishLands`). It rests on `LooksOK` (`LooksHold`): a snapshot in hand
still tells the clocks of its message unless the document has another message by now,
and a delete under way is about such a snapshot with a clock run out. That is kept
because a call writes a document once (`PastKept`, `DocMoves`), because a clock run out
for a document stays so (`ExpiredKept`), and because `setList` issues deletes for what it
finds expired only, although it may read a time that lags (`DeletesAreOfIt`,
`RemovalMoves`). `RemovalsOK` says less, that deletes are pending only if some clock has
run out; the refinement needs no more. `Agreement` says how far each call has come and what exists therefore; it gives
`AgreementTheorem` for any number of overlapping calls. `PromiseTheorem` is the
refinement: each step maps to a step of `Conversation` or to a stutter, `StageMoves`
and `RowMoves` say what a step does to the mapped variables, and `Agreement` and
`RemovalsOK` say why a call that gives up, or a row that goes, is one the promise
allows. `ProgressTheorem` adds the progress: a call under way has one step to take in
each of its four places (`CallMoves`), so that, the accesses being answered
(`SendsGoOn`, which is what WF of `SendStep` says of them), it is over in the end.
`ReachTheorem` is about the other side. `SentOK`: after a complete send the peer has the
document until a clock runs out, across restarts and nudges; `ListOK`: a phone whose
listener has reported a document has a task or a row for it. A phone without row and
task has therefore a snapshot to come, a snapshot makes a task, and a task a row
(`RowComes`). `MatchTheorem` adds to it that
a screen which shows a match shows one that was there when its calls were started
(`MatchIsOld`). `SerialTheorem` and `MarksTheorem` rest on `SerialInv`: one call at a
time, a half-written pair differs in the known way (`Half`). For the marks it takes
in addition what is known of the row a tap looked at, and that a mark on one document
only belongs to a tap about to mark the other (`HalfMarked`).

**ChatHistory.** `Inv` is `TypeOK` with: `lastMessage` heads the list, and a paged
screen has one (`ListOK`); a pending page was asked for from a list that is there
(`QueriesOK`); a query for newer messages starts at `lastMessage`, which
`templastMessage` equals as long as it is under way and not afterwards (`GetsOK`);
such queries are alone (`SoleGet`). The last two depend on each other and on the
answer holding at least one newer message, which is why a listener's report must
precede the query. Together they give `NeverDeafTheorem`. `TopRows` says that the
first rows count down from `last` without a gap and that a list shorter than a window
holds the whole conversation; it gives `NoHolesTheorem`. `OrderOK` says, of a screen
with one page query under way at most, that the list falls and that the page asked for
starts below the row that is last when the page comes; it gives
`NewestFirstTheorem`. `TornTheorem` counts the places where the list is torn
(`Torn`): before paging there is none, what is put in front or behind adds those of the
seam only (`TornConcat`), and `JoinOK` says that a page under way fits to the last row,
unless it is the first page and the list has no tear yet. `MissedTheorem` follows a
missed message through a listener's report (`ToReport`), the query it starts (`ToAnswer`)
and the answer that holds it (`ToArrive`): a step keeps a message in its stage or hands
it on.

**NudgeClock.** `ReadClockLag`: reading the clock loses nothing or exactly half a
day. `DecisionLag` turns that into the condition `RanOut` of DirectChat with its two
lags, which ties the two modules together. `NeverShort` is inductive with the type
invariant.

**GroupMembership.** `JoinInv` relates the three places: told of a yes means in the
inbox (`AcceptedOK`, `ToldOK`), a member was asked (`MembersOK`, `AskedOK`), and a
message writes anew only what it has missed (`SendsOK`). The order of the yes
handler, backend last, is what makes it inductive; with the backend told first it
fails at once. `BringsTheorem` is an action property and needs the types only.
`SerialInv` is about a group of which nothing has failed and no profile has changed
(`Calm`): an answer or a removal under way is alone (`Alone`), the
handlers hold what the places held when they began (`CreateOK`, `AcceptsOK`,
`RemovalsOK`, `SetsOK`), and who is a member has the group in the inbox, but for the
one user between two steps of a handler (`Matched`). It gives `SerialTheorem`; a removal by
index needs that a place in `list_data` stands for one friend (`AtOne`).
`AppearsTheorem` needs that a full document belongs to a group that has a member to show
(`MadeOK`, from `JoinInv` and the creation) and that a phone which is to show it has
a report to come, a read under way, a row or a failed read (`ShownOK`, `Answered`); a
read that ends makes the row or has failed (`RowComes`).

**FeedSwipe.** `DragOK` (a card on its way out belongs to a list that is there) and
`SendOK` make the types inductive. `SharedOK`, the shared object holds the last
swipe made, gives `PairTheorem` (no post mixes two swipes) and `RecordTheorem` (a post that
was taken is on record, itself or by a later one). `LogTheorem` is the refinement: from
`SharedOK` a post tells the newest swipe, and `StageMoves` and `LogStep` say what each step
does to the mapped variables. `LoadingTheorem` needs that loading has a call to end it,
or one that met no network (`LoaderOwned`), and that a call goes on from each of its
places (`CallGoesOn`). `SeenOK`, while one request is
under way there are no cards, gives `SeenTheorem`. `LimitInv` gives `LimitTheorem`:
until the first list is there nothing has been swiped (`Opening`), and from then on a
swipe that may still be posted (`Pending`) has room in what the day allows (`RoomOK`).

**InboxList.** `ListInv` says where the rows of the last snapshot are: each is in
`rows` or is a task under way (`AllListed`), and, if nothing was under way when it
came, in one place only and nowhere another's (`NoneTwice`); `ListedTheorem` and
`ExactTheorem` follow when no task is left. `BadgeInv` keeps with each counted row
the stamp it was counted from and the account it was counted for (`Counted`): the count
never exceeds what has landed since that stamp, and while that stamp is still there it
is at least the messages the inbox document spoke of, less the early ones (`Arrived`,
`InTurn`). A later stamp of the same number is no exception, for then the row speaks of
no later message (`BadgeStamp`); a logout takes every stamp away. `CountedIsEnough` turns
it into what was shown and missed.

**VoiceMessages.** `EndsInv`: the last thing a clip is told agrees with whether it
sounds, which gives `StopTheorem`. `OneInv`: a clip that sounds is a holder, or has its
play under way, or is stray (`Kept`), and a play under way shares the sound only with
strays (`Alone`). `MicInv` covers the start that has not reached the recorder.

**Purchases.** `StatusTrue` adds the checks that have read "premium"; it needs that the
backend does not take the status back. `OnePop`: a page that nothing crowded waits for
one answer at most, and for none once it leaves. `EachOnItsOwn` counts packs,
requests, reports and purchases together against presses and unasked reports.
`LoaderTheorem`: a nudge page covered by a press the store has had (`Covered`) waits for the store, for a report, for the backend
or for the timer (`WaitsForSomething`, inductive), and each of these hands over to the
next or ends the cover.

*What the prover cannot do.* Every property of the runs is a theorem, the liveness
properties from the fairness of section 4 in the form given there. Two of them take
one hypothesis more, `CrashesEnd`: for each phone there is a time after which it is not
killed any more (`AppearsTheorem`, `ReachTheorem`). `MaxFaults` makes it true of every
behaviour, but from a bounded count to "finitely often" is an induction over temporal
formulas, which the installed provers cannot instantiate; the runs check both
properties without the hypothesis. `ProgressTheorem` is stated from `Spec` and
`SendsGoOn` in place of WF, for want of ENABLED; `direct_live` checks it with WF.
What only TLC says is therefore that these two forms of fairness come to the same
and that crashes end.

## 6. Not modelled

* **The backend and the vendored code.** HTTP services appear as the answers they
  may give. The libraries under `ios/Pods` (gRPC, Firestore's core, abseil and
  others), `ThirdParty` and the platform projects are third-party code this
  application does not change; they are taken at their interface.
* **Friend requests, matches, group requests as the backend lists them.** Lists that
  are fetched anew each time, with a loader that keeps two answers apart.
  `GroupMessageInboxView` cannot be reached from the dashboard
  (`DashboardScreen.dart:99` is commented out).
* **The charge for a nudge.** Charge and balance are the backend's; the application
  throws the answer away (`SentRequestController.dart:61-77`).
* **Preferences of the profile**, which a late answer of `getProfile` may write after a
  logout; the next login writes the same keys.
* **Purchases across accounts**: a report or a check of the account before that ends
  up with the one that logs in next.
* **States the message list reuses** for another row, so that a player keeps the url
  it was made with; the upload of a recording.
* **Forms, onboarding, verification, hash tags, layout, push tokens**: one user, one
  request at a time, no state that outlives the page.
* **Clocks.** The phones' clocks are taken to agree, and time stamps to be distinct,
  in DirectChat, ChatHistory and InboxList.
