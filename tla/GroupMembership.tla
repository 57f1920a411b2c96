--------------------------- MODULE GroupMembership ---------------------------
(***************************************************************************)
(* Who is in a group.  The answer is kept twice at the server: in the      *)
(* field members of groups/<g>, and as a document recentgroups/<u>/<u>/<g> *)
(* in the inbox of each member u.  createGroup (lib/Repository/            *)
(* GroupRepository.dart), the yes button of GroupMessageRequestView, the   *)
(* Remove button of UserSelectionScreen and the fan-out of a message       *)
(* (FirebaseGroupChatScreen.onSendMessage) write them one after the other; *)
(* FirebaseManager.setListGroup makes the row a phone shows.               *)
(*                                                                         *)
(* An inbox document is "none" (absent), "full", or "bare": without the    *)
(* field groupId, by which setListGroup finds the group.  The backend's    *)
(* own membership list is known by its invitations only.  An action is the *)
(* code between two awaits, with the server's commit that ends the first.  *)
(***************************************************************************)
EXTENDS Integers, Sequences, FiniteSets

CONSTANTS
    Admin,          \* the user who makes the group
    Friends,        \* the admin's friends as the selection screen lists them
    Accepts,        \* taps on a yes button, each made once
    Removals,       \* taps on a Remove button, each made once
    Sends,          \* group messages, each sent once
    Viewers,        \* the users whose inbox rows and chat screens are modelled
    MaxProfile,     \* bound on the changes of a user's name or picture
    MaxFaults,      \* bound on crashes and failed transactions
    MaxAtOnce       \* bound on the handlers under way at once, on all phones

Others == {Friends[i] : i \in 1..Len(Friends)}
Users == {Admin} \union Others

ASSUME FriendsAssumption ==
    /\ Friends \in Seq(Others)
    /\ \A i, j \in 1..Len(Friends) : Friends[i] = Friends[j] => i = j
    /\ Admin \notin Others
ASSUME ViewersAssumption == Viewers \subseteq Users
ASSUME CallsAssumption ==
    IsFiniteSet(Accepts) /\ IsFiniteSet(Removals) /\ IsFiniteSet(Sends)
ASSUME BoundsAssumption ==
    MaxProfile \in Nat /\ MaxFaults \in Nat /\ MaxAtOnce \in Nat

VARIABLES
    group,          \* groups/<g>: "no", "queued" on the admin's phone, "there"
    members,        \* its field members
    inbox,          \* inbox[u]: recentgroups/u/u/<g>
    create,         \* what createGroup has still to do
    invite,         \* invite[u]: u's request at the backend
    profile,        \* profile[u]: version of u's name and picture
    selected,       \* friends the selection screen shows as selected
    found,          \* friends its search field lets through
    accept,         \* accept[a]: a run of the yes button's handler
    removal,        \* removal[r]: a run of the Remove button's handler
    send,           \* send[s]: a call of onSendMessage
    screen,         \* screen[u]: list_member of u's group chat, {} if closed
    row,            \* row[u]: list_member of the row u sees, {} if none
    fresh,          \* users whose listener has something to report
    reading,        \* users whose setListGroup waits for groups/<g>
    lost,           \* history: users whose wait has failed since the last report
    faults          \* crashes and failed transactions so far

vars == <<group, members, inbox, create, invite, profile, selected, found,
          accept, removal, send, screen, row, fresh, reading, lost, faults>>

phones == <<screen, row, fresh, reading, lost>>

Profiles == 0..MaxProfile
NoUser == "no user"
Someone == Users \union {NoUser}

\* FirebaseUser.toJson: arrayUnion and arrayRemove compare whole maps.
Member == [id : Users, profile : Profiles]
Ids == {e.id : e \in members}

\* alive: the phone still waits for the write under way.
Accept == [pc : {"unused", "join", "inbox", "api", "done", "aborted"},
           by : Someone, profile : Profiles, alive : BOOLEAN]
\* index: the button's place in list_data; user: who it stood for last.
Removal == [pc : {"unused", "members", "inbox", "api", "done", "aborted"},
            index : 0..Len(Friends), user : Someone, profile : Profiles,
            alive : BOOLEAN]
\* The members onSendMessage looks up, updates and writes anew.
Send == [by : Someone, get : SUBSET Users, update : SUBSET Users,
         set : SUBSET Users, missed : SUBSET Users]

TypeOK ==
    /\ group \in {"no", "queued", "there"}
    /\ members \subseteq Member
    /\ inbox \in [Users -> {"none", "bare", "full"}]
    /\ create \in {"idle", "inbox", "done", "aborted"}
    /\ invite \in [Others -> {"none", "open", "accepted", "declined"}]
    /\ profile \in [Others -> Profiles]
    /\ selected \subseteq Others /\ found \subseteq Others
    /\ accept \in [Accepts -> Accept]
    /\ removal \in [Removals -> Removal]
    /\ send \in [Sends -> Send]
    /\ screen \in [Users -> SUBSET Users]
    /\ row \in [Users -> SUBSET Users]
    /\ fresh \subseteq Users /\ reading \subseteq Users
    /\ lost \subseteq Users
    /\ faults \in 0..MaxFaults

Init ==
    /\ group = "no" /\ members = {} /\ create = "idle"
    /\ inbox = [u \in Users |-> "none"]
    /\ invite = [u \in Others |-> "none"]
    /\ profile = [u \in Others |-> 0]
    /\ selected = {} /\ found = Others
    /\ accept = [a \in Accepts |-> [pc |-> "unused", by |-> NoUser,
                                    profile |-> 0, alive |-> FALSE]]
    /\ removal = [r \in Removals |-> [pc |-> "unused", index |-> 0,
                                      user |-> NoUser, profile |-> 0,
                                      alive |-> FALSE]]
    /\ send = [s \in Sends |-> [by |-> NoUser, get |-> {}, update |-> {},
                                set |-> {}, missed |-> {}]]
    /\ screen = [u \in Users |-> {}] /\ row = [u \in Users |-> {}]
    /\ fresh = {} /\ reading = {} /\ lost = {}
    /\ faults = 0

Accepting(a) == accept[a].pc \in {"join", "inbox", "api"}
Removing(r) == removal[r].pc \in {"members", "inbox", "api"}
Pending(s) == send[s].get \union send[s].update \union send[s].set

UnderWay ==
    {a \in Accepts : Accepting(a)} \union {r \in Removals : Removing(r)}
      \union {s \in Sends : Pending(s) # {}}
Idle == UnderWay = {} /\ create # "inbox"
Free == Cardinality(UnderWay) + (IF create = "inbox" THEN 1 ELSE 0) < MaxAtOnce

\* u's document becomes val, and u's listener will report it.
Write(u, val) ==
    /\ inbox' = [inbox EXCEPT ![u] = val]
    /\ fresh' = fresh \union ({u} \intersect Viewers)

-----------------------------------------------------------------------------
(* createGroup. *)

\* The backend has made the group and invited the friends picked.  The set of
\* groups/<g> is not awaited: it waits in Firestore's queue.
Create ==
    /\ create = "idle" /\ Free
    /\ create' = "inbox"
    /\ group' = "queued"
    /\ \E picked \in SUBSET Others \ {{}} :
         /\ invite' = [u \in Others |-> IF u \in picked THEN "open" ELSE "none"]
         /\ selected' = picked
    /\ UNCHANGED <<members, inbox, profile, found, accept, removal, send,
                   phones, faults>>

GroupLands ==
    /\ group = "queued"
    /\ group' = "there"
    /\ members' = {[id |-> Admin, profile |-> 0]}
    /\ UNCHANGED <<inbox, create, invite, profile, selected, found, accept,
                   removal, send, phones, faults>>

CreateInbox ==
    /\ create = "inbox"
    /\ create' = "done"
    /\ Write(Admin, "full")
    /\ UNCHANGED <<group, members, invite, profile, selected, found, accept,
                   removal, send, screen, row, reading, lost, faults>>

-----------------------------------------------------------------------------
(* A group request is answered. *)

TapYes(a, u) ==
    /\ accept[a].pc = "unused" /\ invite[u] = "open" /\ Free
    /\ accept' = [accept EXCEPT ![a] = [pc |-> "join", by |-> u,
                                        profile |-> profile[u],
                                        alive |-> TRUE]]
    /\ UNCHANGED <<group, members, inbox, create, invite, profile, selected,
                   found, removal, send, phones, faults>>

\* Variant of Join: the backend is told before the inbox document is written.
JoinTellsFirst(a) ==
    /\ accept[a].pc = "join"
    /\ LET joins == group = "there" IN
       /\ members' = IF joins
                     THEN members \union {[id |-> accept[a].by,
                                           profile |-> accept[a].profile]}
                     ELSE members
       /\ accept' = [accept EXCEPT ![a].pc = IF joins /\ accept[a].alive
                                             THEN "inbox" ELSE "aborted"]
       /\ invite' = IF joins THEN [invite EXCEPT ![accept[a].by] = "accepted"]
                    ELSE invite
    /\ UNCHANGED <<group, inbox, create, profile, selected, found, removal,
                   send, phones, faults>>

\* The update of a group that is not there yet fails.
Join(a) ==
    /\ accept[a].pc = "join"
    /\ LET joins == group = "there" IN
       /\ members' = IF joins
                     THEN members \union {[id |-> accept[a].by,
                                           profile |-> accept[a].profile]}
                     ELSE members
       /\ accept' = [accept EXCEPT ![a].pc = IF joins /\ accept[a].alive
                                             THEN "inbox" ELSE "aborted"]
    /\ UNCHANGED <<group, inbox, create, invite, profile, selected, found,
                   removal, send, phones, faults>>

JoinInbox(a) ==
    /\ accept[a].pc = "inbox"
    /\ accept' = [accept EXCEPT ![a].pc = "api"]
    /\ Write(accept[a].by, "full")
    /\ UNCHANGED <<group, members, create, invite, profile, selected, found,
                   removal, send, screen, row, reading, lost, faults>>

TellBackend(a) ==
    /\ accept[a].pc = "api"
    /\ accept' = [accept EXCEPT ![a].pc = "done"]
    /\ invite' = [invite EXCEPT ![accept[a].by] = "accepted"]
    /\ UNCHANGED <<group, members, inbox, create, profile, selected, found,
                   removal, send, phones, faults>>

TapNo(u) ==
    /\ invite[u] = "open"
    /\ invite' = [invite EXCEPT ![u] = "declined"]
    /\ UNCHANGED <<group, members, inbox, create, profile, selected, found,
                   accept, removal, send, phones, faults>>

-----------------------------------------------------------------------------
(* The admin's selection screen. *)

\* The friend at place i of list_data, which are those found, or none.
At(i) ==
    {Friends[j] : j \in {k \in 1..Len(Friends) :
                           /\ Friends[k] \in found
                           /\ Cardinality({n \in 1..k : Friends[n] \in found}) = i}}

\* onSearchTextChanged.
Search ==
    /\ Free
    /\ found' \in SUBSET Others
    /\ UNCHANGED <<group, members, inbox, create, invite, profile, selected,
                   accept, removal, send, phones, faults>>

TapAdd(u) ==
    /\ create # "idle" /\ Free
    /\ u \in found \ selected
    /\ selected' = selected \union {u}
    /\ invite' = [invite EXCEPT ![u] = "open"]
    /\ UNCHANGED <<group, members, inbox, create, profile, found, accept,
                   removal, send, phones, faults>>

\* The map to be removed is made of what the screen loaded, at some time, of
\* the user's profile.
TapRemove(r, i, u) ==
    /\ removal[r].pc = "unused" /\ u \in selected /\ Free
    /\ selected' = selected \ {u}
    /\ \E p \in 0..profile[u] :
         removal' = [removal EXCEPT ![r] = [pc |-> "members", index |-> i,
                                            user |-> u, profile |-> p,
                                            alive |-> TRUE]]
    /\ UNCHANGED <<group, members, inbox, create, invite, profile, found,
                   accept, send, phones, faults>>

\* After an await the handler takes whoever is at its index now.
GoesOn(r, next) ==
    LET now == IF removal[r].alive THEN At(removal[r].index) ELSE {} IN
    \/ \E u \in now :
         removal' = [removal EXCEPT ![r].pc = next, ![r].user = u]
    \/ /\ now = {}
       /\ removal' = [removal EXCEPT ![r].pc = "aborted"]

RemoveMember(r) ==
    /\ removal[r].pc = "members"
    /\ IF group = "there"
       THEN /\ members' = members \ {[id |-> removal[r].user,
                                      profile |-> removal[r].profile]}
            /\ GoesOn(r, "inbox")
       ELSE /\ removal' = [removal EXCEPT ![r].pc = "aborted"]
            /\ UNCHANGED members
    /\ UNCHANGED <<group, inbox, create, invite, profile, selected, found,
                   accept, send, phones, faults>>

\* Variant of RemoveInbox: the document in the inbox is left alone.
RemoveInboxNot(r) ==
    /\ removal[r].pc = "inbox"
    /\ GoesOn(r, "api")
    /\ UNCHANGED <<inbox, fresh, group, members, create, invite, profile,
                   selected, found, accept, send, screen, row, reading, lost, faults>>

RemoveInbox(r) ==
    /\ removal[r].pc = "inbox"
    /\ Write(removal[r].user, "none")
    /\ GoesOn(r, "api")
    /\ UNCHANGED <<group, members, create, invite, profile, selected, found,
                   accept, send, screen, row, reading, lost, faults>>

\* addRemoveUser: the backend may take the invitation back.
RemoveAtBackend(r) ==
    /\ removal[r].pc = "api"
    /\ removal' = [removal EXCEPT ![r].pc = "done"]
    /\ \/ invite' = [invite EXCEPT ![removal[r].user] = "none"]
       \/ UNCHANGED invite
    /\ UNCHANGED <<group, members, inbox, create, profile, selected, found,
                   accept, send, phones, faults>>

-----------------------------------------------------------------------------
(* onSendMessage of the group chat. *)

OpenChat(u) ==
    /\ row[u] # {} /\ screen[u] # row[u]
    /\ screen' = [screen EXCEPT ![u] = row[u]]
    /\ UNCHANGED <<group, members, inbox, create, invite, profile, selected,
                   found, accept, removal, send, row, fresh, reading, lost, faults>>

StartSend(s, u) ==
    /\ send[s].by = NoUser /\ screen[u] # {} /\ Free
    /\ send' = [send EXCEPT ![s].by = u, ![s].get = screen[u]]
    /\ UNCHANGED <<group, members, inbox, create, invite, profile, selected,
                   found, accept, removal, phones, faults>>

\* The awaited get() of one member's document.
Look(s, v) ==
    /\ v \in send[s].get
    /\ \/ /\ inbox[v] # "none"
          /\ send' = [send EXCEPT ![s].get = @ \ {v},
                                  ![s].update = @ \union {v}]
       \/ /\ inbox[v] = "none"
          /\ send' = [send EXCEPT ![s].get = @ \ {v},
                                  ![s].set = @ \union {v},
                                  ![s].missed = @ \union {v}]
    /\ UNCHANGED <<group, members, inbox, create, invite, profile, selected,
                   found, accept, removal, phones, faults>>

\* update() fails if the document is gone by now.
SendUpdate(s, v) ==
    /\ v \in send[s].update
    /\ send' = [send EXCEPT ![s].update = @ \ {v}]
    /\ IF inbox[v] # "none" THEN Write(v, inbox[v])
                            ELSE UNCHANGED <<inbox, fresh>>
    /\ UNCHANGED <<group, members, create, invite, profile, selected, found,
                   accept, removal, screen, row, reading, lost, faults>>

\* Variant of SendSet: the map carries the group's id.
SendSetFull(s, v) ==
    /\ v \in send[s].set
    /\ send' = [send EXCEPT ![s].set = @ \ {v}]
    /\ Write(v, "full")
    /\ UNCHANGED <<group, members, create, invite, profile, selected, found,
                   accept, removal, screen, row, reading, lost, faults>>

\* set() replaces whatever is there by now; its map has no groupId.
SendSet(s, v) ==
    /\ v \in send[s].set
    /\ send' = [send EXCEPT ![s].set = @ \ {v}]
    /\ Write(v, "bare")
    /\ UNCHANGED <<group, members, create, invite, profile, selected, found,
                   accept, removal, screen, row, reading, lost, faults>>

-----------------------------------------------------------------------------
(* The inbox of a phone. *)

\* Variant of Report: a group whose row is there is not asked for again.
ReportKnown(u) ==
    /\ u \in fresh
    /\ fresh' = fresh \ {u}
    /\ lost' = lost \ {u}
    /\ row' = [row EXCEPT ![u] = {}]
    /\ reading' = IF inbox[u] = "full" /\ row[u] = {} THEN reading \union {u}
                  ELSE reading
    /\ UNCHANGED <<group, members, inbox, create, invite, profile, selected,
                   found, accept, removal, send, screen, faults>>

\* A snapshot: setListGroup starts list_group afresh.  It asks for the groups
\* of the documents; at one without groupId it throws.
Report(u) ==
    /\ u \in fresh
    /\ fresh' = fresh \ {u}
    /\ lost' = lost \ {u}
    /\ row' = [row EXCEPT ![u] = {}]
    /\ reading' = IF inbox[u] = "full" THEN reading \union {u} ELSE reading
    /\ UNCHANGED <<group, members, inbox, create, invite, profile, selected,
                   found, accept, removal, send, screen, faults>>

\* Variant of MembersSeen: the maps are not turned into users.
MembersSeenMaps(u) == members

\* groups/<g> as u's phone reads it: its own queued set counts.
MembersSeen(u) ==
    IF group = "queued" /\ u = Admin THEN {Admin} ELSE Ids

ReadGroup(u) ==
    /\ u \in reading
    /\ reading' = reading \ {u}
    /\ row' = [row EXCEPT ![u] = MembersSeen(u)]
    /\ UNCHANGED <<group, members, inbox, create, invite, profile, selected,
                   found, accept, removal, send, screen, fresh, lost, faults>>

\* The get() of groups/<g> throws and nobody catches it: the row does not come
\* back before another snapshot.
ReadFails(u) ==
    /\ u \in reading
    /\ reading' = reading \ {u}
    /\ lost' = lost \union {u}
    /\ UNCHANGED <<group, members, inbox, create, invite, profile, selected,
                   found, accept, removal, send, screen, row, fresh, faults>>

-----------------------------------------------------------------------------
(* The environment. *)

ChangeProfile(u) ==
    /\ profile[u] < MaxProfile /\ Free
    /\ profile' = [profile EXCEPT ![u] = @ + 1]
    /\ UNCHANGED <<group, members, inbox, create, invite, selected, found,
                   accept, removal, send, phones, faults>>

\* u's phone is killed and started again.  Plain writes that were asked for
\* are kept in Firestore's queue; transactions and what comes after are not.
Crash(u) ==
    /\ faults < MaxFaults
    /\ faults' = faults + 1
    /\ accept' = [a \in Accepts |->
         IF accept[a].by = u /\ Accepting(a)
         THEN [accept[a] EXCEPT !.alive = FALSE,
                                !.pc = IF @ = "join" THEN @ ELSE "aborted"]
         ELSE accept[a]]
    /\ removal' = [r \in Removals |->
         IF u = Admin /\ Removing(r)
         THEN [removal[r] EXCEPT !.alive = FALSE,
                                 !.pc = IF @ = "api" THEN "aborted" ELSE @]
         ELSE removal[r]]
    /\ create' = IF u = Admin /\ create = "inbox" THEN "aborted" ELSE create
    /\ send' = [s \in Sends |->
         IF send[s].by = u
         THEN [send[s] EXCEPT !.get = {}, !.update = {}, !.set = {}]
         ELSE send[s]]
    /\ found' = IF u = Admin THEN Others ELSE found
    /\ screen' = [screen EXCEPT ![u] = {}]
    /\ row' = [row EXCEPT ![u] = {}]
    /\ reading' = reading \ {u} /\ lost' = lost \ {u}
    /\ fresh' = fresh \union ({u} \intersect Viewers)
    /\ UNCHANGED <<group, members, inbox, invite, profile, selected>>

Respond ==
    \/ GroupLands \/ CreateInbox
    \/ \E a \in Accepts : Join(a) \/ JoinInbox(a) \/ TellBackend(a)
    \/ \E r \in Removals : RemoveMember(r) \/ RemoveInbox(r) \/ RemoveAtBackend(r)
    \/ \E s \in Sends, v \in Users : Look(s, v) \/ SendUpdate(s, v) \/ SendSet(s, v)

InboxStep(u) == Report(u) \/ ReadGroup(u) \/ ReadFails(u)

Next ==
    \/ Create \/ Search \/ Respond
    \/ \E u \in Others : TapNo(u) \/ TapAdd(u) \/ ChangeProfile(u)
    \/ \E a \in Accepts, u \in Others : TapYes(a, u)
    \/ \E r \in Removals, i \in 1..Len(Friends) :
         \E u \in At(i) : TapRemove(r, i, u)
    \/ \E u \in Viewers : OpenChat(u) \/ InboxStep(u)
    \/ \E s \in Sends, u \in Viewers : StartSend(s, u)
    \/ \E u \in Users : Crash(u)

Spec == Init /\ [][Next]_vars

\* The listener of each phone reports, and a read is answered or fails in the
\* end: weak fairness of Report(u) and of the end of a read, whose enabling
\* conditions are spelled out.
ReadEnds(u) == ReadGroup(u) \/ ReadFails(u)
ListenersReport ==
    \A u \in Viewers : []<>(u \notin fresh) \/ []<><<Report(u)>>_vars
ReadsEnd ==
    \A u \in Viewers : []<>(u \notin reading) \/ []<><<ReadEnds(u)>>_vars

FairSpec == Spec /\ ListenersReport /\ ReadsEnd

-----------------------------------------------------------------------------
(* Properties. *)

\* If the users wait for one handler to finish before they start another, and
\* nobody changes the profile that arrayRemove compares, then between two
\* handlers exactly the members of groups/<g> have the group in their inbox,
\* although messages go out from chats opened before members came and went.
SerialMembership ==
    /\ MaxAtOnce = 1 /\ faults = 0 /\ Idle /\ group = "there"
    /\ \A u \in Others : profile[u] = 0
    => \A u \in Users : u \in Ids <=> inbox[u] = "full"

\* Nobody is half a member for good: whoever is in members without the group
\* in the inbox still has the request to say yes to, wherever the yes handler
\* was cut off, since it tells the backend last.  The exceptions: a removal, a
\* request declined after all, and a message whose look-up came too early.
JoinCanBeFinished ==
    \A u \in Others :
      u \in Ids =>
        \/ inbox[u] = "full"
        \/ invite[u] \in {"open", "declined"}
        \/ \E r \in Removals : removal[r].pc # "unused"
        \/ \E s \in Sends : u \in send[s].missed

\* A message sent from a chat opened before a removal never brings the group
\* back into an inbox, in whatever order its look-ups and writes mix with the
\* removal: only the user's own yes does, or the making of the group.
OnlyYesBringsTheGroup ==
    [][\A u \in Users :
         inbox[u] # "full" /\ inbox'[u] = "full" =>
           \/ u = Admin /\ create = "inbox" /\ create' = "done"
           \/ \E a \in Accepts : /\ accept[a].by = u /\ u \in Others
                                 /\ accept[a].pc = "inbox"
                                 /\ accept'[a].pc = "api"]_vars

\* A phone shows the group again and again as long as the document stays in
\* the inbox, whatever snapshots overtake its reads and whatever its listener
\* missed while the phone was off; only a failed read of groups/<g>, which
\* setListGroup does not catch, leaves it without the row, and then until the
\* next snapshot only.
GroupAppears ==
    \A u \in Viewers :
      [](inbox[u] = "full") ~> (row[u] # {} \/ u \in lost)
=============================================================================
