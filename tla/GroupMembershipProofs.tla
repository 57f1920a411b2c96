----------------------- MODULE GroupMembershipProofs -----------------------
(***************************************************************************)
(* Proofs about GroupMembership, for any number of friends, taps and       *)
(* messages and any number of handlers at once.                            *)
(***************************************************************************)
EXTENDS GroupMembership, FiniteSetTheorems, TLAPS

\* The handlers of the two buttons work for friends.
ActorsOK ==
    /\ \A a \in Accepts : accept[a].pc # "unused" => accept[a].by \in Others
    /\ \A r \in Removals : removal[r].pc # "unused" => removal[r].user \in Others

\* The friends are users, and so is the admin.
LEMMA UsersFacts ==
    /\ Others \subseteq Users /\ Admin \in Users /\ Others \subseteq Someone
    /\ Users \subseteq Someone /\ NoUser \in Someone /\ 0 \in Profiles
    /\ 0 \in 0..Len(Friends) /\ Viewers \subseteq Users
    /\ 1..Len(Friends) \subseteq 0..Len(Friends)
<1>1. Len(Friends) \in Nat
  BY FriendsAssumption
<1>2. 0 \in Profiles /\ 0 \in 0..Len(Friends)
  BY <1>1, BoundsAssumption DEF Profiles
<1>3. 1..Len(Friends) \subseteq 0..Len(Friends)
  BY <1>1
<1>4. /\ Others \subseteq Users /\ Admin \in Users /\ Others \subseteq Someone
      /\ Users \subseteq Someone /\ NoUser \in Someone
  BY DEF Users, Someone
<1> QED BY <1>2, <1>3, <1>4, ViewersAssumption

\* Whoever stands at a place of list_data is a friend.
LEMMA AtFacts == ASSUME NEW i PROVE At(i) \subseteq Others
BY DEF At, Others

\* A write to one inbox keeps the inboxes and the listeners' news to type.
LEMMA WriteTypes ==
    ASSUME TypeOK, NEW u \in Users, NEW val \in {"none", "bare", "full"},
           Write(u, val)
    PROVE  /\ inbox' \in [Users -> {"none", "bare", "full"}]
           /\ fresh' \subseteq Users
BY UsersFacts DEF TypeOK, Write

\* The end of a removal's handler keeps the removals to type.
LEMMA AbortTypes ==
    ASSUME TypeOK, ActorsOK, NEW r \in Removals, removal[r].pc # "unused",
           removal' = [removal EXCEPT ![r].pc = "aborted"]
    PROVE  /\ removal' \in [Removals -> Removal]
           /\ \A q \in Removals : removal'[q].pc # "unused" => removal'[q].user \in Others
<1>1. removal \in [Removals -> Removal] /\ removal[r].user \in Others
  BY DEF TypeOK, ActorsOK
<1>2. removal' \in [Removals -> Removal]
  BY <1>1 DEF Removal
<1>3. ASSUME NEW q \in Removals, removal'[q].pc # "unused"
      PROVE  removal'[q].user \in Others
  BY <1>1, <1>3 DEF ActorsOK, Removal
<1> QED BY <1>2, <1>3

\* The rest of a removal's handler does, whoever is at its index by now.
LEMMA GoesOnTypes ==
    ASSUME TypeOK, ActorsOK, NEW r \in Removals, removal[r].pc # "unused",
           NEW next \in {"inbox", "api"}, GoesOn(r, next)
    PROVE  /\ removal' \in [Removals -> Removal]
           /\ \A q \in Removals : removal'[q].pc # "unused" => removal'[q].user \in Others
<1>1. removal \in [Removals -> Removal] /\ removal[r] \in Removal
  BY DEF TypeOK
<1>2. CASE \E u \in Others :
             removal' = [removal EXCEPT ![r].pc = next, ![r].user = u]
  <2>1. PICK u \in Others :
          removal' = [removal EXCEPT ![r].pc = next, ![r].user = u]
    BY <1>2
  <2>2. u \in Someone
    BY UsersFacts
  <2>3. removal' \in [Removals -> Removal]
    BY <2>1, <2>2, <1>1 DEF Removal
  <2>4. ASSUME NEW q \in Removals, removal'[q].pc # "unused"
        PROVE  removal'[q].user \in Others
    BY <1>1, <2>1, <2>4 DEF ActorsOK, Removal
  <2> QED BY <2>3, <2>4
<1>3. CASE removal' = [removal EXCEPT ![r].pc = "aborted"]
  BY <1>3, AbortTypes
<1> QED BY <1>2, <1>3, AtFacts DEF GoesOn

\* What a crash leaves of a handler's state.
CrashedAccept(x) ==
    [x EXCEPT !.alive = FALSE, !.pc = IF @ = "join" THEN @ ELSE "aborted"]
CrashedRemoval(x) ==
    [x EXCEPT !.alive = FALSE, !.pc = IF @ = "api" THEN "aborted" ELSE @]
CrashedSend(x) == [x EXCEPT !.get = {}, !.update = {}, !.set = {}]

\* It is a handler's state again, of the same user.
LEMMA CrashedTypes ==
    /\ \A x \in Accept : CrashedAccept(x) \in Accept /\ CrashedAccept(x).by = x.by
    /\ \A x \in Removal : /\ CrashedRemoval(x) \in Removal
                          /\ CrashedRemoval(x).user = x.user
    /\ \A x \in Send : /\ CrashedSend(x) \in Send
                       /\ CrashedSend(x).by = x.by
                       /\ CrashedSend(x).missed = x.missed
                       /\ CrashedSend(x).set = {}
<1>1. \A x \in Accept : CrashedAccept(x) \in Accept /\ CrashedAccept(x).by = x.by
  BY DEF CrashedAccept, Accept
<1>2. \A x \in Removal : /\ CrashedRemoval(x) \in Removal
                         /\ CrashedRemoval(x).user = x.user
  BY DEF CrashedRemoval, Removal
<1>3. \A x \in Send : /\ CrashedSend(x) \in Send
                      /\ CrashedSend(x).by = x.by
                      /\ CrashedSend(x).missed = x.missed
                      /\ CrashedSend(x).set = {}
  BY DEF CrashedSend, Send
<1> QED BY <1>1, <1>2, <1>3

\* What a look-up makes of a message's state, with or without a document.
LookedUp(x, v) == [x EXCEPT !.get = @ \ {v}, !.update = @ \union {v}]
Missed(x, v) == [x EXCEPT !.get = @ \ {v}, !.set = @ \union {v},
                          !.missed = @ \union {v}]

\* It is a message's state again.
LEMMA LookTypes ==
    \A x \in Send, v \in Users :
      /\ LookedUp(x, v) \in Send /\ Missed(x, v) \in Send
      /\ LookedUp(x, v).by = x.by /\ Missed(x, v).by = x.by
      /\ LookedUp(x, v).set = x.set /\ LookedUp(x, v).missed = x.missed
      /\ Missed(x, v).set = x.set \union {v}
      /\ Missed(x, v).missed = x.missed \union {v}
<1> SUFFICES ASSUME NEW x \in Send, NEW v \in Users
             PROVE  /\ LookedUp(x, v) \in Send /\ Missed(x, v) \in Send
                    /\ LookedUp(x, v).by = x.by /\ Missed(x, v).by = x.by
                    /\ LookedUp(x, v).set = x.set
                    /\ LookedUp(x, v).missed = x.missed
                    /\ Missed(x, v).set = x.set \union {v}
                    /\ Missed(x, v).missed = x.missed \union {v}
  OBVIOUS
<1>1. /\ LookedUp(x, v) \in Send /\ LookedUp(x, v).by = x.by
      /\ LookedUp(x, v).set = x.set /\ LookedUp(x, v).missed = x.missed
  BY DEF LookedUp, Send
<1>2. /\ Missed(x, v) \in Send /\ Missed(x, v).by = x.by
      /\ Missed(x, v).set = x.set \union {v}
      /\ Missed(x, v).missed = x.missed \union {v}
  BY DEF Missed, Send
<1> QED BY <1>1, <1>2

\* A group starts with nobody in it and nothing under way.
LEMMA InitTypes == Init => TypeOK /\ ActorsOK
<1> SUFFICES ASSUME Init PROVE TypeOK /\ ActorsOK
  OBVIOUS
<1>1. accept \in [Accepts -> Accept]
  BY UsersFacts DEF Init, Accept
<1>2. removal \in [Removals -> Removal]
  BY UsersFacts DEF Init, Removal
<1>3. send \in [Sends -> Send]
  BY UsersFacts DEF Init, Send
<1>4. faults \in 0..MaxFaults
  BY BoundsAssumption DEF Init
<1>5. profile \in [Others -> Profiles]
  BY UsersFacts DEF Init
<1>6. members \subseteq Member
  BY DEF Init
<1>7. ActorsOK
  BY DEF Init, ActorsOK
<1> QED BY <1>1, <1>2, <1>3, <1>4, <1>5, <1>6, <1>7 DEF Init, TypeOK

\* Every step keeps the types, action by action.
LEMMA StepTypes == TypeOK /\ ActorsOK /\ [Next]_vars => TypeOK' /\ ActorsOK'
<1> SUFFICES ASSUME TypeOK, ActorsOK, [Next]_vars PROVE TypeOK' /\ ActorsOK'
  OBVIOUS
<1>1. CASE Create
  <2>1. /\ invite' \in [Others -> {"none", "open", "accepted", "declined"}]
        /\ selected' \subseteq Others
    BY <1>1 DEF Create
  <2> QED BY <1>1, <2>1 DEF TypeOK, ActorsOK, Create, phones
<1>2. CASE Search
  BY <1>2 DEF TypeOK, ActorsOK, Search, phones
<1>3. CASE GroupLands
  <2>1. members' \subseteq Member
    BY <1>3, UsersFacts DEF GroupLands, Member
  <2> QED BY <1>3, <2>1 DEF TypeOK, ActorsOK, GroupLands, phones
<1>4. CASE CreateInbox
  <2>1. /\ inbox' \in [Users -> {"none", "bare", "full"}]
        /\ fresh' \subseteq Users
    BY <1>4, WriteTypes, UsersFacts DEF CreateInbox
  <2> QED BY <1>4, <2>1 DEF TypeOK, ActorsOK, CreateInbox
<1>5. CASE \E a \in Accepts : Join(a)
  <2>1. PICK a \in Accepts : Join(a)
    BY <1>5
  <2>2. accept[a] \in Accept /\ accept[a].pc # "unused" /\ accept[a].by \in Others
    BY <2>1 DEF TypeOK, ActorsOK, Join
  <2>3. accept' \in [Accepts -> Accept]
    BY <2>1, <2>2 DEF TypeOK, Join, Accept
  <2>4. \A b \in Accepts : accept'[b].pc # "unused" => accept'[b].by \in Others
    BY <2>1, <2>2 DEF TypeOK, ActorsOK, Join
  <2>5. members' \subseteq Member
    BY <2>1, <2>2, UsersFacts DEF TypeOK, Join, Accept, Member
  <2> QED BY <2>1, <2>3, <2>4, <2>5 DEF TypeOK, ActorsOK, Join, phones
<1>6. CASE \E a \in Accepts : JoinInbox(a)
  <2>1. PICK a \in Accepts : JoinInbox(a)
    BY <1>6
  <2>2. accept[a] \in Accept /\ accept[a].pc # "unused" /\ accept[a].by \in Others
    BY <2>1 DEF TypeOK, ActorsOK, JoinInbox
  <2>3. accept' \in [Accepts -> Accept]
    BY <2>1, <2>2 DEF TypeOK, JoinInbox, Accept
  <2>4. \A b \in Accepts : accept'[b].pc # "unused" => accept'[b].by \in Others
    BY <2>1, <2>2 DEF TypeOK, ActorsOK, JoinInbox
  <2>5. /\ inbox' \in [Users -> {"none", "bare", "full"}]
        /\ fresh' \subseteq Users
    BY <2>1, <2>2, WriteTypes, UsersFacts DEF JoinInbox
  <2> QED BY <2>1, <2>3, <2>4, <2>5 DEF TypeOK, ActorsOK, JoinInbox, phones
<1>7. CASE \E a \in Accepts : TellBackend(a)
  <2>1. PICK a \in Accepts : TellBackend(a)
    BY <1>7
  <2>2. accept[a] \in Accept /\ accept[a].pc # "unused" /\ accept[a].by \in Others
    BY <2>1 DEF TypeOK, ActorsOK, TellBackend
  <2>3. accept' \in [Accepts -> Accept]
    BY <2>1, <2>2 DEF TypeOK, TellBackend, Accept
  <2>4. \A b \in Accepts : accept'[b].pc # "unused" => accept'[b].by \in Others
    BY <2>1, <2>2 DEF TypeOK, ActorsOK, TellBackend
  <2>5. invite' \in [Others -> {"none", "open", "accepted", "declined"}]
    BY <2>1, <2>2, UsersFacts DEF TypeOK, TellBackend
  <2> QED BY <2>1, <2>3, <2>4, <2>5 DEF TypeOK, ActorsOK, TellBackend, phones
<1>8. CASE \E r \in Removals : RemoveMember(r)
  <2>1. PICK r \in Removals : RemoveMember(r)
    BY <1>8
  <2>2. removal[r] \in Removal /\ removal[r].user \in Others
    BY <2>1 DEF TypeOK, ActorsOK, RemoveMember
  <2>3. /\ removal' \in [Removals -> Removal]
        /\ \A q \in Removals : removal'[q].pc # "unused" => removal'[q].user \in Others
    BY <2>1, <2>2, GoesOnTypes, AbortTypes DEF RemoveMember
  <2>4. members' \subseteq Member
    BY <2>1, <2>2, UsersFacts DEF TypeOK, RemoveMember
  <2> QED BY <2>1, <2>3, <2>4 DEF TypeOK, ActorsOK, RemoveMember, phones
<1>9. CASE \E r \in Removals : RemoveInbox(r)
  <2>1. PICK r \in Removals : RemoveInbox(r)
    BY <1>9
  <2>2. removal[r] \in Removal /\ removal[r].user \in Others
    BY <2>1 DEF TypeOK, ActorsOK, RemoveInbox
  <2>3. /\ removal' \in [Removals -> Removal]
        /\ \A q \in Removals : removal'[q].pc # "unused" => removal'[q].user \in Others
    BY <2>1, <2>2, GoesOnTypes, AbortTypes DEF RemoveInbox
  <2>4. /\ inbox' \in [Users -> {"none", "bare", "full"}]
        /\ fresh' \subseteq Users
    BY <2>1, <2>2, WriteTypes, UsersFacts DEF RemoveInbox
  <2> QED BY <2>1, <2>3, <2>4 DEF TypeOK, ActorsOK, RemoveInbox, phones
<1>10. CASE \E r \in Removals : RemoveAtBackend(r)
  <2>1. PICK r \in Removals : RemoveAtBackend(r)
    BY <1>10
  <2>2. removal[r] \in Removal /\ removal[r].user \in Others
    BY <2>1 DEF TypeOK, ActorsOK, RemoveAtBackend
  <2>3. /\ removal' \in [Removals -> Removal]
        /\ \A q \in Removals : removal'[q].pc # "unused" => removal'[q].user \in Others
    BY <2>1, <2>2 DEF TypeOK, ActorsOK, RemoveAtBackend, Removal
  <2>4. invite' \in [Others -> {"none", "open", "accepted", "declined"}]
    BY <2>1, <2>2, UsersFacts DEF TypeOK, RemoveAtBackend
  <2> QED BY <2>1, <2>3, <2>4 DEF TypeOK, ActorsOK, RemoveAtBackend, phones
<1>11. CASE \E s \in Sends, v \in Users : Look(s, v)
  <2>1. PICK s \in Sends, v \in Users : Look(s, v)
    BY <1>11
  <2>2. send[s] \in Send
    BY DEF TypeOK
  <2>3. send' \in [Sends -> Send]
    <3>1. CASE inbox[v] # "none"
      <4>1. send' = [send EXCEPT ![s] = LookedUp(send[s], v)]
        BY <2>1, <3>1, Zenon DEF Look, LookedUp
      <4> QED BY <2>2, <4>1, LookTypes DEF TypeOK
    <3>2. CASE inbox[v] = "none"
      <4>1. send' = [send EXCEPT ![s] = Missed(send[s], v)]
        BY <2>1, <3>2, Zenon DEF Look, Missed
      <4> QED BY <2>2, <4>1, LookTypes DEF TypeOK
    <3> QED BY <3>1, <3>2
  <2> QED BY <2>1, <2>3 DEF TypeOK, ActorsOK, Look, phones
<1>12. CASE \E s \in Sends, v \in Users : SendUpdate(s, v)
  <2>1. PICK s \in Sends, v \in Users : SendUpdate(s, v)
    BY <1>12
  <2>2. send[s] \in Send
    BY DEF TypeOK
  <2>3. send' \in [Sends -> Send]
    BY <2>1, <2>2 DEF TypeOK, SendUpdate, Send
  <2>4. /\ inbox' \in [Users -> {"none", "bare", "full"}]
        /\ fresh' \subseteq Users
    BY <2>1, WriteTypes DEF SendUpdate, TypeOK
  <2> QED BY <2>1, <2>3, <2>4 DEF TypeOK, ActorsOK, SendUpdate, phones
<1>13. CASE \E s \in Sends, v \in Users : SendSet(s, v)
  <2>1. PICK s \in Sends, v \in Users : SendSet(s, v)
    BY <1>13
  <2>2. send[s] \in Send
    BY DEF TypeOK
  <2>3. send' \in [Sends -> Send]
    BY <2>1, <2>2 DEF TypeOK, SendSet, Send
  <2>4. /\ inbox' \in [Users -> {"none", "bare", "full"}]
        /\ fresh' \subseteq Users
    BY <2>1, WriteTypes DEF SendSet
  <2> QED BY <2>1, <2>3, <2>4 DEF TypeOK, ActorsOK, SendSet, phones
<1>14. CASE \E u \in Others : TapNo(u) \/ TapAdd(u) \/ ChangeProfile(u)
  <2>1. PICK u \in Others : TapNo(u) \/ TapAdd(u) \/ ChangeProfile(u)
    BY <1>14
  <2>2. /\ invite' \in [Others -> {"none", "open", "accepted", "declined"}]
        /\ selected' \subseteq Others
    BY <2>1 DEF TypeOK, TapNo, TapAdd, ChangeProfile
  <2>3. profile' \in [Others -> Profiles]
    <3>1. profile[u] \in Nat /\ profile \in [Others -> Profiles]
      BY BoundsAssumption DEF TypeOK, Profiles
    <3>2. ChangeProfile(u) => profile[u] + 1 \in Profiles
      BY <3>1, BoundsAssumption DEF ChangeProfile, Profiles
    <3> QED BY <2>1, <3>1, <3>2 DEF TapNo, TapAdd, ChangeProfile
  <2>4. UNCHANGED <<group, members, inbox, create, found, accept, removal,
                    send, phones, faults>>
    BY <2>1 DEF TapNo, TapAdd, ChangeProfile
  <2> QED BY <2>2, <2>3, <2>4 DEF TypeOK, ActorsOK, phones
<1>15. CASE \E a \in Accepts, u \in Others : TapYes(a, u)
  <2>1. PICK a \in Accepts, u \in Others : TapYes(a, u)
    BY <1>15
  <2>2. profile[u] \in Profiles /\ u \in Someone
    BY UsersFacts DEF TypeOK
  <2>3. accept' \in [Accepts -> Accept]
    BY <2>1, <2>2 DEF TypeOK, TapYes, Accept
  <2>4. \A b \in Accepts : accept'[b].pc # "unused" => accept'[b].by \in Others
    BY <2>1 DEF TypeOK, ActorsOK, TapYes
  <2> QED BY <2>1, <2>3, <2>4 DEF TypeOK, ActorsOK, TapYes, phones
<1>16. CASE \E r \in Removals, i \in 1..Len(Friends) :
             \E u \in At(i) : TapRemove(r, i, u)
  <2>1. PICK r \in Removals, i \in 1..Len(Friends) :
               \E u \in At(i) : TapRemove(r, i, u)
    BY <1>16
  <2>2. PICK u \in Others : TapRemove(r, i, u)
    BY <2>1, AtFacts
  <2>3. /\ \A p \in 0..profile[u] : p \in Profiles
        /\ u \in Someone /\ i \in 0..Len(Friends)
    <3>1. profile[u] \in Profiles
      BY DEF TypeOK
    <3>2. \A p \in 0..profile[u] : p \in Profiles
      BY <3>1, BoundsAssumption DEF Profiles
    <3> QED BY <3>2, UsersFacts
  <2>4. PICK p \in Profiles :
          removal' = [removal EXCEPT ![r] =
                        [pc |-> "members", index |-> i, user |-> u,
                         profile |-> p, alive |-> TRUE]]
    BY <2>2, <2>3 DEF TapRemove
  <2>5. removal' \in [Removals -> Removal]
    BY <2>3, <2>4 DEF TypeOK, Removal
  <2>6. \A q \in Removals : removal'[q].pc # "unused" => removal'[q].user \in Others
    BY <2>4 DEF TypeOK, ActorsOK
  <2>7. selected' \subseteq Others
    BY <2>2 DEF TapRemove, TypeOK
  <2> QED BY <2>2, <2>5, <2>6, <2>7 DEF TypeOK, ActorsOK, TapRemove, phones
<1>17. CASE \E u \in Viewers : OpenChat(u) \/ InboxStep(u)
  <2>1. PICK u \in Users :
          OpenChat(u) \/ Report(u) \/ ReadGroup(u) \/ ReadFails(u)
    BY <1>17, UsersFacts DEF InboxStep
  <2>2. MembersSeen(u) \subseteq Users
    BY UsersFacts DEF TypeOK, MembersSeen, Ids, Member
  <2>3. /\ screen' \in [Users -> SUBSET Users] /\ row' \in [Users -> SUBSET Users]
        /\ fresh' \subseteq Users /\ reading' \subseteq Users
        /\ lost' \subseteq Users
    BY <2>1, <2>2 DEF TypeOK, OpenChat, Report, ReadGroup, ReadFails
  <2>4. UNCHANGED <<group, members, inbox, create, invite, profile, selected,
                    found, accept, removal, send, faults>>
    BY <2>1 DEF OpenChat, Report, ReadGroup, ReadFails
  <2> QED BY <2>3, <2>4 DEF TypeOK, ActorsOK
<1>18. CASE \E s \in Sends, u \in Viewers : StartSend(s, u)
  <2>1. PICK s \in Sends, u \in Users : StartSend(s, u)
    BY <1>18, UsersFacts
  <2>2. screen[u] \subseteq Users /\ u \in Someone
    BY UsersFacts DEF TypeOK
  <2>3. send' \in [Sends -> Send]
    <3>1. send[s] \in Send
      BY DEF TypeOK
    <3>2. [send[s] EXCEPT !.by = u, !.get = screen[u]] \in Send
      BY <2>2, <3>1 DEF Send
    <3>3. send' = [send EXCEPT ![s] = [send[s] EXCEPT !.by = u, !.get = screen[u]]]
      BY <2>1, Zenon DEF StartSend
    <3> QED BY <3>2, <3>3 DEF TypeOK
  <2> QED BY <2>1, <2>3 DEF TypeOK, ActorsOK, StartSend, phones
<1>19. CASE \E u \in Users : Crash(u)
  <2>1. PICK u \in Users : Crash(u)
    BY <1>19
  <2>2. /\ accept' \in [Accepts -> Accept]
        /\ \A a \in Accepts : accept'[a].pc # "unused" => accept'[a].by \in Others
    <3>1. accept' = [a \in Accepts |->
            IF accept[a].by = u /\ Accepting(a) THEN CrashedAccept(accept[a])
                                                 ELSE accept[a]]
      BY <2>1 DEF Crash, CrashedAccept
    <3>2. ASSUME NEW a \in Accepts
          PROVE  /\ accept'[a] \in Accept
                 /\ accept'[a].pc # "unused" => accept'[a].by \in Others
      <4>1. accept[a] \in Accept
        BY DEF TypeOK
      <4>2. accept[a].pc # "unused" => accept[a].by \in Others
        BY DEF ActorsOK
      <4> QED BY <3>1, <4>1, <4>2, CrashedTypes DEF Accepting
    <3> QED BY <3>1, <3>2
  <2>3. /\ removal' \in [Removals -> Removal]
        /\ \A r \in Removals : removal'[r].pc # "unused" => removal'[r].user \in Others
    <3>1. removal' = [r \in Removals |->
            IF u = Admin /\ Removing(r) THEN CrashedRemoval(removal[r])
                                        ELSE removal[r]]
      BY <2>1 DEF Crash, CrashedRemoval
    <3>2. ASSUME NEW r \in Removals
          PROVE  /\ removal'[r] \in Removal
                 /\ removal'[r].pc # "unused" => removal'[r].user \in Others
      <4>1. removal[r] \in Removal
        BY DEF TypeOK
      <4>2. removal[r].pc # "unused" => removal[r].user \in Others
        BY DEF ActorsOK
      <4> QED BY <3>1, <4>1, <4>2, CrashedTypes DEF Removing
    <3> QED BY <3>1, <3>2
  <2>4. send' \in [Sends -> Send]
    <3>1. send' = [s \in Sends |->
            IF send[s].by = u THEN CrashedSend(send[s]) ELSE send[s]]
      BY <2>1 DEF Crash, CrashedSend
    <3>2. \A s \in Sends : send[s] \in Send
      BY DEF TypeOK
    <3> QED BY <3>1, <3>2, CrashedTypes
  <2>6. faults' \in 0..MaxFaults
    <3>1. faults \in 0..MaxFaults /\ faults < MaxFaults /\ faults' = faults + 1
      BY <2>1 DEF TypeOK, Crash
    <3> QED BY <3>1, BoundsAssumption
  <2>7. /\ create' \in {"idle", "inbox", "done", "aborted"}
        /\ found' \subseteq Others
    BY <2>1 DEF TypeOK, Crash
  <2>8. /\ screen' \in [Users -> SUBSET Users] /\ row' \in [Users -> SUBSET Users]
        /\ fresh' \subseteq Users /\ reading' \subseteq Users
        /\ lost' \subseteq Users
    BY <2>1 DEF TypeOK, Crash
  <2> QED BY <2>1, <2>2, <2>3, <2>4, <2>6, <2>7, <2>8
          DEF TypeOK, ActorsOK, Crash
<1>20. CASE UNCHANGED vars
  BY <1>20 DEF TypeOK, ActorsOK, vars, phones
<1> QED BY <1>1, <1>2, <1>3, <1>4, <1>5, <1>6, <1>7, <1>8, <1>9, <1>10, <1>11,
       <1>12, <1>13, <1>14, <1>15, <1>16, <1>17, <1>18, <1>19, <1>20
        DEF Next, Respond

\* The documents, the handlers' states and the rows keep to their types.
THEOREM GroupTypes == Spec => []TypeOK
<1>1. Spec => [](TypeOK /\ ActorsOK)
  BY InitTypes, StepTypes, PTL DEF Spec
<1> QED BY <1>1, PTL


-----------------------------------------------------------------------------
(* Nobody is half a member for good. *)

SomeRemoval == \E r \in Removals : removal[r].pc # "unused"
Overlooked(u) == \E s \in Sends : u \in send[s].missed
Excused(u) == inbox[u] = "full" \/ SomeRemoval \/ Overlooked(u)

\* The backend is told of a yes only once the group is in the inbox, and a
\* member was asked before.
AcceptedOK == \A u \in Others : invite[u] = "accepted" => Excused(u)
MembersOK == \A u \in Others : u \in Ids => invite[u] # "none" \/ SomeRemoval
AskedOK ==
    \A a \in Accepts :
      accept[a].pc # "unused" => invite[accept[a].by] # "none" \/ SomeRemoval
ToldOK == \A a \in Accepts : accept[a].pc = "api" => Excused(accept[a].by)

\* Only documents a message has missed are written anew by it.
SendsOK == \A s \in Sends : send[s].set \subseteq send[s].missed

\* Before the group is made there is nothing of it.
FreshOK ==
    create = "idle" =>
      /\ group = "no" /\ members = {} /\ selected = {}
      /\ \A a \in Accepts : accept[a].pc = "unused"
      /\ \A r \in Removals : removal[r].pc = "unused"
      /\ \A u \in Others : invite[u] = "none"

JoinInv ==
    /\ AcceptedOK /\ MembersOK /\ AskedOK /\ ToldOK
    /\ SendsOK /\ FreshOK

\* It holds before anything has happened.
LEMMA InitJoin == Init => JoinInv
BY DEF Init, JoinInv, AcceptedOK, MembersOK, AskedOK, ToldOK, SendsOK, FreshOK,
       Ids

\* Once a removal has been started, nothing is claimed of the members.
LEMMA RemovalExcuses ==
    ASSUME SomeRemoval'
    PROVE  (AcceptedOK /\ MembersOK /\ AskedOK /\ ToldOK)'
BY DEF AcceptedOK, MembersOK, AskedOK, ToldOK, Excused

\* A started removal stays started as long as its handler's state only moves on.
LEMMA RemovalStarted ==
    ASSUME TypeOK, NEW r \in Removals, NEW next \in {"inbox", "api"},
           \/ GoesOn(r, next)
           \/ removal' = [removal EXCEPT ![r].pc = "aborted"]
           \/ removal' = [removal EXCEPT ![r].pc = "done"]
    PROVE  SomeRemoval'
<1>1. removal \in [Removals -> Removal]
  BY DEF TypeOK
<1>2. removal'[r].pc \in {"inbox", "api", "aborted", "done"}
  BY <1>1 DEF GoesOn, Removal
<1> QED BY <1>2 DEF SomeRemoval

\* Every step keeps it.
LEMMA StepJoin ==
    TypeOK /\ ActorsOK /\ JoinInv /\ [Next]_vars => JoinInv'
<1> SUFFICES ASSUME TypeOK, ActorsOK, JoinInv, [Next]_vars PROVE JoinInv'
  OBVIOUS
<1>0. /\ AcceptedOK /\ MembersOK /\ AskedOK /\ ToldOK /\ SendsOK /\ FreshOK
      /\ Admin \notin Others
  BY FriendsAssumption DEF JoinInv
<1>1. CASE Create
  <2>1. /\ inbox' = inbox /\ members' = members /\ accept' = accept
        /\ removal' = removal /\ send' = send /\ create' = "inbox"
        /\ create = "idle"
    BY <1>1 DEF Create
  <2>2. \A u \in Others : invite'[u] # "accepted"
    BY <1>1 DEF Create
  <2>3. \A u \in Others : u \notin Ids'
    BY <1>0, <2>1 DEF FreshOK, Ids
  <2>4. \A a \in Accepts : accept'[a].pc = "unused"
    BY <1>0, <2>1 DEF FreshOK
  <2> QED BY <1>0, <2>1, <2>2, <2>3, <2>4
          DEF JoinInv, AcceptedOK, MembersOK, AskedOK, ToldOK, SendsOK, FreshOK
<1>2. CASE GroupLands
  <2>1. /\ UNCHANGED <<inbox, create, invite, accept, removal, send, selected>>
        /\ group = "queued" /\ members' = {[id |-> Admin, profile |-> 0]}
    BY <1>2 DEF GroupLands
  <2>2. MembersOK'
    BY <1>0, <2>1 DEF MembersOK, Ids
  <2> QED BY <1>0, <2>1, <2>2
          DEF JoinInv, AcceptedOK, AskedOK, ToldOK, SendsOK, FreshOK, Excused,
              SomeRemoval, Overlooked
<1>3. CASE CreateInbox
  <2>1. /\ UNCHANGED <<group, members, invite, accept, removal, send, selected>>
        /\ create' = "done"
        /\ \A u \in Others : inbox'[u] = inbox[u]
    BY <1>0, <1>3 DEF CreateInbox, Write, TypeOK, Users
  <2>2. \A a \in Accepts : accept[a].pc = "api" => accept[a].by \in Others
    BY DEF ActorsOK
  <2> QED BY <1>0, <2>1, <2>2
          DEF JoinInv, AcceptedOK, MembersOK, AskedOK, ToldOK, SendsOK, FreshOK,
              Excused, SomeRemoval, Overlooked, Ids
<1>4. CASE \E a \in Accepts : Join(a)
  <2>1. PICK a \in Accepts : Join(a)
    BY <1>4
  <2>2. /\ UNCHANGED <<group, inbox, create, invite, removal, send, selected>>
        /\ accept[a].pc = "join"
        /\ \A b \in Accepts : /\ accept'[b].by = accept[b].by
                              /\ accept'[b].pc # "unused" => accept[b].pc # "unused"
                              /\ accept'[b].pc = "api" => accept[b].pc = "api"
    BY <2>1 DEF Join, TypeOK, Accept
  <2>3. \A u \in Others : u \in Ids' => u \in Ids \/ u = accept[a].by
    BY <2>1 DEF Join, Ids
  <2>4. MembersOK'
    BY <1>0, <2>2, <2>3 DEF MembersOK, AskedOK, SomeRemoval
  <2>5. AcceptedOK' /\ AskedOK' /\ ToldOK' /\ SendsOK'
    BY <1>0, <2>2
       DEF AcceptedOK, AskedOK, ToldOK, SendsOK, Excused, SomeRemoval, Overlooked
  <2>6. FreshOK'
    BY <1>0, <2>2 DEF FreshOK
  <2> QED BY <2>4, <2>5, <2>6 DEF JoinInv
<1>5. CASE \E a \in Accepts : JoinInbox(a)
  <2>1. PICK a \in Accepts : JoinInbox(a)
    BY <1>5
  <2>2. /\ UNCHANGED <<group, members, create, invite, removal, send, selected>>
        /\ accept[a].pc = "inbox" /\ accept[a].by \in Users
        /\ \A b \in Accepts : /\ accept'[b].by = accept[b].by
                              /\ accept'[b].pc # "unused" => accept[b].pc # "unused"
                              /\ accept'[b].pc = "api" => accept[b].pc = "api" \/ b = a
    BY <2>1, UsersFacts DEF JoinInbox, TypeOK, ActorsOK, Accept
  <2>3. /\ \A u \in Users : inbox[u] = "full" => inbox'[u] = "full"
        /\ inbox'[accept[a].by] = "full"
    BY <2>1, <2>2 DEF JoinInbox, Write, TypeOK
  <2>4. \A u \in Users : Excused(u) => Excused(u)'
    BY <2>2, <2>3 DEF Excused, SomeRemoval, Overlooked
  <2>5. \A b \in Accepts : accept[b].pc = "api" => accept[b].by \in Users
    BY UsersFacts DEF ActorsOK
  <2>6. AcceptedOK'
    BY <1>0, <2>2, <2>4, UsersFacts DEF AcceptedOK
  <2>7. ToldOK'
    <3>1. Excused(accept[a].by)'
      BY <2>2, <2>3 DEF Excused
    <3> QED BY <1>0, <2>2, <2>4, <2>5, <3>1 DEF ToldOK
  <2>8. MembersOK' /\ AskedOK' /\ SendsOK' /\ FreshOK'
    BY <1>0, <2>2 DEF MembersOK, AskedOK, SendsOK, FreshOK, SomeRemoval, Ids
  <2> QED BY <2>6, <2>7, <2>8 DEF JoinInv
<1>6. CASE \E a \in Accepts : TellBackend(a)
  <2>1. PICK a \in Accepts : TellBackend(a)
    BY <1>6
  <2>2. /\ UNCHANGED <<group, members, inbox, create, removal, send, selected>>
        /\ accept[a].pc = "api" /\ accept[a].by \in Others
        /\ \A b \in Accepts : /\ accept'[b].by = accept[b].by
                              /\ accept'[b].pc # "unused" => accept[b].pc # "unused"
                              /\ accept'[b].pc = "api" => accept[b].pc = "api"
    BY <2>1 DEF TellBackend, TypeOK, ActorsOK, Accept
  <2>3. \A u \in Others : \/ invite'[u] = invite[u]
                          \/ u = accept[a].by /\ invite'[u] = "accepted"
    BY <2>1, <2>2 DEF TellBackend, TypeOK
  <2>4. \A u : Excused(u)' <=> Excused(u)
    BY <2>2 DEF Excused, SomeRemoval, Overlooked
  <2>5. AcceptedOK'
    BY <1>0, <2>2, <2>3, <2>4 DEF AcceptedOK, ToldOK
  <2>6. ToldOK'
    BY <1>0, <2>2, <2>4 DEF ToldOK
  <2>7. MembersOK'
    BY <1>0, <2>2, <2>3 DEF MembersOK, SomeRemoval, Ids
  <2>8. AskedOK'
    BY <1>0, <2>2, <2>3 DEF AskedOK, ActorsOK, SomeRemoval
  <2>9. SendsOK' /\ FreshOK'
    BY <1>0, <2>2 DEF SendsOK, FreshOK
  <2> QED BY <2>5, <2>6, <2>7, <2>8, <2>9 DEF JoinInv
<1>7. CASE \E u \in Others : TapNo(u) \/ TapAdd(u)
  <2>1. PICK u \in Others : TapNo(u) \/ TapAdd(u)
    BY <1>7
  <2>2. /\ UNCHANGED <<group, members, inbox, create, accept, removal, send>>
        /\ create # "idle"
        /\ \A w \in Others : \/ invite'[w] = invite[w]
                             \/ invite'[w] \in {"open", "declined"}
    BY <1>0, <2>1 DEF TapNo, TapAdd, TypeOK, FreshOK
  <2>3. \A w : Excused(w)' <=> Excused(w)
    BY <2>2 DEF Excused, SomeRemoval, Overlooked
  <2>4. AcceptedOK' /\ ToldOK'
    BY <1>0, <2>2, <2>3 DEF AcceptedOK, ToldOK
  <2>5. MembersOK'
    BY <1>0, <2>2 DEF MembersOK, SomeRemoval, Ids
  <2>6. AskedOK'
    BY <1>0, <2>2 DEF AskedOK, ActorsOK, SomeRemoval
  <2>7. SendsOK' /\ FreshOK'
    BY <1>0, <2>2 DEF SendsOK, FreshOK
  <2> QED BY <2>4, <2>5, <2>6, <2>7 DEF JoinInv
<1>8. CASE \E a \in Accepts, u \in Others : TapYes(a, u)
  <2>1. PICK a \in Accepts, u \in Others : TapYes(a, u)
    BY <1>8
  <2>2. /\ UNCHANGED <<group, members, inbox, create, invite, removal, send,
                       selected>>
        /\ invite[u] = "open"
        /\ \A b \in Accepts : \/ accept'[b] = accept[b]
                              \/ accept'[b].by = u /\ accept'[b].pc = "join"
    BY <2>1 DEF TapYes, TypeOK
  <2>3. \A w : Excused(w)' <=> Excused(w)
    BY <2>2 DEF Excused, SomeRemoval, Overlooked
  <2>4. AcceptedOK' /\ ToldOK' /\ MembersOK' /\ SendsOK'
    BY <1>0, <2>2, <2>3
       DEF AcceptedOK, ToldOK, MembersOK, SendsOK, SomeRemoval, Ids
  <2>5. AskedOK'
    BY <1>0, <2>2 DEF AskedOK, SomeRemoval
  <2>6. FreshOK'
    BY <1>0, <2>2 DEF FreshOK
  <2> QED BY <2>4, <2>5, <2>6 DEF JoinInv
<1>9. CASE \E r \in Removals, i \in 1..Len(Friends) :
             \E u \in At(i) : TapRemove(r, i, u)
  <2>1. PICK r \in Removals, i \in 1..Len(Friends), u \in Others :
               TapRemove(r, i, u)
    BY <1>9, AtFacts
  <2>2. /\ UNCHANGED <<group, members, inbox, create, invite, accept, send>>
        /\ u \in selected
        /\ removal'[r].pc = "members"
    BY <2>1 DEF TapRemove, TypeOK
  <2>3. SomeRemoval'
    BY <2>2 DEF SomeRemoval
  <2>4. SendsOK' /\ FreshOK'
    BY <1>0, <2>2 DEF SendsOK, FreshOK
  <2> QED BY <2>3, <2>4, RemovalExcuses DEF JoinInv
<1>10. CASE \E r \in Removals :
              RemoveMember(r) \/ RemoveInbox(r) \/ RemoveAtBackend(r)
  <2>1. PICK r \in Removals :
          RemoveMember(r) \/ RemoveInbox(r) \/ RemoveAtBackend(r)
    BY <1>10
  <2>2. SomeRemoval'
    BY <2>1, RemovalStarted DEF RemoveMember, RemoveInbox, RemoveAtBackend
  <2>3. /\ send' = send /\ create' = create
        /\ removal[r].pc # "unused"
    BY <2>1 DEF RemoveMember, RemoveInbox, RemoveAtBackend
  <2>4. SendsOK' /\ FreshOK'
    BY <1>0, <2>3 DEF SendsOK, FreshOK
  <2> QED BY <2>2, <2>4, RemovalExcuses DEF JoinInv
<1>11. CASE \E s \in Sends, v \in Users :
              Look(s, v) \/ SendUpdate(s, v) \/ SendSet(s, v)
  <2>1. PICK s \in Sends, v \in Users :
               Look(s, v) \/ SendUpdate(s, v) \/ SendSet(s, v)
    BY <1>11
  <2>2. UNCHANGED <<group, members, create, invite, accept, removal, selected>>
    BY <2>1 DEF Look, SendUpdate, SendSet
  <2>3. /\ send[s] \in Send /\ send \in [Sends -> Send]
        /\ inbox \in [Users -> {"none", "bare", "full"}]
    BY DEF TypeOK
  <2>4. \A t \in Sends : /\ send[t].missed \subseteq send'[t].missed
                         /\ send'[t].set \subseteq send[t].set \union (send'[t].missed)
    BY <2>1, <2>3 DEF Look, SendUpdate, SendSet, Send
  <2>5. SendsOK'
    BY <1>0, <2>4 DEF SendsOK
  <2>6. \A u \in Users : inbox'[u] = inbox[u] \/ u \in send'[s].missed
    BY <1>0, <2>1, <2>3 DEF Look, SendUpdate, SendSet, Write, SendsOK, Send
  <2>7. \A u \in Users : Excused(u) => Excused(u)'
    BY <2>2, <2>4, <2>6 DEF Excused, SomeRemoval, Overlooked
  <2>8. AcceptedOK' /\ ToldOK'
    BY <1>0, <2>2, <2>7, UsersFacts DEF AcceptedOK, ToldOK, ActorsOK
  <2>9. MembersOK' /\ AskedOK' /\ FreshOK'
    BY <1>0, <2>2 DEF MembersOK, AskedOK, FreshOK, SomeRemoval, Ids
  <2> QED BY <2>5, <2>8, <2>9 DEF JoinInv
<1>12. CASE \E s \in Sends, u \in Viewers : StartSend(s, u)
  <2>1. PICK s \in Sends, u \in Users : StartSend(s, u)
    BY <1>12, UsersFacts
  <2>2. UNCHANGED <<group, members, inbox, create, invite, accept, removal,
                    selected>>
    BY <2>1 DEF StartSend
  <2>4. \A t \in Sends : /\ send'[t].missed = send[t].missed
                         /\ send'[t].set = send[t].set
    BY <2>1 DEF StartSend, TypeOK, Send
  <2>5. SendsOK'
    BY <1>0, <2>4 DEF SendsOK
  <2>6. \A w : Excused(w)' <=> Excused(w)
    BY <2>2, <2>4 DEF Excused, SomeRemoval, Overlooked
  <2>7. AcceptedOK' /\ ToldOK' /\ MembersOK' /\ AskedOK' /\ FreshOK'
    BY <1>0, <2>2, <2>6
       DEF AcceptedOK, ToldOK, MembersOK, AskedOK, FreshOK, SomeRemoval, Ids
  <2> QED BY <2>5, <2>7 DEF JoinInv
<1>13. CASE \E u \in Users : Crash(u)
  <2>1. PICK u \in Users : Crash(u)
    BY <1>13
  <2>2. UNCHANGED <<group, members, inbox, invite, selected>>
    BY <2>1 DEF Crash
  <2>3. \A a \in Accepts : /\ accept'[a].by = accept[a].by
                           /\ accept'[a].pc \in {accept[a].pc, "aborted"}
                           /\ accept[a].pc = "unused" => accept'[a].pc = "unused"
    <3> SUFFICES ASSUME NEW a \in Accepts
                 PROVE  /\ accept'[a].by = accept[a].by
                        /\ accept'[a].pc \in {accept[a].pc, "aborted"}
                        /\ accept[a].pc = "unused" => accept'[a].pc = "unused"
      OBVIOUS
    <3>1. accept[a] \in Accept
      BY DEF TypeOK
    <3>2. accept'[a] = IF accept[a].by = u /\ Accepting(a)
                       THEN CrashedAccept(accept[a]) ELSE accept[a]
      BY <2>1 DEF Crash, CrashedAccept
    <3>3. CrashedAccept(accept[a]).pc \in {accept[a].pc, "aborted"}
      BY <3>1 DEF CrashedAccept, Accept
    <3> QED BY <3>1, <3>2, <3>3, CrashedTypes DEF Accepting
  <2>4. \A r \in Removals : removal'[r].pc = "unused" <=> removal[r].pc = "unused"
    <3> SUFFICES ASSUME NEW r \in Removals
                 PROVE  removal'[r].pc = "unused" <=> removal[r].pc = "unused"
      OBVIOUS
    <3>1. removal[r] \in Removal
      BY DEF TypeOK
    <3>2. removal'[r] = IF u = Admin /\ Removing(r)
                        THEN CrashedRemoval(removal[r]) ELSE removal[r]
      BY <2>1 DEF Crash, CrashedRemoval
    <3>3. CrashedRemoval(removal[r]).pc \in {removal[r].pc, "aborted"}
      BY <3>1 DEF CrashedRemoval, Removal
    <3> QED BY <3>2, <3>3 DEF Removing
  <2>5. \A s \in Sends : /\ send'[s].missed = send[s].missed
                         /\ send'[s].set \subseteq send[s].set
    <3> SUFFICES ASSUME NEW s \in Sends
                 PROVE  /\ send'[s].missed = send[s].missed
                        /\ send'[s].set \subseteq send[s].set
      OBVIOUS
    <3>1. send[s] \in Send
      BY DEF TypeOK
    <3>2. send'[s] = IF send[s].by = u THEN CrashedSend(send[s]) ELSE send[s]
      BY <2>1 DEF Crash, CrashedSend
    <3> QED BY <3>1, <3>2, CrashedTypes
  <2>6. create' = "idle" => create = "idle"
    BY <2>1 DEF Crash
  <2>7. SendsOK'
    BY <1>0, <2>5 DEF SendsOK
  <2>8. \A w : Excused(w)' <=> Excused(w)
    BY <2>2, <2>4, <2>5 DEF Excused, SomeRemoval, Overlooked
  <2>9. AcceptedOK' /\ ToldOK'
    BY <1>0, <2>2, <2>3, <2>8 DEF AcceptedOK, ToldOK
  <2>10. MembersOK' /\ AskedOK'
    BY <1>0, <2>2, <2>3, <2>4 DEF MembersOK, AskedOK, SomeRemoval, Ids
  <2>11. FreshOK'
    BY <1>0, <2>2, <2>3, <2>4, <2>6 DEF FreshOK
  <2> QED BY <2>7, <2>9, <2>10, <2>11 DEF JoinInv
<1>14. CASE \/ Search \/ UNCHANGED vars
            \/ \E u \in Others : ChangeProfile(u)
            \/ \E u \in Viewers : OpenChat(u) \/ InboxStep(u)
  <2>1. UNCHANGED <<group, members, inbox, create, invite, accept, removal,
                    send, selected>>
    BY <1>14 DEF Search, ChangeProfile, OpenChat, InboxStep, Report, ReadGroup,
           ReadFails,
                 vars
  <2> QED BY <1>0, <2>1
          DEF JoinInv, AcceptedOK, MembersOK, AskedOK, ToldOK, SendsOK, FreshOK,
              Excused, SomeRemoval, Overlooked, Ids
<1> QED BY <1>1, <1>2, <1>3, <1>4, <1>5, <1>6, <1>7, <1>8, <1>9, <1>10, <1>11,
           <1>12, <1>13, <1>14 DEF Next, Respond

\* However the yes handlers of any number of friends mix with messages,
\* crashes and each other, a friend in members has the group in the inbox or
\* can still say yes, unless a removal or an early look-up interfered.
THEOREM JoinTheorem == Spec => []JoinCanBeFinished
<1>1. JoinInv /\ TypeOK => JoinCanBeFinished
  <2> SUFFICES ASSUME JoinInv, TypeOK, NEW u \in Others, u \in Ids
               PROVE  \/ inbox[u] = "full"
                      \/ invite[u] \in {"open", "declined"}
                      \/ SomeRemoval \/ Overlooked(u)
    BY DEF JoinCanBeFinished, SomeRemoval, Overlooked
  <2> QED BY DEF JoinInv, MembersOK, AcceptedOK, Excused, TypeOK
<1>2. Spec => [](TypeOK /\ ActorsOK /\ JoinInv)
  BY InitTypes, InitJoin, StepTypes, StepJoin, PTL DEF Spec
<1> QED BY <1>1, <1>2, PTL

-----------------------------------------------------------------------------
(* Only a yes brings the group. *)

BroughtByYes(u) ==
    \/ u = Admin /\ create = "inbox" /\ create' = "done"
    \/ \E a \in Accepts : /\ accept[a].by = u /\ u \in Others
                          /\ accept[a].pc = "inbox" /\ accept'[a].pc = "api"

\* In one step the group comes into an inbox only by that user's own yes, or
\* by its making: a message writes what is there or a document without the id.
LEMMA StepBrings ==
    ASSUME TypeOK, ActorsOK, [Next]_vars, NEW u \in Users,
           inbox[u] # "full", inbox'[u] = "full"
    PROVE  BroughtByYes(u)
<1>0. inbox \in [Users -> {"none", "bare", "full"}]
  BY DEF TypeOK
<1>1. CASE CreateInbox
  BY <1>0, <1>1 DEF CreateInbox, Write, BroughtByYes
<1>2. CASE \E a \in Accepts : JoinInbox(a)
  <2>1. PICK a \in Accepts : JoinInbox(a)
    BY <1>2
  <2>2. u = accept[a].by
    BY <1>0, <2>1 DEF JoinInbox, Write
  <2>3. accept[a].pc = "inbox" /\ accept'[a].pc = "api" /\ accept[a].by \in Others
    BY <2>1 DEF JoinInbox, TypeOK, ActorsOK, Accept
  <2> QED BY <2>2, <2>3 DEF BroughtByYes
<1>3. CASE \E r \in Removals : RemoveInbox(r)
  BY <1>0, <1>3 DEF RemoveInbox, Write
<1>4. CASE \E s \in Sends, v \in Users : SendUpdate(s, v) \/ SendSet(s, v)
  <2>1. PICK s \in Sends, v \in Users : SendUpdate(s, v) \/ SendSet(s, v)
    BY <1>4
  <2>2. CASE SendUpdate(s, v)
    BY <1>0, <2>2 DEF SendUpdate, Write
  <2>3. CASE SendSet(s, v)
    BY <1>0, <2>3 DEF SendSet, Write
  <2> QED BY <2>1, <2>2, <2>3
<1>5. CASE inbox' = inbox
  BY <1>5
<1> QED BY <1>1, <1>2, <1>3, <1>4, <1>5
        DEF Next, Respond, Create, Search, GroupLands, Join, TellBackend,
            RemoveMember, RemoveAtBackend, Look, TapNo, TapAdd, ChangeProfile,
            TapYes, TapRemove, OpenChat, InboxStep, Report, ReadGroup, ReadFails,
            Crash,
            StartSend, vars

\* Whatever mixes with whatever, no message brings a group back.
THEOREM BringsTheorem == Spec => OnlyYesBringsTheGroup
<1> DEFINE Brings ==
      \A u \in Users :
         inbox[u] # "full" /\ inbox'[u] = "full" =>
           \/ u = Admin /\ create = "inbox" /\ create' = "done"
           \/ \E a \in Accepts : /\ accept[a].by = u /\ u \in Others
                                 /\ accept[a].pc = "inbox"
                                 /\ accept'[a].pc = "api"
<1>1. TypeOK /\ ActorsOK /\ [Next]_vars => [Brings]_vars
  BY StepBrings DEF BroughtByYes
<1>2. Spec => [](TypeOK /\ ActorsOK)
  BY InitTypes, StepTypes, PTL DEF Spec
<1>3. Spec => [][Brings]_vars
  BY <1>1, <1>2, PTL DEF Spec
<1> QED BY <1>3 DEF OnlyYesBringsTheGroup

-----------------------------------------------------------------------------
(* One handler at a time. *)

\* What SerialMembership is about: nothing has failed, no profile has changed.
Calm == MaxAtOnce = 1 /\ faults = 0 /\ \A u \in Others : profile[u] = 0

Alone ==
    /\ create = "inbox" => UnderWay = {}
    /\ \A a \in Accepts : Accepting(a) =>
         /\ \A b \in Accepts : Accepting(b) => b = a
         /\ \A r \in Removals : ~Removing(r)
         /\ \A s \in Sends : Pending(s) = {}
    /\ \A r \in Removals : Removing(r) =>
         /\ \A q \in Removals : Removing(q) => q = r
         /\ \A s \in Sends : Pending(s) = {}

CreateOK ==
    /\ create # "aborted" /\ (create = "idle" <=> group = "no")
    /\ create = "done" => inbox[Admin] = "full"

PlacesOK ==
    /\ \A e \in members : e.profile = 0
    /\ group = "there" => Admin \in Ids
    /\ group # "there" => members = {} /\ \A u \in Others : inbox[u] # "full"

\* A removal stays with the friend it was tapped for, since the search field
\* waits for it, and a message never makes a document full.
AcceptsOK ==
    \A a \in Accepts : Accepting(a) =>
      /\ accept[a].alive /\ accept[a].profile = 0
      /\ accept[a].pc = "inbox" => group = "there" /\ accept[a].by \in Ids
RemovalsOK ==
    \A r \in Removals : Removing(r) =>
      /\ removal[r].alive /\ removal[r].profile = 0
      /\ At(removal[r].index) = {removal[r].user}
      /\ removal[r].pc = "inbox" =>
           group = "there" /\ removal[r].user \notin Ids
SetsOK == \A s \in Sends, v \in Users : v \in send[s].set => inbox[v] # "full"

\* The user whose two places are being written.
Between(u) ==
    \/ u = Admin /\ create = "inbox"
    \/ \E a \in Accepts : accept[a].pc = "inbox" /\ accept[a].by = u
    \/ \E r \in Removals : removal[r].pc = "inbox" /\ removal[r].user = u

Matched ==
    group = "there" =>
      \A u \in Users : Between(u) \/ (u \in Ids <=> inbox[u] = "full")

InTurn ==
    Alone /\ CreateOK /\ PlacesOK /\ AcceptsOK /\ RemovalsOK /\ SetsOK /\ Matched
SerialInv == Calm => InTurn

LEMMA InitSerial == Init => SerialInv
<1> SUFFICES ASSUME Init PROVE InTurn
  BY DEF SerialInv
<1>1. /\ \A a \in Accepts : accept[a].pc = "unused"
      /\ \A r \in Removals : removal[r].pc = "unused"
      /\ \A s \in Sends : /\ send[s].get = {} /\ send[s].update = {}
                          /\ send[s].set = {}
  BY DEF Init
<1>2. Alone /\ AcceptsOK /\ RemovalsOK /\ SetsOK
  BY <1>1 DEF Init, Alone, AcceptsOK, RemovalsOK, SetsOK, Accepting, Removing,
     Pending
<1>3. CreateOK /\ PlacesOK /\ Matched
  BY UsersFacts DEF Init, CreateOK, PlacesOK, Matched
<1>4. QED
  BY <1>2, <1>3 DEF InTurn

\* With room for one handler only, one begins when none is under way.
LEMMA FreeIdle ==
    ASSUME MaxAtOnce = 1, Free
    PROVE  /\ UnderWay = {} /\ create # "inbox"
           /\ \A a \in Accepts : ~Accepting(a)
           /\ \A r \in Removals : ~Removing(r)
           /\ \A s \in Sends : Pending(s) = {}
<1> DEFINE A1 == {a \in Accepts : Accepting(a)}
           R1 == {r \in Removals : Removing(r)}
           S1 == {s \in Sends : Pending(s) # {}}
<1>1. IsFiniteSet(A1) /\ IsFiniteSet(R1) /\ IsFiniteSet(S1)
  BY CallsAssumption, FS_Subset
<1>2. IsFiniteSet((A1 \union R1) \union S1)
  BY <1>1, FS_Union
<1>3. UnderWay = (A1 \union R1) \union S1
  BY DEF UnderWay
<1>4. Cardinality(UnderWay) \in Nat
      /\ (Cardinality(UnderWay) = 0 <=> UnderWay = {})
  BY <1>2, <1>3, FS_CardinalityType, FS_EmptySet
<1>5. UnderWay = {} /\ create # "inbox"
  BY <1>4 DEF Free
<1>6. QED
  BY <1>5 DEF UnderWay

\* The friend at a place of list_data is one.
LEMMA AtOne ==
    ASSUME NEW i, NEW u \in At(i)
    PROVE  At(i) = {u}
<1> DEFINE To(k) == {n \in 1..k : Friends[n] \in found}
<1>0. Len(Friends) \in Nat
  BY FriendsAssumption
<1>1. ASSUME NEW j \in 1..Len(Friends), NEW k \in 1..Len(Friends), j < k,
             Friends[k] \in found
      PROVE  Cardinality(To(j)) # Cardinality(To(k))
  <2>1. IsFiniteSet(1..k)
    BY FS_Interval
  <2>2. IsFiniteSet(To(k))
    BY <2>1, FS_Subset
  <2>3. To(j) \subseteq To(k)
    BY <1>0, <1>1
  <2>4. k \in To(k) /\ k \notin To(j)
    BY <1>0, <1>1
  <2>5. QED
    BY <2>2, <2>3, <2>4, FS_Subset
<1>2. \A v \in At(i) : \E k \in 1..Len(Friends) :
        Friends[k] = v /\ v \in found /\ Cardinality(To(k)) = i
  BY DEF At
<1> HIDE DEF To
<1>3. ASSUME NEW v \in At(i) PROVE v = u
  <2>1. PICK j \in 1..Len(Friends) :
          Friends[j] = u /\ u \in found /\ Cardinality(To(j)) = i
    BY <1>2
  <2>2. PICK k \in 1..Len(Friends) :
          Friends[k] = v /\ v \in found /\ Cardinality(To(k)) = i
    BY <1>2
  <2>3. ~(j < k) /\ ~(k < j)
    BY <1>1, <2>1, <2>2
  <2>4. j = k
    BY <1>0, <2>3
  <2>5. QED
    BY <2>1, <2>2, <2>4
<1>4. QED
  BY <1>3

\* What the rest of the state does is no matter.
LEMMA InTurnKept ==
    ASSUME InTurn,
           UNCHANGED <<group, members, inbox, create, accept, removal, send, found>>
    PROVE  InTurn'
<1>1. Ids' = Ids /\ UnderWay' = UnderWay /\ \A i : At(i)' = At(i)
  BY DEF Ids, UnderWay, Accepting, Removing, Pending, At
<1>2. Alone' /\ CreateOK' /\ PlacesOK' /\ SetsOK'
  BY <1>1 DEF InTurn, Alone, CreateOK, PlacesOK, SetsOK, Accepting, Removing,
     Pending
<1>3. AcceptsOK' /\ RemovalsOK'
  BY <1>1 DEF InTurn, AcceptsOK, RemovalsOK, Accepting, Removing
<1>4. Matched'
  BY <1>1 DEF InTurn, Matched, Between
<1>5. QED
  BY <1>2, <1>3, <1>4 DEF InTurn

\* A handler under way moves on and is still the only one.
LEMMA AcceptAlone ==
    ASSUME Alone, NEW a \in Accepts, Accepting(a),
           UNCHANGED <<create, removal, send>>,
           \A b \in Accepts : b # a => accept'[b] = accept[b]
    PROVE  /\ Alone' /\ create # "inbox"
           /\ \A b \in Accepts : b # a => ~Accepting(b) /\ ~Accepting(b)'
           /\ \A r \in Removals : ~Removing(r) /\ ~Removing(r)'
           /\ \A s \in Sends : Pending(s) = {} /\ Pending(s)' = {}
<1>1. create # "inbox"
  BY DEF Alone, UnderWay
<1>2. /\ \A b \in Accepts : b # a => ~Accepting(b) /\ ~Accepting(b)'
      /\ \A r \in Removals : ~Removing(r) /\ ~Removing(r)'
      /\ \A s \in Sends : Pending(s) = {} /\ Pending(s)' = {}
  BY DEF Alone, Accepting, Removing, Pending
<1>3. QED
  BY <1>1, <1>2 DEF Alone

LEMMA RemovalAlone ==
    ASSUME Alone, NEW r \in Removals, Removing(r),
           UNCHANGED <<create, accept, send>>,
           \A q \in Removals : q # r => removal'[q] = removal[q]
    PROVE  /\ Alone' /\ create # "inbox"
           /\ \A a \in Accepts : ~Accepting(a) /\ ~Accepting(a)'
           /\ \A q \in Removals : q # r => ~Removing(q) /\ ~Removing(q)'
           /\ \A s \in Sends : Pending(s) = {} /\ Pending(s)' = {}
<1>1. create # "inbox"
  BY DEF Alone, UnderWay
<1>2. /\ \A a \in Accepts : ~Accepting(a) /\ ~Accepting(a)'
      /\ \A q \in Removals : q # r => ~Removing(q) /\ ~Removing(q)'
      /\ \A s \in Sends : Pending(s) = {} /\ Pending(s)' = {}
  BY DEF Alone, Accepting, Removing, Pending
<1>3. QED
  BY <1>1, <1>2 DEF Alone

\* The group is made, in three steps of which the second may come last.
LEMMA CreateInTurn ==
    ASSUME TypeOK, InTurn, MaxAtOnce = 1,
           Create \/ GroupLands \/ CreateInbox \/ Search
    PROVE  InTurn'
<1>0. /\ Alone /\ CreateOK /\ PlacesOK /\ AcceptsOK /\ RemovalsOK /\ SetsOK
      /\ Matched /\ Admin \notin Others /\ Admin \in Users
      /\ create \in {"idle", "inbox", "done", "aborted"}
      /\ group \in {"no", "queued", "there"}
      /\ inbox \in [Users -> {"none", "bare", "full"}]
  BY FriendsAssumption, UsersFacts DEF InTurn, TypeOK
<1>1. CASE Create
  <2>1. /\ UnderWay = {} /\ create # "inbox"
        /\ \A a \in Accepts : ~Accepting(a)
        /\ \A r \in Removals : ~Removing(r)
        /\ \A s \in Sends : Pending(s) = {}
    BY <1>1, FreeIdle DEF Create
  <2>2. /\ create = "idle" /\ create' = "inbox" /\ group' = "queued"
        /\ UNCHANGED <<members, inbox, accept, removal, send>>
    BY <1>1 DEF Create
  <2>3. /\ UnderWay' = UnderWay
        /\ \A a \in Accepts : ~Accepting(a)'
        /\ \A r \in Removals : ~Removing(r)'
    BY <2>1, <2>2 DEF UnderWay, Accepting, Removing, Pending
  <2>4. Alone' /\ AcceptsOK' /\ RemovalsOK'
    BY <2>1, <2>3 DEF Alone, AcceptsOK, RemovalsOK
  <2>5. SetsOK' /\ CreateOK' /\ PlacesOK' /\ Matched'
    BY <1>0, <2>2 DEF SetsOK, CreateOK, PlacesOK, Matched
  <2>6. QED
    BY <2>4, <2>5 DEF InTurn
<1>2. CASE GroupLands
  <2>1. /\ group = "queued" /\ group' = "there"
        /\ members' = {[id |-> Admin, profile |-> 0]}
        /\ UNCHANGED <<inbox, create, accept, removal, send, found>>
    BY <1>2 DEF GroupLands
  <2>2. Ids' = {Admin}
    BY <2>1 DEF Ids
  <2>3. Alone' /\ SetsOK'
    BY <1>0, <2>1 DEF Alone, SetsOK, UnderWay, Accepting, Removing, Pending
  <2>4. CreateOK' /\ PlacesOK'
    BY <1>0, <2>1, <2>2 DEF CreateOK, PlacesOK
  <2>5. AcceptsOK'
    BY <1>0, <2>1 DEF AcceptsOK, Accepting
  <2>6. RemovalsOK'
    <3>1. \A i : At(i)' = At(i)
      BY <2>1 DEF At
    <3>2. QED
      BY <1>0, <2>1, <3>1 DEF RemovalsOK, Removing
  <2>7. Matched'
    <3>1. ASSUME NEW u \in Users
          PROVE  Between(u)' \/ (u \in Ids' <=> inbox'[u] = "full")
      <4>1. CASE u = Admin
        <5>1. create = "inbox" \/ create = "done"
          BY <1>0, <2>1 DEF CreateOK
        <5>2. QED
          BY <1>0, <2>1, <2>2, <4>1, <5>1 DEF CreateOK, Between
      <4>2. CASE u # Admin
        <5>1. u \in Others
          BY <4>2 DEF Users
        <5>2. QED
          BY <1>0, <2>1, <2>2, <4>2, <5>1 DEF PlacesOK
      <4>3. QED
        BY <4>1, <4>2
    <3>2. QED
      BY <3>1 DEF Matched
  <2>8. QED
    BY <2>3, <2>4, <2>5, <2>6, <2>7 DEF InTurn
<1>3. CASE CreateInbox
  <2>1. /\ create = "inbox" /\ create' = "done"
        /\ inbox' = [inbox EXCEPT ![Admin] = "full"]
        /\ UNCHANGED <<group, members, accept, removal, send, found>>
    BY <1>3 DEF CreateInbox, Write
  <2>2. /\ inbox'[Admin] = "full"
        /\ \A u \in Users : u # Admin => inbox'[u] = inbox[u]
    BY <1>0, <2>1
  <2>3. /\ \A a \in Accepts : ~Accepting(a) /\ ~Accepting(a)'
        /\ \A r \in Removals : ~Removing(r) /\ ~Removing(r)'
        /\ \A s \in Sends : Pending(s) = {} /\ Pending(s)' = {}
    BY <1>0, <2>1 DEF Alone, UnderWay, Accepting, Removing, Pending
  <2>4. Alone' /\ AcceptsOK' /\ RemovalsOK'
    BY <2>1, <2>3 DEF Alone, AcceptsOK, RemovalsOK
  <2>5. SetsOK'
    BY <2>3 DEF SetsOK, Pending
  <2>6. Ids' = Ids
    BY <2>1 DEF Ids
  <2>7. CreateOK' /\ PlacesOK'
    <3>1. \A u \in Others : inbox'[u] = inbox[u]
      BY <1>0, <2>2, UsersFacts
    <3>2. QED
      BY <1>0, <2>1, <2>2, <2>6, <3>1 DEF CreateOK, PlacesOK
  <2>8. Matched'
    <3>1. ASSUME group = "there", NEW u \in Users
          PROVE  u \in Ids' <=> inbox'[u] = "full"
      <4>1. CASE u = Admin
        BY <1>0, <2>2, <2>6, <3>1, <4>1 DEF PlacesOK
      <4>2. CASE u # Admin
        <5>1. ~Between(u)
          BY <2>3, <4>2 DEF Between, Accepting, Removing
        <5>2. QED
          BY <1>0, <2>2, <2>6, <3>1, <4>2, <5>1 DEF Matched
      <4>3. QED
        BY <4>1, <4>2
    <3>2. QED
      BY <2>1, <3>1 DEF Matched
  <2>9. QED
    BY <2>4, <2>5, <2>7, <2>8 DEF InTurn
<1>4. CASE Search
  <2>1. \A r \in Removals : ~Removing(r)
    BY <1>4, FreeIdle DEF Search
  <2>2. UNCHANGED <<group, members, inbox, create, accept, removal, send>>
    BY <1>4 DEF Search
  <2>3. Ids' = Ids /\ UnderWay' = UnderWay
    BY <2>2 DEF Ids, UnderWay, Accepting, Removing, Pending
  <2>4. Alone' /\ CreateOK' /\ PlacesOK' /\ SetsOK' /\ AcceptsOK'
    BY <1>0, <2>2, <2>3 DEF Alone, CreateOK, PlacesOK, SetsOK, AcceptsOK,
       Accepting, Removing, Pending
  <2>5. RemovalsOK'
    BY <2>1, <2>2 DEF RemovalsOK, Removing
  <2>6. Matched'
    BY <1>0, <2>2, <2>3 DEF Matched, Between
  <2>7. QED
    BY <2>4, <2>5, <2>6 DEF InTurn
<1>5. QED
  BY <1>1, <1>2, <1>3, <1>4

\* A yes: the member is entered first, the inbox next.
LEMMA AcceptInTurn ==
    ASSUME TypeOK, ActorsOK, InTurn, NEW a \in Accepts,
           Join(a) \/ JoinInbox(a) \/ TellBackend(a)
    PROVE  InTurn'
<1>0. /\ Alone /\ CreateOK /\ PlacesOK /\ AcceptsOK /\ RemovalsOK /\ SetsOK
      /\ Matched /\ Admin \notin Others /\ Others \subseteq Users
      /\ accept \in [Accepts -> Accept] /\ accept[a] \in Accept
      /\ inbox \in [Users -> {"none", "bare", "full"}]
  BY FriendsAssumption, UsersFacts DEF InTurn, TypeOK
<1> DEFINE by == accept[a].by
<1>1. /\ Accepting(a) /\ by \in Others
      /\ accept[a].alive /\ accept[a].profile = 0
      /\ accept[a].pc = "inbox" => group = "there" /\ by \in Ids
  <2>1. Accepting(a)
    BY DEF Join, JoinInbox, TellBackend, Accepting
  <2>2. QED
    BY <1>0, <2>1 DEF AcceptsOK, ActorsOK, Accepting
<1>2. /\ UNCHANGED <<create, removal, send, group, found>>
      /\ \A b \in Accepts : b # a => accept'[b] = accept[b]
      /\ accept'[a].by = by /\ accept'[a].alive /\ accept'[a].profile = 0
  <2>1. UNCHANGED <<create, removal, send, group, found>>
    BY DEF Join, JoinInbox, TellBackend
  <2>2. \E p \in {"inbox", "aborted", "api", "done"} :
          accept' = [accept EXCEPT ![a].pc = p]
    BY DEF Join, JoinInbox, TellBackend
  <2>3. QED
    BY <1>0, <1>1, <2>1, <2>2 DEF Accept
<1>3. /\ Alone' /\ create # "inbox"
      /\ \A b \in Accepts : b # a => ~Accepting(b) /\ ~Accepting(b)'
      /\ \A r \in Removals : ~Removing(r) /\ ~Removing(r)'
      /\ \A s \in Sends : Pending(s) = {} /\ Pending(s)' = {}
  BY <1>0, <1>1, <1>2, AcceptAlone
<1>4. SetsOK' /\ RemovalsOK'
  BY <1>3 DEF SetsOK, RemovalsOK, Pending
<1>5. ASSUME NEW u \in Users, u # by PROVE ~Between(u) /\ ~Between(u)'
  BY <1>2, <1>3, <1>5 DEF Between, Accepting, Removing
<1>6. CASE Join(a)
  <2>1. accept[a].pc = "join" /\ inbox' = inbox
    BY <1>6 DEF Join
  <2>2. CASE group = "there"
    <3>1. /\ members' = members \union {[id |-> by, profile |-> 0]}
          /\ accept'[a].pc = "inbox"
      BY <1>0, <1>1, <1>6, <2>2 DEF Join, Accept
    <3>2. Ids' = Ids \union {by}
      <4> DEFINE new == [id |-> by, profile |-> 0]
      <4>1. new.id = by /\ members' = members \union {new}
        BY <3>1
      <4> HIDE DEF new
      <4>2. QED
        BY <4>1 DEF Ids
    <3>3. CreateOK' /\ PlacesOK'
      BY <1>0, <1>2, <2>1, <2>2, <3>1, <3>2 DEF CreateOK, PlacesOK
    <3>4. AcceptsOK'
      BY <1>2, <1>3, <2>2, <3>1, <3>2 DEF AcceptsOK
    <3>5. Matched'
      <4>1. ASSUME NEW u \in Users
            PROVE  Between(u)' \/ (u \in Ids' <=> inbox'[u] = "full")
        <5>1. CASE u = by
          BY <1>2, <3>1, <5>1 DEF Between
        <5>2. CASE u # by
          BY <1>0, <1>5, <2>1, <2>2, <3>2, <5>2 DEF Matched
        <5>3. QED
          BY <5>1, <5>2
      <4>2. QED
        BY <4>1 DEF Matched
    <3>6. QED
      BY <1>3, <1>4, <3>3, <3>4, <3>5 DEF InTurn
  <2>3. CASE group # "there"
    <3>1. members' = members /\ accept'[a].pc = "aborted"
      BY <1>0, <1>6, <2>3 DEF Join, Accept
    <3>2. CreateOK' /\ PlacesOK' /\ Matched'
      BY <1>0, <1>2, <2>1, <2>3, <3>1 DEF CreateOK, PlacesOK, Matched
    <3>3. AcceptsOK'
      BY <1>3, <3>1 DEF AcceptsOK, Accepting
    <3>4. QED
      BY <1>3, <1>4, <3>2, <3>3 DEF InTurn
  <2>4. QED
    BY <2>2, <2>3
<1>7. CASE JoinInbox(a)
  <2>1. /\ accept[a].pc = "inbox" /\ accept'[a].pc = "api"
        /\ inbox' = [inbox EXCEPT ![by] = "full"] /\ members' = members
    BY <1>0, <1>7 DEF JoinInbox, Write, Accept
  <2>2. /\ group = "there" /\ by \in Ids /\ Ids' = Ids /\ by \in Users
        /\ by # Admin /\ Admin \in Users
    BY <1>0, <1>1, <2>1, UsersFacts DEF Ids
  <2>3. inbox'[by] = "full" /\ \A u \in Users : u # by => inbox'[u] = inbox[u]
    BY <1>0, <2>1, <2>2
  <2>4. CreateOK' /\ PlacesOK'
    BY <1>0, <1>2, <2>1, <2>2, <2>3 DEF CreateOK, PlacesOK
  <2>5. AcceptsOK'
    BY <1>2, <1>3, <2>1 DEF AcceptsOK
  <2>6. Matched'
    <3>1. ASSUME NEW u \in Users
          PROVE  u \in Ids' <=> inbox'[u] = "full"
      <4>1. CASE u = by
        BY <2>2, <2>3, <4>1
      <4>2. CASE u # by
        BY <1>0, <1>5, <2>2, <2>3, <4>2 DEF Matched
      <4>3. QED
        BY <4>1, <4>2
    <3>2. QED
      BY <3>1 DEF Matched
  <2>7. QED
    BY <1>3, <1>4, <2>4, <2>5, <2>6 DEF InTurn
<1>8. CASE TellBackend(a)
  <2>1. /\ accept[a].pc = "api" /\ accept'[a].pc = "done"
        /\ UNCHANGED <<inbox, members>>
    BY <1>0, <1>8 DEF TellBackend, Accept
  <2>2. Ids' = Ids
    BY <2>1 DEF Ids
  <2>3. CreateOK' /\ PlacesOK'
    BY <1>0, <1>2, <2>1, <2>2 DEF CreateOK, PlacesOK
  <2>4. AcceptsOK'
    BY <1>3, <2>1 DEF AcceptsOK, Accepting
  <2>5. Matched'
    <3>1. \A u \in Users : ~Between(u)
      BY <1>3, <2>1 DEF Between, Accepting, Removing
    <3>2. QED
      BY <1>0, <1>2, <2>1, <2>2, <3>1 DEF Matched
  <2>6. QED
    BY <1>3, <1>4, <2>3, <2>4, <2>5 DEF InTurn
<1>9. QED
  BY <1>6, <1>7, <1>8

\* A removal: the member's entry goes first, the inbox next.
LEMMA RemovalInTurn ==
    ASSUME TypeOK, ActorsOK, InTurn, NEW r \in Removals,
           RemoveMember(r) \/ RemoveInbox(r) \/ RemoveAtBackend(r)
    PROVE  InTurn'
<1>0. /\ Alone /\ CreateOK /\ PlacesOK /\ AcceptsOK /\ RemovalsOK /\ SetsOK
      /\ Matched /\ Admin \notin Others /\ Others \subseteq Users
      /\ removal \in [Removals -> Removal] /\ removal[r] \in Removal
      /\ members \subseteq Member
      /\ inbox \in [Users -> {"none", "bare", "full"}]
  BY FriendsAssumption, UsersFacts DEF InTurn, TypeOK
<1> DEFINE user == removal[r].user
<1>1. /\ Removing(r) /\ user \in Others
      /\ removal[r].alive /\ removal[r].profile = 0
      /\ At(removal[r].index) = {user}
      /\ removal[r].pc = "inbox" => group = "there" /\ user \notin Ids
  <2>1. Removing(r)
    BY DEF RemoveMember, RemoveInbox, RemoveAtBackend, Removing
  <2>2. QED
    BY <1>0, <2>1 DEF RemovalsOK, ActorsOK, Removing
<1>2. UNCHANGED <<create, accept, send, group, found>>
  BY DEF RemoveMember, RemoveInbox, RemoveAtBackend
<1>3. ASSUME NEW next \in {"inbox", "api"}, GoesOn(r, next)
      PROVE  removal' = [removal EXCEPT ![r].pc = next, ![r].user = user]
  BY <1>1, <1>3 DEF GoesOn
<1>4. /\ \A q \in Removals : q # r => removal'[q] = removal[q]
      /\ removal'[r].user = user /\ removal'[r].alive
      /\ removal'[r].profile = 0 /\ removal'[r].index = removal[r].index
  <2>1. CASE \E next \in {"inbox", "api"} : GoesOn(r, next)
    <3>1. PICK next \in {"inbox", "api"} :
            removal' = [removal EXCEPT ![r].pc = next, ![r].user = user]
      BY <1>3, <2>1
    <3>2. QED
      BY <1>0, <1>1, <3>1 DEF Removal
  <2>2. CASE \E p \in {"aborted", "done"} :
               removal' = [removal EXCEPT ![r].pc = p]
    BY <1>0, <1>1, <2>2 DEF Removal
  <2>3. QED
    BY <2>1, <2>2 DEF RemoveMember, RemoveInbox, RemoveAtBackend
<1>5. /\ Alone' /\ create # "inbox"
      /\ \A a \in Accepts : ~Accepting(a) /\ ~Accepting(a)'
      /\ \A q \in Removals : q # r => ~Removing(q) /\ ~Removing(q)'
      /\ \A s \in Sends : Pending(s) = {} /\ Pending(s)' = {}
  BY <1>0, <1>1, <1>2, <1>4, RemovalAlone
<1>6. SetsOK' /\ AcceptsOK'
  BY <1>5 DEF SetsOK, AcceptsOK, Pending
<1>7. ASSUME NEW u \in Users, u # user PROVE ~Between(u) /\ ~Between(u)'
  BY <1>2, <1>4, <1>5, <1>7 DEF Between, Accepting, Removing
<1>8. At(removal[r].index)' = {user}
  <2>1. \A i : At(i)' = At(i)
    BY <1>2 DEF At
  <2>2. QED
    BY <1>1, <1>4, <2>1
<1>9. CASE RemoveMember(r)
  <2>1. removal[r].pc = "members" /\ inbox' = inbox
    BY <1>9 DEF RemoveMember
  <2>2. CASE group = "there"
    <3>1. members' = members \ {[id |-> user, profile |-> 0]}
      BY <1>1, <1>9, <2>2 DEF RemoveMember
    <3>2. Ids' = Ids \ {user}
      <4>1. \A e \in members : e.id = user => e = [id |-> user, profile |-> 0]
        BY <1>0 DEF PlacesOK, Member
      <4>2. \A e \in members : e \in members' <=> e.id # user
        BY <3>1, <4>1
      <4>3. members' \subseteq members
        BY <3>1
      <4>4. QED
        BY <4>2, <4>3 DEF Ids
    <3>3. removal'[r].pc = "inbox"
      <4>1. removal' = [removal EXCEPT ![r].pc = "inbox", ![r].user = user]
        BY <1>3, <1>9, <2>2 DEF RemoveMember
      <4>2. QED
        BY <1>0, <4>1 DEF Removal
    <3>4. CreateOK' /\ PlacesOK'
      BY <1>0, <1>1, <1>2, <2>1, <2>2, <3>1, <3>2 DEF CreateOK, PlacesOK
    <3>5. RemovalsOK'
      BY <1>2, <1>4, <1>5, <1>8, <2>2, <3>2 DEF RemovalsOK
    <3>6. Matched'
      <4>1. ASSUME NEW u \in Users
            PROVE  Between(u)' \/ (u \in Ids' <=> inbox'[u] = "full")
        <5>1. CASE u = user
          BY <1>4, <3>3, <5>1 DEF Between
        <5>2. CASE u # user
          BY <1>0, <1>7, <2>1, <2>2, <3>2, <5>2 DEF Matched
        <5>3. QED
          BY <5>1, <5>2
      <4>2. QED
        BY <4>1 DEF Matched
    <3>7. QED
      BY <1>5, <1>6, <3>4, <3>5, <3>6 DEF InTurn
  <2>3. CASE group # "there"
    <3>1. members' = members /\ removal'[r].pc = "aborted"
      BY <1>0, <1>9, <2>3 DEF RemoveMember, Removal
    <3>2. CreateOK' /\ PlacesOK' /\ Matched'
      BY <1>0, <1>2, <2>1, <2>3, <3>1 DEF CreateOK, PlacesOK, Matched
    <3>3. RemovalsOK'
      BY <1>5, <3>1 DEF RemovalsOK, Removing
    <3>4. QED
      BY <1>5, <1>6, <3>2, <3>3 DEF InTurn
  <2>4. QED
    BY <2>2, <2>3
<1>10. CASE RemoveInbox(r)
  <2>1. /\ removal[r].pc = "inbox"
        /\ inbox' = [inbox EXCEPT ![user] = "none"] /\ members' = members
    BY <1>10 DEF RemoveInbox, Write
  <2>2. removal'[r].pc = "api"
    <3>1. removal' = [removal EXCEPT ![r].pc = "api", ![r].user = user]
      BY <1>3, <1>10 DEF RemoveInbox
    <3>2. QED
      BY <1>0, <3>1 DEF Removal
  <2>3. /\ group = "there" /\ user \notin Ids /\ Ids' = Ids /\ user \in Users
        /\ user # Admin /\ Admin \in Users
    BY <1>0, <1>1, <2>1, UsersFacts DEF Ids
  <2>4. inbox'[user] = "none" /\ \A u \in Users : u # user => inbox'[u] = inbox[u]
    BY <1>0, <2>1, <2>3
  <2>5. CreateOK' /\ PlacesOK'
    BY <1>0, <1>2, <2>1, <2>3, <2>4 DEF CreateOK, PlacesOK
  <2>6. RemovalsOK'
    BY <1>4, <1>5, <1>8, <2>2 DEF RemovalsOK
  <2>7. Matched'
    <3>1. ASSUME NEW u \in Users
          PROVE  u \in Ids' <=> inbox'[u] = "full"
      <4>1. CASE u = user
        BY <2>3, <2>4, <4>1
      <4>2. CASE u # user
        BY <1>0, <1>7, <2>3, <2>4, <4>2 DEF Matched
      <4>3. QED
        BY <4>1, <4>2
    <3>2. QED
      BY <3>1 DEF Matched
  <2>8. QED
    BY <1>5, <1>6, <2>5, <2>6, <2>7 DEF InTurn
<1>11. CASE RemoveAtBackend(r)
  <2>1. /\ removal[r].pc = "api" /\ removal'[r].pc = "done"
        /\ UNCHANGED <<inbox, members>>
    BY <1>0, <1>11 DEF RemoveAtBackend, Removal
  <2>2. Ids' = Ids
    BY <2>1 DEF Ids
  <2>3. CreateOK' /\ PlacesOK'
    BY <1>0, <1>2, <2>1, <2>2 DEF CreateOK, PlacesOK
  <2>4. RemovalsOK'
    BY <1>5, <2>1 DEF RemovalsOK, Removing
  <2>5. Matched'
    <3>1. \A u \in Users : ~Between(u)
      BY <1>5, <2>1 DEF Between, Accepting, Removing
    <3>2. QED
      BY <1>0, <1>2, <2>1, <2>2, <3>1 DEF Matched
  <2>6. QED
    BY <1>5, <1>6, <2>3, <2>4, <2>5 DEF InTurn
<1>12. QED
  BY <1>9, <1>10, <1>11

\* A tap begins a handler that has done nothing yet.
LEMMA TapInTurn ==
    ASSUME TypeOK, InTurn, Calm,
           \/ \E a \in Accepts, u \in Others : TapYes(a, u)
           \/ \E r \in Removals, i \in 1..Len(Friends) :
                \E u \in At(i) : TapRemove(r, i, u)
    PROVE  InTurn'
<1>0. /\ Alone /\ CreateOK /\ PlacesOK /\ AcceptsOK /\ RemovalsOK /\ SetsOK
      /\ Matched
      /\ accept \in [Accepts -> Accept] /\ removal \in [Removals -> Removal]
  BY DEF InTurn, TypeOK
<1>1. Free
  BY DEF TapYes, TapRemove
<1>2. /\ create # "inbox"
      /\ \A a \in Accepts : ~Accepting(a)
      /\ \A r \in Removals : ~Removing(r)
      /\ \A s \in Sends : Pending(s) = {}
  BY <1>1, FreeIdle DEF Calm
<1>3. UNCHANGED <<group, members, inbox, create, send, found>>
  BY DEF TapYes, TapRemove
<1>4. Ids' = Ids /\ \A i : At(i)' = At(i)
  BY <1>3 DEF Ids, At
<1>5. CreateOK' /\ PlacesOK' /\ SetsOK'
  BY <1>0, <1>3, <1>4 DEF CreateOK, PlacesOK, SetsOK
<1>6. Matched'
  <2>1. \A u \in Users : ~Between(u)
    BY <1>2 DEF Between, Accepting, Removing
  <2>2. QED
    BY <1>0, <1>3, <1>4, <2>1 DEF Matched
<1>7. CASE \E a \in Accepts, u \in Others : TapYes(a, u)
  <2>1. PICK a \in Accepts, u \in Others : TapYes(a, u)
    BY <1>7
  <2>2. accept' = [accept EXCEPT ![a] = [pc |-> "join", by |-> u,
                                         profile |-> profile[u], alive |-> TRUE]]
        /\ removal' = removal
    BY <2>1 DEF TapYes
  <2>3. /\ accept'[a].pc = "join" /\ accept'[a].alive /\ accept'[a].profile = 0
        /\ \A b \in Accepts : b # a => accept'[b] = accept[b]
    BY <1>0, <2>2 DEF Calm
  <2>4. /\ \A b \in Accepts : b # a => ~Accepting(b)'
        /\ \A r \in Removals : ~Removing(r)'
        /\ \A s \in Sends : Pending(s)' = {}
    BY <1>2, <1>3, <2>2, <2>3 DEF Accepting, Removing, Pending
  <2>5. Alone' /\ AcceptsOK' /\ RemovalsOK'
    BY <1>2, <1>3, <2>3, <2>4 DEF Alone, AcceptsOK, RemovalsOK
  <2>6. QED
    BY <1>5, <1>6, <2>5 DEF InTurn
<1>8. CASE \E r \in Removals, i \in 1..Len(Friends) :
             \E u \in At(i) : TapRemove(r, i, u)
  <2>1. PICK r \in Removals, i \in 1..Len(Friends) :
          \E u \in At(i) : TapRemove(r, i, u)
    BY <1>8
  <2>2. PICK u \in At(i) : TapRemove(r, i, u)
    BY <2>1
  <2>3. PICK p \in 0..profile[u] :
          removal' = [removal EXCEPT ![r] = [pc |-> "members", index |-> i,
                                             user |-> u, profile |-> p,
                                             alive |-> TRUE]]
    BY <2>2 DEF TapRemove
  <2>4. p = 0 /\ At(i) = {u} /\ accept' = accept
    <3>1. u \in Others
      BY AtFacts
    <3>2. profile[u] = 0
      BY <3>1 DEF Calm
    <3>3. p = 0
      BY <3>2
    <3>4. At(i) = {u}
      BY AtOne
    <3>5. QED
      BY <2>2, <3>3, <3>4 DEF TapRemove
  <2>5. /\ removal'[r].pc = "members" /\ removal'[r].alive
        /\ removal'[r].profile = 0 /\ removal'[r].index = i
        /\ removal'[r].user = u
        /\ \A q \in Removals : q # r => removal'[q] = removal[q]
    BY <1>0, <2>3, <2>4
  <2>6. /\ \A q \in Removals : q # r => ~Removing(q)'
        /\ \A a \in Accepts : ~Accepting(a)'
        /\ \A s \in Sends : Pending(s)' = {}
    BY <1>2, <1>3, <2>4, <2>5 DEF Accepting, Removing, Pending
  <2>7. Alone' /\ AcceptsOK'
    BY <1>2, <1>3, <2>6 DEF Alone, AcceptsOK
  <2>8. At(removal[r].index)' = {u}
    BY <1>4, <2>4, <2>5
  <2>9. RemovalsOK'
    BY <2>5, <2>6, <2>8 DEF RemovalsOK
  <2>10. QED
    BY <1>5, <1>6, <2>7, <2>9 DEF InTurn
<1>9. QED
  BY <1>7, <1>8

\* A message under way is the only handler, and changes no document that is
\* full, nor makes one.
LEMMA SendInTurn ==
    ASSUME TypeOK, InTurn, Calm, NEW s \in Sends, NEW v \in Users,
           Look(s, v) \/ SendUpdate(s, v) \/ SendSet(s, v) \/ StartSend(s, v)
    PROVE  InTurn'
<1>0. /\ Alone /\ CreateOK /\ PlacesOK /\ AcceptsOK /\ RemovalsOK /\ SetsOK
      /\ Matched /\ Others \subseteq Users /\ Admin \in Users
      /\ send \in [Sends -> Send] /\ send[s] \in Send
      /\ inbox \in [Users -> {"none", "bare", "full"}]
  BY UsersFacts DEF InTurn, TypeOK
<1>1. /\ create # "inbox"
      /\ \A a \in Accepts : ~Accepting(a)
      /\ \A r \in Removals : ~Removing(r)
  <2>1. CASE StartSend(s, v)
    <3>1. Free
      BY <2>1 DEF StartSend
    <3>2. QED
      BY <3>1, FreeIdle DEF Calm
  <2>2. CASE ~StartSend(s, v)
    <3>1. Pending(s) # {}
      BY <2>2 DEF Look, SendUpdate, SendSet, Pending
    <3>2. QED
      BY <1>0, <3>1 DEF Alone, UnderWay
  <2>3. QED
    BY <2>1, <2>2
<1>2. /\ UNCHANGED <<group, members, create, accept, removal, found>>
      /\ Ids' = Ids /\ \A i : At(i)' = At(i)
  <2>1. UNCHANGED <<group, members, create, accept, removal, found>>
    BY DEF Look, SendUpdate, SendSet, StartSend
  <2>2. QED
    BY <2>1 DEF Ids, At
<1>3. /\ \A a \in Accepts : ~Accepting(a)'
      /\ \A r \in Removals : ~Removing(r)'
  BY <1>1, <1>2 DEF Accepting, Removing
<1>4. Alone' /\ AcceptsOK' /\ RemovalsOK'
  BY <1>1, <1>2, <1>3 DEF Alone, AcceptsOK, RemovalsOK
<1>5. \A u \in Users : inbox'[u] = "full" <=> inbox[u] = "full"
  <2>1. CASE SendSet(s, v)
    <3>1. inbox' = [inbox EXCEPT ![v] = "bare"] /\ inbox[v] # "full"
      BY <1>0, <2>1 DEF SendSet, Write, SetsOK
    <3>2. QED
      BY <1>0, <3>1
  <2>2. CASE SendUpdate(s, v)
    BY <1>0, <2>2 DEF SendUpdate, Write
  <2>3. CASE Look(s, v) \/ StartSend(s, v)
    BY <2>3 DEF Look, StartSend
  <2>4. QED
    BY <2>1, <2>2, <2>3
<1>6. \A t \in Sends, u \in Users :
        u \in send'[t].set => u \in send[t].set \/ inbox[u] = "none"
  <2>1. CASE Look(s, v)
    <3>1. CASE send' = [send EXCEPT ![s] = LookedUp(send[s], v)]
      <4>1. LookedUp(send[s], v).set = send[s].set
        BY <1>0, LookTypes
      <4>2. \A t \in Sends : send'[t] = IF t = s THEN LookedUp(send[s], v)
                                                 ELSE send[t]
        BY <1>0, <3>1
      <4>3. QED
        BY <4>1, <4>2
    <3>2. CASE /\ send' = [send EXCEPT ![s] = Missed(send[s], v)]
               /\ inbox[v] = "none"
      <4>1. Missed(send[s], v).set = send[s].set \union {v}
        BY <1>0, LookTypes
      <4>2. \A t \in Sends : send'[t] = IF t = s THEN Missed(send[s], v)
                                                 ELSE send[t]
        BY <1>0, <3>2
      <4>3. QED
        BY <3>2, <4>1, <4>2
    <3>3. QED
      BY <2>1, <3>1, <3>2 DEF Look, LookedUp, Missed
  <2>2. CASE SendUpdate(s, v)
    BY <1>0, <2>2 DEF SendUpdate, Send
  <2>3. CASE SendSet(s, v)
    BY <1>0, <2>3 DEF SendSet, Send
  <2>4. CASE StartSend(s, v)
    BY <1>0, <2>4 DEF StartSend, Send
  <2>5. QED
    BY <2>1, <2>2, <2>3, <2>4
<1>7. SetsOK'
  BY <1>0, <1>5, <1>6 DEF SetsOK
<1>8. CreateOK' /\ PlacesOK'
  BY <1>0, <1>2, <1>5 DEF CreateOK, PlacesOK
<1>9. Matched'
  <2>1. \A u \in Users : ~Between(u)
    BY <1>1 DEF Between, Accepting, Removing
  <2>2. QED
    BY <1>0, <1>2, <1>5, <2>1 DEF Matched
<1>10. QED
  BY <1>4, <1>7, <1>8, <1>9 DEF InTurn

\* A state that is calm was calm before: faults are counted and versions grow.
LEMMA CalmBefore ==
    ASSUME TypeOK, [Next]_vars, Calm'
    PROVE  /\ Calm /\ UNCHANGED <<faults, profile>>
           /\ ~(\E u \in Others : ChangeProfile(u)) /\ ~(\E u \in Users : Crash(u))
<1>0. faults \in Nat /\ profile \in [Others -> Profiles] /\ Profiles \subseteq Nat
  BY BoundsAssumption DEF TypeOK, Profiles
<1>1. ASSUME NEW u \in Users, Crash(u) PROVE FALSE
  <2>1. faults' = faults + 1
    BY <1>1 DEF Crash
  <2>2. faults' = 0
    BY DEF Calm
  <2>3. QED
    BY <1>0, <2>1, <2>2
<1>2. ASSUME NEW u \in Others, ChangeProfile(u) PROVE FALSE
  <2>1. profile'[u] = profile[u] + 1 /\ profile[u] \in Nat
    BY <1>0, <1>2 DEF ChangeProfile
  <2>2. QED
    BY <2>1 DEF Calm
<1>3. UNCHANGED <<faults, profile>>
  BY <1>1, <1>2 DEF Next, Create, Search, Respond, GroupLands, CreateInbox, Join,
     JoinInbox, TellBackend, RemoveMember, RemoveInbox, RemoveAtBackend, Look,
     SendUpdate, SendSet, TapNo, TapAdd, TapYes, TapRemove, OpenChat,
     InboxStep, Report, ReadGroup, ReadFails, StartSend, vars
<1>4. QED
  BY <1>1, <1>2, <1>3 DEF Calm

LEMMA StepSerial ==
    ASSUME TypeOK, ActorsOK, SerialInv, [Next]_vars
    PROVE  SerialInv'
<1> SUFFICES ASSUME Calm' PROVE InTurn'
  BY DEF SerialInv
<1>0. Calm /\ InTurn /\ MaxAtOnce = 1
  BY CalmBefore DEF SerialInv, Calm
<1>1. CASE Create \/ Search \/ GroupLands \/ CreateInbox
  BY <1>0, <1>1, CreateInTurn
<1>2. CASE \E a \in Accepts : Join(a) \/ JoinInbox(a) \/ TellBackend(a)
  BY <1>0, <1>2, AcceptInTurn
<1>3. CASE \E r \in Removals :
             RemoveMember(r) \/ RemoveInbox(r) \/ RemoveAtBackend(r)
  BY <1>0, <1>3, RemovalInTurn
<1>4. CASE \/ \E s \in Sends, v \in Users :
                Look(s, v) \/ SendUpdate(s, v) \/ SendSet(s, v)
           \/ \E s \in Sends, u \in Viewers : StartSend(s, u)
  BY <1>0, <1>4, SendInTurn, UsersFacts
<1>5. CASE \/ \E a \in Accepts, u \in Others : TapYes(a, u)
           \/ \E r \in Removals, i \in 1..Len(Friends) :
                \E u \in At(i) : TapRemove(r, i, u)
  BY <1>0, <1>5, TapInTurn
<1>6. CASE \/ \E u \in Others : TapNo(u) \/ TapAdd(u)
           \/ \E u \in Viewers : OpenChat(u) \/ InboxStep(u)
           \/ UNCHANGED vars
  <2>1. UNCHANGED <<group, members, inbox, create, accept, removal, send, found>>
    BY <1>6 DEF TapNo, TapAdd, OpenChat, InboxStep, Report, ReadGroup, ReadFails,
                   vars
  <2>2. QED
    BY <1>0, <2>1, InTurnKept
<1>7. QED
  BY <1>1, <1>2, <1>3, <1>4, <1>5, <1>6, CalmBefore DEF Next, Respond

\* Users who wait for one handler to end before they start another find the
\* members and the inboxes in agreement, however many friends, taps and messages
\* there are and from whatever chats the messages are sent.
THEOREM SerialTheorem == Spec => []SerialMembership
<1>1. ASSUME SerialInv PROVE SerialMembership
  <2>1. SUFFICES ASSUME Calm, Idle, group = "there", NEW u \in Users
                 PROVE  u \in Ids <=> inbox[u] = "full"
    BY DEF SerialMembership, Calm
  <2>2. Matched /\ ~Between(u)
    BY <1>1, <2>1 DEF SerialInv, InTurn, Idle, UnderWay, Between, Accepting,
       Removing
  <2>3. QED
    BY <2>1, <2>2 DEF Matched
<1>2. Spec => [](TypeOK /\ ActorsOK)
  BY InitTypes, StepTypes, PTL DEF Spec
<1>3. QED
  BY <1>1, <1>2, InitSerial, StepSerial, PTL DEF Spec

-----------------------------------------------------------------------------
(* The group appears. *)

\* A group that is made keeps its admin, and before it is there nobody but the
\* admin has it in the inbox.
MadeOK ==
    /\ group = "there" => Admin \in Ids
    /\ create = "inbox" => group # "no"
    /\ \A a \in Accepts : accept[a].pc = "inbox" => group = "there"
    /\ \A u \in Users :
         inbox[u] = "full" => group = "there" \/ (group = "queued" /\ u = Admin)

\* A phone whose inbox has the group shows it or is about to be told.
\* The row is on u's screen, or the read for it has failed.
Answered(u) == row[u] # {} \/ u \in lost

ShownOK ==
    \A u \in Viewers :
      inbox[u] = "full" => u \in fresh \/ u \in reading \/ Answered(u)

LEMMA InitMade == Init => MadeOK /\ ShownOK
BY UsersFacts DEF Init, MadeOK, ShownOK

\* The group's document is made once and not taken away.
LEMMA GroupMoves ==
    ASSUME FreshOK, [Next]_vars
    PROVE  \/ group' = group /\ ~Create
           \/ Create /\ group = "no" /\ group' = "queued"
           \/ GroupLands /\ group = "queued" /\ group' = "there"
BY DEF FreshOK, Next, Respond, Create, Search, GroupLands, CreateInbox, Join,
       JoinInbox, TellBackend, RemoveMember, RemoveInbox, RemoveAtBackend, Look,
       SendUpdate, SendSet, TapNo, TapAdd, ChangeProfile, TapYes, TapRemove,
       OpenChat, InboxStep, Report, ReadGroup, ReadFails, Crash, StartSend, vars

\* Removals are of friends: the admin stays a member.
LEMMA AdminStays ==
    ASSUME ActorsOK, Admin \in Ids, group = "there", [Next]_vars
    PROVE  Admin \in Ids'
<1>1. PICK e \in members : e.id = Admin
  BY DEF Ids
<1>2. CASE \E r \in Removals : RemoveMember(r)
  <2>1. PICK r \in Removals : RemoveMember(r)
    BY <1>2
  <2>2. removal[r].user # Admin
    BY <2>1, FriendsAssumption DEF ActorsOK, RemoveMember
  <2>3. e # [id |-> removal[r].user, profile |-> removal[r].profile]
    BY <1>1, <2>2
  <2>4. e \in members'
    BY <2>1, <2>3 DEF RemoveMember
  <2>5. QED
    BY <1>1, <2>4 DEF Ids
<1>3. CASE \E a \in Accepts : Join(a)
  <2>1. members \subseteq members'
    BY <1>3 DEF Join
  <2>2. QED
    BY <1>1, <2>1 DEF Ids
<1>4. CASE members' = members
  BY <1>1, <1>4 DEF Ids
<1>5. QED
  BY <1>2, <1>3, <1>4
     DEF Next, Respond, Create, Search, GroupLands, CreateInbox, JoinInbox,
         TellBackend, RemoveInbox, RemoveAtBackend, Look, SendUpdate, SendSet,
         TapNo, TapAdd, ChangeProfile, TapYes, TapRemove, OpenChat, InboxStep,
         Report, ReadGroup, ReadFails, Crash, StartSend, vars

\* The yes handler gets past its first write only if the group is there.
LEMMA JoinsThere ==
    ASSUME TypeOK, MadeOK, [Next]_vars, NEW a \in Accepts,
           accept'[a].pc = "inbox"
    PROVE  group = "there"
<1>1. accept \in [Accepts -> Accept]
  BY DEF TypeOK
<1>2. CASE accept[a].pc = "inbox"
  BY <1>2 DEF MadeOK
<1>3. CASE accept[a].pc # "inbox"
  <2>1. ASSUME NEW b \in Accepts, NEW u \in Others, TapYes(b, u) PROVE FALSE
    BY <1>1, <1>3, <2>1 DEF TapYes
  <2>2. ASSUME NEW b \in Accepts, JoinInbox(b) \/ TellBackend(b) PROVE FALSE
    BY <1>1, <1>3, <2>2 DEF JoinInbox, TellBackend, Accept
  <2>3. ASSUME NEW u \in Users, Crash(u) PROVE FALSE
    <3>1. accept'[a].pc = accept[a].pc \/ accept'[a].pc \in {"join", "aborted"}
      BY <1>1, <2>3 DEF Crash, Accepting, Accept
    <3>2. QED
      BY <1>3, <3>1
  <2>4. ASSUME NEW b \in Accepts, Join(b) PROVE group = "there"
    BY <1>1, <1>3, <2>4 DEF Join, Accept
  <2>5. CASE accept' = accept
    BY <1>3, <2>5
  <2>6. QED
    BY <2>1, <2>2, <2>3, <2>4, <2>5
       DEF Next, Respond, Create, Search, GroupLands, CreateInbox, RemoveMember,
           RemoveInbox, RemoveAtBackend, Look, SendUpdate, SendSet, TapNo,
           TapAdd, ChangeProfile, TapRemove, OpenChat, InboxStep, Report,
           ReadGroup, ReadFails, StartSend, vars
<1>4. QED
  BY <1>2, <1>3

LEMMA StepMade ==
    ASSUME TypeOK, ActorsOK, FreshOK, MadeOK, [Next]_vars
    PROVE  MadeOK'
<1>0. group \in {"no", "queued", "there"} /\ create \in {"idle", "inbox", "done", "aborted"}
  BY DEF TypeOK
<1>1. ASSUME group' = "there" PROVE Admin \in Ids'
  <2>1. CASE GroupLands
    BY <2>1 DEF GroupLands, Ids
  <2>2. CASE group = "there"
    BY <2>2, AdminStays DEF MadeOK
  <2>3. QED
    BY <1>1, <2>1, <2>2, GroupMoves
<1>2. ASSUME create' = "inbox" PROVE group' # "no"
  <2>1. create = "inbox" \/ Create
    BY <1>2 DEF Next, Respond, Search, GroupLands, CreateInbox, Join, JoinInbox,
       TellBackend, RemoveMember, RemoveInbox, RemoveAtBackend, Look,
       SendUpdate, SendSet, TapNo, TapAdd, ChangeProfile, TapYes, TapRemove,
       OpenChat, InboxStep, Report, ReadGroup, ReadFails, Crash, StartSend, vars
  <2>2. QED
    BY <2>1, GroupMoves DEF MadeOK, Create
<1>3. ASSUME NEW a \in Accepts, accept'[a].pc = "inbox" PROVE group' = "there"
  BY <1>3, JoinsThere, GroupMoves
<1>4. ASSUME NEW u \in Users, inbox'[u] = "full"
      PROVE  group' = "there" \/ (group' = "queued" /\ u = Admin)
  <2>1. group = "there" \/ (group = "queued" /\ u = Admin)
    <3>1. CASE inbox[u] = "full"
      BY <3>1 DEF MadeOK
    <3>2. CASE inbox[u] # "full"
      BY <1>0, <1>4, <3>2, StepBrings DEF BroughtByYes, MadeOK
    <3>3. QED
      BY <3>1, <3>2
  <2>2. QED
    BY <2>1, GroupMoves
<1>5. QED
  BY <1>1, <1>2, <1>3, <1>4 DEF MadeOK

\* What a step does with the inboxes and what the phones show of them.
LEMMA PhoneSteps ==
    ASSUME [Next]_vars
    PROVE  \/ UNCHANGED <<inbox, row, fresh, reading, lost>>
           \/ UNCHANGED <<row, reading, lost>> /\ \E v, val : Write(v, val)
           \/ \E v \in Viewers : Report(v) \/ ReadEnds(v)
           \/ \E v \in Users : Crash(v)
<1>1. CASE Respond
  <2>1. CASE GroupLands \/ CreateInbox
    BY <2>1 DEF GroupLands, CreateInbox, phones
  <2>2. ASSUME NEW a \in Accepts, Join(a) \/ JoinInbox(a) \/ TellBackend(a)
        PROVE  \/ UNCHANGED <<inbox, row, fresh, reading, lost>>
               \/ UNCHANGED <<row, reading, lost>> /\ \E v, val : Write(v, val)
    BY <2>2 DEF Join, JoinInbox, TellBackend, phones
  <2>3. ASSUME NEW r \in Removals,
               RemoveMember(r) \/ RemoveInbox(r) \/ RemoveAtBackend(r)
        PROVE  \/ UNCHANGED <<inbox, row, fresh, reading, lost>>
               \/ UNCHANGED <<row, reading, lost>> /\ \E v, val : Write(v, val)
    BY <2>3 DEF RemoveMember, RemoveInbox, RemoveAtBackend, phones
  <2>4. ASSUME NEW t \in Sends, NEW v \in Users,
               Look(t, v) \/ SendUpdate(t, v) \/ SendSet(t, v)
        PROVE  \/ UNCHANGED <<inbox, row, fresh, reading, lost>>
               \/ UNCHANGED <<row, reading, lost>> /\ \E w, val : Write(w, val)
    BY <2>4 DEF Look, SendUpdate, SendSet, phones
  <2>5. QED
    BY <1>1, <2>1, <2>2, <2>3, <2>4 DEF Respond
<1>2. CASE Create \/ Search
  BY <1>2 DEF Create, Search, phones
<1>3. ASSUME NEW u \in Others, TapNo(u) \/ TapAdd(u) \/ ChangeProfile(u)
      PROVE  UNCHANGED <<inbox, row, fresh, reading, lost>>
  BY <1>3 DEF TapNo, TapAdd, ChangeProfile, phones
<1>4. ASSUME NEW a \in Accepts, NEW u \in Others, TapYes(a, u)
      PROVE  UNCHANGED <<inbox, row, fresh, reading, lost>>
  BY <1>4 DEF TapYes, phones
<1>5. ASSUME NEW r \in Removals, NEW i \in 1..Len(Friends), NEW u \in At(i),
             TapRemove(r, i, u)
      PROVE  UNCHANGED <<inbox, row, fresh, reading, lost>>
  BY <1>5 DEF TapRemove, phones
<1>6. ASSUME NEW u \in Viewers, OpenChat(u)
      PROVE  UNCHANGED <<inbox, row, fresh, reading, lost>>
  BY <1>6 DEF OpenChat
<1>7. ASSUME NEW t \in Sends, NEW u \in Viewers, StartSend(t, u)
      PROVE  UNCHANGED <<inbox, row, fresh, reading, lost>>
  BY <1>7 DEF StartSend, phones
<1>8. CASE UNCHANGED vars
  BY <1>8 DEF vars
<1>9. QED
  BY <1>1, <1>2, <1>3, <1>4, <1>5, <1>6, <1>7, <1>8 DEF Next, InboxStep, ReadEnds

\* Whatever is written to an inbox is news to its listener.
LEMMA WriteIsNews ==
    ASSUME TypeOK, [Next]_vars, NEW u \in Viewers, inbox'[u] # inbox[u]
    PROVE  u \in fresh'
<1>0. inbox \in [Users -> {"none", "bare", "full"}] /\ u \in Users
  BY UsersFacts DEF TypeOK
<1>1. ASSUME NEW v, NEW val, Write(v, val) PROVE u \in fresh'
  BY <1>0, <1>1 DEF Write
<1>2. ASSUME NEW v \in Users, Report(v) \/ ReadEnds(v) \/ Crash(v)
      PROVE  UNCHANGED inbox
  BY <1>2 DEF Report, ReadEnds, ReadGroup, ReadFails, Crash
<1>3. QED
  BY <1>1, <1>2, PhoneSteps, UsersFacts

\* What becomes of a phone that is to show a group which stays in its inbox.
LEMMA PhoneMoves ==
    ASSUME TypeOK, MadeOK, [Next]_vars, NEW u \in Viewers,
           inbox[u] = "full", inbox'[u] = "full"
    PROVE  /\ u \in fresh => u \in fresh' \/ u \in reading' \/ Answered(u)'
           /\ u \in reading /\ ~Crash(u) => u \in reading' \/ Answered(u)'
           /\ Answered(u) => u \in fresh' \/ u \in reading' \/ Answered(u)'
           /\ u \in reading => u \in fresh' \/ u \in reading' \/ Answered(u)'
           /\ Report(u) => u \in reading'
           /\ ReadEnds(u) => Answered(u)'
<1>0. row \in [Users -> SUBSET Users] /\ u \in Users
  BY UsersFacts DEF TypeOK
<1>1. MembersSeen(u) # {}
  BY <1>0 DEF MadeOK, MembersSeen
<1>2. CASE Report(u)
  <2>1. u \in reading'
    BY <1>2 DEF Report
  <2>2. ~ReadEnds(u) \/ Answered(u)'
    BY <1>0, <1>1 DEF ReadEnds, ReadGroup, ReadFails, Answered
  <2>3. QED
    BY <2>1, <2>2
<1>3. CASE ReadEnds(u)
  <2>1. Answered(u)'
    BY <1>0, <1>1, <1>3 DEF ReadEnds, ReadGroup, ReadFails, Answered
  <2>2. ~Report(u) \/ u \in reading'
    BY DEF Report
  <2>3. QED
    BY <2>1, <2>2
<1>4. CASE Crash(u)
  <2>1. u \in fresh'
    BY <1>4 DEF Crash
  <2>2. ~Report(u) /\ ~ReadEnds(u)
    <3>1. faults' = faults + 1
      BY <1>4, Zenon DEF Crash
    <3>2. faults \in 0..MaxFaults
      BY Zenon DEF TypeOK
    <3>3. faults' # faults
      BY <3>1, <3>2, BoundsAssumption
    <3>4. QED
      BY <3>3 DEF Report, ReadEnds, ReadGroup, ReadFails
  <2>3. QED
    BY <1>4, <2>1, <2>2
<1>5. CASE ~Report(u) /\ ~ReadEnds(u) /\ ~Crash(u)
  <2>1. ASSUME NEW v \in Viewers, v # u, Report(v) \/ ReadEnds(v)
        PROVE  /\ u \in fresh => u \in fresh'
               /\ u \in reading => u \in reading'
               /\ row'[u] = row[u] /\ (u \in lost => u \in lost')
    BY <1>0, <2>1 DEF Report, ReadEnds, ReadGroup, ReadFails
  <2>2. ASSUME NEW v \in Users, v # u, Crash(v)
        PROVE  /\ u \in fresh => u \in fresh'
               /\ u \in reading => u \in reading'
               /\ row'[u] = row[u] /\ (u \in lost => u \in lost')
    BY <1>0, <2>2 DEF Crash
  <2>3. (\E v, val : Write(v, val)) => fresh \subseteq fresh'
    BY DEF Write
  <2>4. /\ u \in fresh => u \in fresh'
        /\ u \in reading => u \in reading'
        /\ row'[u] = row[u] /\ (u \in lost => u \in lost')
    BY <1>5, <2>1, <2>2, <2>3, PhoneSteps
  <2>5. QED
    BY <1>5, <2>4 DEF Answered
<1>6. QED
  BY <1>2, <1>3, <1>4, <1>5

LEMMA StepShown ==
    ASSUME TypeOK, MadeOK, ShownOK, [Next]_vars
    PROVE  ShownOK'
<1>1. SUFFICES ASSUME NEW u \in Viewers, inbox'[u] = "full"
               PROVE  u \in fresh' \/ u \in reading' \/ Answered(u)'
  BY DEF ShownOK
<1>2. CASE inbox[u] # "full"
  BY <1>1, <1>2, WriteIsNews
<1>3. CASE inbox[u] = "full"
  BY <1>1, <1>3, PhoneMoves DEF ShownOK
<1>4. QED
  BY <1>2, <1>3

AppearInv == TypeOK /\ ActorsOK /\ JoinInv /\ MadeOK /\ ShownOK

LEMMA AppearAlways == Spec => []AppearInv
<1>1. Init => AppearInv
  BY InitTypes, InitJoin, InitMade DEF AppearInv
<1>2. AppearInv /\ [Next]_vars => AppearInv'
  BY StepTypes, StepJoin, StepMade, StepShown DEF AppearInv, JoinInv
<1>3. QED
  BY <1>1, <1>2, PTL DEF Spec

\* One phone.  A crash takes a read away, and the listener reports afresh; so the
\* row comes once the phone is no longer killed.
LEMMA RowComes ==
    ASSUME NEW u \in Viewers
    PROVE  /\ []AppearInv /\ [][Next]_vars
           /\ []<>(u \notin fresh) \/ []<><<Report(u)>>_vars
           /\ []<>(u \notin reading) \/ []<><<ReadEnds(u)>>_vars
           /\ <>[][~Crash(u)]_vars
           => ([](inbox[u] = "full") ~> Answered(u))
<1> DEFINE Full == inbox[u] = "full"
           Shown == Answered(u)
           Reads == u \in reading
<1>1. AppearInv /\ Full => u \in fresh \/ Reads \/ Shown
  BY DEF AppearInv, ShownOK
<1>2. AppearInv /\ Full /\ Full' /\ [Next]_vars /\ <<Report(u)>>_vars => Reads'
  BY PhoneMoves DEF AppearInv
<1>3. AppearInv /\ Full /\ Full' /\ Reads /\ [Next]_vars /\ [~Crash(u)]_vars
        => Reads' \/ Shown'
  <2>1. CASE UNCHANGED vars
    BY <2>1 DEF vars
  <2>2. CASE ~Crash(u)
    BY <2>2, PhoneMoves DEF AppearInv
  <2>3. QED
    BY <2>1, <2>2
<1>4. AppearInv /\ Full /\ Full' /\ [Next]_vars /\ <<ReadEnds(u)>>_vars => Shown'
  BY PhoneMoves DEF AppearInv
<1>5. (u \notin fresh <=> ~(u \in fresh)) /\ (u \notin reading <=> ~Reads)
  OBVIOUS
<1>6. QED
  BY <1>1, <1>2, <1>3, <1>4, <1>5, PTL

\* No phone is killed again and again.  MaxFaults makes this true of every
\* behaviour; that the count is used up is the only thing the proof takes from it.
CrashesEnd == \A u \in Users : <>[][~Crash(u)]_vars

\* A group that stays in the inbox is shown again and again, whatever messages,
\* answers, removals and restarts come between, unless the last read of
\* groups/<g> has failed.
THEOREM AppearsTheorem == FairSpec /\ CrashesEnd => GroupAppears
<1>1. Spec => []AppearInv /\ [][Next]_vars
  BY AppearAlways, PTL DEF Spec
<1>2. FairSpec /\ CrashesEnd
        => \A u \in Viewers : [](inbox[u] = "full") ~> Answered(u)
  BY <1>1, RowComes, UsersFacts
     DEF FairSpec, CrashesEnd, ListenersReport, ReadsEnd
<1>3. QED
  BY <1>2 DEF GroupAppears, Answered
=============================================================================
