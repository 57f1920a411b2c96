SPECIFICATION FairSpec
CONSTANTS
  alice = alice
  bob = bob
  Alice = alice
  Bob = bob
  Unseen = Unseen
  Routes = {r1}
  Calls = {c1, c2}
  Taps = {t1}
  MaxTime = 2
  MaxFaults = 1
  MaxInFlight = 1
  NudgeLimit = 1
  NudgedLimit = 1
  NoonShift = 1
INVARIANTS TypeOK NudgeMarksAgree
PROPERTIES ConversationReachesPeer NoMessageIsStuck
CHECK_DEADLOCK FALSE
