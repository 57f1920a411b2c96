SPECIFICATION FairSpec
CONSTANTS
  A = A
  B = B
  C = C
  Admin = A
  Friends <- MCFriends
  Accepts = {a1, a2}
  Removals = {r1}
  Sends = {s1}
  Viewers = {B}
  MaxProfile = 0
  MaxFaults = 1
  MaxAtOnce = 1
INVARIANTS TypeOK JoinCanBeFinished SerialMembership
PROPERTY GroupAppears
CHECK_DEADLOCK FALSE
