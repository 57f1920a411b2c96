SPECIFICATION Spec
CONSTANTS
  A = A
  B = B
  C = C
  Admin = A
  Friends <- MCFriends
  Accepts = {a1}
  Removals = {r1}
  Sends = {s1}
  Viewers = {B}
  MaxProfile = 1
  MaxFaults = 0
  MaxAtOnce = 2
PROPERTY OnlyYesBringsTheGroup
CHECK_DEADLOCK FALSE
