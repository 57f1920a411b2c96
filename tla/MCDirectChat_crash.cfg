SPECIFICATION Spec
CONSTANTS
  alice = alice
  bob = bob
  Alice = alice
  Bob = bob
  Unseen = Unseen
  Routes = {r1, r2}
  Calls = {c1, c2}
  Taps = {}
  MaxTime = 2
  MaxFaults = 1
  MaxInFlight = 1
  NudgeLimit = 0
  NudgedLimit = 1
  NoonShift = 1
SYMMETRY MCSymmetry
INVARIANTS MatchKeptUntilDelivered SerialSendsAgree
PROPERTY KeepsThePromise
CHECK_DEADLOCK FALSE
