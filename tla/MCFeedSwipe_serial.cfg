SPECIFICATION Spec
CONSTANTS
  p1 = p1
  p2 = p2
  p3 = p3
  near = near
  far = far
  People <- MCPeople
  Filters <- MCFilters
  NoFilter = near
  Found <- MCFound
  FreeSwipes = 1
  Asks = {a1, a2, a3}
  FirstAsk = a1
  MaxSwipes = 5
  MaxAtOnce = 1
  MaxAsks = 1
  MaxFaults = 1
  MaxPremium = 2
  NoDrag = NoDrag
INVARIANTS TypeOK SwipedIsSeen DailyLimitKept
CHECK_DEADLOCK FALSE
