SPECIFICATION FairSpec
CONSTANTS
  p1 = p1
  p2 = p2
  p3 = p3
  near = near
  far = far
  People <- MCPeople
  Filters <- MCFilters
  NoFilter = near
  Found <- MCFound
  FreeSwipes = 2
  Asks = {a1, a2}
  FirstAsk = a1
  MaxSwipes = 4
  MaxAtOnce = 2
  MaxAsks = 2
  MaxFaults = 2
  MaxPremium = 2
  NoDrag = NoDrag
PROPERTIES KeepsTheLog LoadingEnds
CHECK_DEADLOCK FALSE
