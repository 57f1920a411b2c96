SPECIFICATION FairSpec
CONSTANTS
  MaxPages = 2
  MaxPresses = 2
  MaxLate = 1
  MaxSessions = 2
INVARIANTS TypeOK UnlockedIsPremium AppStaysOpen PacksAreReported
PROPERTY LoaderGoes
CHECK_DEADLOCK FALSE
