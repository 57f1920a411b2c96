SPECIFICATION FairSpec
CONSTANTS
  Limit = 2
  MaxMsgs = 6
  MaxPages = 3
  MaxQueries = 1
INVARIANTS TypeOK NewestFirst NoHolesOnTop TornOnce NeverDeaf
PROPERTY MissedMessageComesWithNext
CHECK_DEADLOCK FALSE
