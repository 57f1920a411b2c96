SPECIFICATION Spec
CONSTANTS
  Accounts = {a, b}
  Peers = {p, q}
  Nobody = Nobody
  MaxSent = 2
  MaxSwitches = 2
SYMMETRY MCSymmetry
INVARIANTS TypeOK EveryConversationListed ListExact 
CHECK_DEADLOCK FALSE
