SPECIFICATION Spec
CONSTANTS
  Clips = {r1, r2, l1}
  Own = {r1, r2}
  None = None
  MaxPresses = 3
  MaxTakes = 2
SYMMETRY MCSymmetry
INVARIANTS TypeOK OneVoice VoiceCanBeStopped MicHasAnOwner
CHECK_DEADLOCK FALSE
