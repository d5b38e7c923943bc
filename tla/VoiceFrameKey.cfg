CONSTANTS
  MaxStarts = 2
  Modulus = 4
  Faults = FALSE
  Chatter = {}
SPECIFICATION Spec
INVARIANT FrameKeyIsCurrent
CHECK_DEADLOCK FALSE
