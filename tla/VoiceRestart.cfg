CONSTANTS
  MaxStarts = 2
  Modulus = 4
  Faults = TRUE
  Chatter = {}
SPECIFICATION Spec
INVARIANTS HandshakeOrder KeyMatchesSsrc
PROPERTY HeartbeatSpec
CONSTRAINT BeatBound
CHECK_DEADLOCK FALSE
