CONSTANTS
  Byte = 2
  Capacity = 2
  Samples = 5
  Ssrc = 11
  MaxFrames = 6
SPECIFICATION FairSpec
INVARIANTS FramesKept HeadersInOrder SpeaksFirst
PROPERTY PlaysOrEnds
CHECK_DEADLOCK FALSE
