CONSTANTS
  MaxStarts = 1
  Modulus = 4
  Faults = TRUE
  Chatter = {}
SPECIFICATION FairSpec
PROPERTY DestructorEnds
CHECK_DEADLOCK FALSE
