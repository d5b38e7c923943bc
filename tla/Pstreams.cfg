CONSTANTS
  Streams = {s1, s2}
  Modes <- SomeModes
  MaxOpens = 2
SPECIFICATION FairSpec
INVARIANTS TypeOK DescriptorsKept ChildrenOwned
PROPERTIES ClosedIsFresh OpenTellsExec HangsForAProcess
CHECK_DEADLOCK FALSE
