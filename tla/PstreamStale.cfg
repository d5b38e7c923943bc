CONSTANTS
  Classes <- Input
  Requests <- SomeRequests
  BufSz = 2
  PbSz = 1
  PipeSize = 2
  MaxOpens <- Starts
  MaxPut <- Puts
  MaxSaid <- Said
SPECIFICATION Spec
INVARIANT ComesFromSource
CHECK_DEADLOCK FALSE
