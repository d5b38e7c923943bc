CONSTANTS
  Classes <- Every
  Requests <- SomeRequests
  BufSz = 2
  PbSz = 1
  PipeSize = 2
  MaxOpens <- Starts
  MaxPut <- Puts
  MaxSaid <- Said
SPECIFICATION FairSpec
INVARIANTS WrittenInOrder ReadInOrder AreaIsLive PutbackKept ReadyOrMute
PROPERTY OnlyWaitsForWaiting
CHECK_DEADLOCK FALSE
