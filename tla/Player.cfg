CONSTANTS
  MaxCalls = 4
  MaxTangled = 3
  MaxQueue = 1
SPECIFICATION FairSpec
INVARIANTS OneTransmitter EndsInSilence
PROPERTY StopEndsAll
CHECK_DEADLOCK FALSE
