CONSTANTS
  MaxStarts = 1
  Modulus = 4
  Faults = TRUE
  Chatter = {"Identify", "SelectProtocol", "Heartbeat", "Speaking",
             "ResumeConnection", "Resumed", "Unhandled", "Malformed"}
SPECIFICATION FairSpec
INVARIANTS TypeOK HandshakeAdvances
PROPERTIES SessionEstablished StopCompletes LoopsDrain
CHECK_DEADLOCK FALSE
