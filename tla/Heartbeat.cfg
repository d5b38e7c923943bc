CONSTANTS
  Modulus = 5
  Loops = {l1, l2}
SPECIFICATION FairSpec
INVARIANTS TypeOK HeartbeatWindow NoFalseAlarm
PROPERTIES AnswersAdvance KeepsBeating
CONSTRAINT FlightBound
CHECK_DEADLOCK FALSE
