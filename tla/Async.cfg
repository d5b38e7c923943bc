CONSTANTS
  o1 = o1
  o2 = o2
  o3 = o3
  Ops <- ThreeCalls
  Groups <- TwoWaitsOrASocket
  Addresses = {1, 2, 3, 4}
  MaxDatagrams = 2
SPECIFICATION FairSpec
INVARIANTS TypeOK 
PROPERTIES TaskSpec Deregistered
CHECK_DEADLOCK FALSE
