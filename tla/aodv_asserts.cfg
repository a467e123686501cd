SPECIFICATION Spec
CONSTANTS
  Node <- MCNode
  Nbr <- MCNbr
  Weak <- MCWeak
  Flow <- MCFlow
  INFINITY2 = 9
  NETWORK_DIAMETER = 5
  RREQ_RETRIES = 0
  TTL_START = 1
  TTL_THRESHOLD = 3
  TTL_INCREMENT = 1
  AODV_RTQ_MAX_LEN = 1
  MaxFaults = 2
INVARIANT AssertsHold
CHECK_DEADLOCK FALSE
