SPECIFICATION Spec
CONSTANTS
  Node <- MCNode
  Nbr <- MCNbr
  Weak <- MCLast
  Flow <- MCPair
  INFINITY2 = 9
  NETWORK_DIAMETER = 3
  RREQ_RETRIES = 0
  TTL_START = 3
  TTL_THRESHOLD = 1
  TTL_INCREMENT = 1
  AODV_RTQ_MAX_LEN = 1
  MaxFaults = 2
INVARIANTS LoopFree AssertNeedsRepair SeqnoFromOwner FreedNeedsTwoRepairs
PROPERTY Drains
CHECK_DEADLOCK FALSE
