SPECIFICATION Spec
CONSTANTS
  BitAnd <- MCBitAnd
  Seg = {2, 3, 5, 20, 23}
  Mask = {31}
  Hop = {2, 3, 5, 11, 21, 23}
  Peer = {10, 20}
  Intf = {11, 21, 23}
  MPtr = {a1}
  NULL = NULL
  Uninit = Uninit
  IP_BROADCAST = 99
  IP_HDR_LEN = 20
  MPSELECT_HDR_LEN = 40
  PING_PKT_SIZE = 1000
  Core <- MCCores
  Node <- MCDataNodes
  RaAddr <- MCDataAddr
  InitTable <- MCDataTables
  Flow <- MCFlows
  Tap <- MCTapLoop
  AutoStart = {10, 20}
  Operated = {}
  Editable <- MCNoPairs
  MacNode = {20}
  Default = {11, 20}
  Lossy = FALSE
  SEND_PING_INTERVAL = 3
  ALIVE_INTERVAL = 1
  MaxCmds = 0
  MaxSent = 2
  MaxTime = 2
  MaxPaths = 1
  IP_DEF_TTL = 5
  SeqSpace = 100
INVARIANTS TypeOK ArrivesByItsPath Transparent AbortNeedsLocalData
PROPERTIES LoopDropNeedsMac Drains
CHECK_DEADLOCK FALSE
