SPECIFICATION Spec
CONSTANTS
  BitAnd <- MCBitAnd
  Seg = {}
  Mask = {}
  Hop = {}
  Peer = {10, 20}
  Intf = {11, 21}
  MPtr = {a1, a2}
  NULL = NULL
  Uninit = Uninit
  IP_BROADCAST = 99
  IP_HDR_LEN = 20
  MPSELECT_HDR_LEN = 40
  PING_PKT_SIZE = 1000
  Core <- MCCores
  Node <- MCOnePath
  RaAddr <- MCCoreAddr
  InitTable <- MCPingTables
  Flow <- MCNoFlows
  Tap <- MCNoPairs
  AutoStart = {10}
  Operated = {10}
  Editable <- MCEditOne
  MacNode = {}
  Default = {}
  Lossy = FALSE
  SEND_PING_INTERVAL = 2
  ALIVE_INTERVAL = 4
  MaxCmds = 2
  MaxSent = 0
  MaxTime = 2
  MaxPaths = 1
  IP_DEF_TTL = 8
  SeqSpace = 100
PROPERTY DelayFromItsPing
CHECK_DEADLOCK FALSE
