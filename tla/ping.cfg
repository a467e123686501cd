SPECIFICATION Spec
CONSTANTS
  BitAnd <- MCBitAnd
  Seg = {}
  Mask = {}
  Hop = {}
  Peer = {10, 20}
  Intf = {11, 12, 13, 21, 22, 23}
  MPtr = {a1, a2}
  NULL = NULL
  Uninit = Uninit
  IP_BROADCAST = 99
  IP_HDR_LEN = 20
  MPSELECT_HDR_LEN = 40
  PING_PKT_SIZE = 1000
  Core <- MCCores
  Node <- MCThreePaths
  RaAddr <- MCMixedAddr
  InitTable <- MCOpenTables
  Flow <- MCNoFlows
  Tap <- MCNoPairs
  AutoStart = {10}
  Operated = {10}
  Editable <- MCEdit
  MacNode = {12, 22}
  Default = {12, 22}
  Lossy = TRUE
  SEND_PING_INTERVAL = 1
  ALIVE_INTERVAL = 2
  MaxCmds = 1
  MaxSent = 0
  MaxTime = 1
  MaxPaths = 2
  IP_DEF_TTL = 6
  SeqSpace = 100
INVARIANTS SendTimeRecoverable InterfaceForwards ArrivesByItsPath HeaderPerOwnAgent StartedMeansPending
PROPERTY Drains
CHECK_DEADLOCK FALSE
