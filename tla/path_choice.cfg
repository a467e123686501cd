SPECIFICATION Spec
CONSTANTS
  BitAnd <- MCBitAnd
  MPtr = {a1, a2}
  NULL = NULL
  Uninit = Uninit
  None = None
  IP_BROADCAST = 99
  SEND_PING_INTERVAL = 1
  ALIVE_INTERVAL = 2
  SeqSpace = 1
  Seg = {5}
  Mask = {7}
  Hop = {1}
  Peer = {2}
  Intf = {8, 9}
  Dest = {5}
  MaxRoutes = 1
  MaxPaths = 2
  MaxUses = 1
  MaxTime = 3
  MaxLag = 0
PROPERTY PicksLivePaths
CHECK_DEADLOCK FALSE
