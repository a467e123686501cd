SPECIFICATION Spec
CONSTANTS
  BitAnd <- MCBitAnd
  MPtr = {a1, a2, a3}
  NULL = NULL
  Uninit = Uninit
  None = None
  IP_BROADCAST = 99
  SEND_PING_INTERVAL = 1
  ALIVE_INTERVAL = 2
  SeqSpace = 1
  Seg = {4, 5}
  Mask = {7, 4}
  Hop = {1}
  Peer = {2, 3}
  Intf = {8}
  Dest = {4, 5}
  MaxRoutes = 2
  MaxPaths = 1
  MaxUses = 1
  MaxTime = 0
  MaxLag = 0
SYMMETRY MCSymmetry
INVARIANTS TypeOK NoDangling UniqueSelects FindMPAgrees
PROPERTIES RouteMapSpec CrashesOnOlderPeer
CHECK_DEADLOCK FALSE
