SPECIFICATION Spec
CONSTANTS
  BitAnd <- MCBitAnd
  MPtr = {"a", "b"}
  NULL = NULL
  Uninit = Uninit
  IP_BROADCAST = 99
  SEND_PING_INTERVAL = 1
  ALIVE_INTERVAL = 2
  SeqSpace = 3
  Agent = {x, y}
  Nobody = Nobody
  Seg = {}
  Mask = {}
  Hop = {}
  Peer = {1, 2}
  Intf = {11, 12, 21, 22}
  Tables <- MCTables
  MaxRounds = 2
INVARIANT CursorAtRest
PROPERTY RoundIsAtomic
CHECK_DEADLOCK FALSE
