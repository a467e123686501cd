SPECIFICATION Spec
CONSTANTS
  Configs <- MCConfigs
  TxTime <- MCTxTime
  Delays <- MCDelays
  Limits <- MCLimits
  MaxPings = 3
  MaxRouting = 1
  MaxCmds = 2
  MaxTime = 1
INVARIANTS BlockedMeansCallback AssertNeedsShorterDelay ReportsOwnPings
PROPERTIES NoOvertaking LinksDrain
CHECK_DEADLOCK FALSE
