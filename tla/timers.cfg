SPECIFICATION Spec
CONSTANTS
  Timer = {t1, t2}
  None = None
  Delay <- MCDelay
  MaxUid = 4
  MaxClock = 2
INVARIANTS TypeOK PendingIsQueued DefensiveAbortsUnreachable
PROPERTIES EventQueueSpec TimersComeToRest
CHECK_DEADLOCK FALSE
