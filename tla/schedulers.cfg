SPECIFICATION Spec
CONSTANTS
  Kind <- MCKind
  Script <- MCScript
  Delay <- MCDelay
  AtTime <- MCAtTime
  Width <- MCWidth
  KeySpace = 100
  MaxCalls = 4
  MaxClock = 12
INVARIANTS CalendarCounts LostOnlyByDumpq
PROPERTY EventQueueSpec
CHECK_DEADLOCK FALSE
