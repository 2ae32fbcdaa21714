SPECIFICATION Spec
CONSTANTS
  None = None
  Delays <- TwoDelays
  Window = 2
  AckWait = 1
  Ops = {"stop", "restart", "lost", "item", "gate", "relaunch"}
  LastEvent = 3
  MaxTime = 5
  MaxTurns = 2
  MaxPids = 2
  MaxStops = 1
  MaxRestarts = 1
INVARIANTS
  AnnouncedRetryHasTimer
PROPERTIES
  OnePromptPerFailure
  NothingForStoppedTurn
CHECK_DEADLOCK FALSE
