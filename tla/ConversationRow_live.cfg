SPECIFICATION FairSpec
CONSTANTS
  NoQuestion = NoQuestion
  Questions = {q1}
  q1 = q1
  MessageMode = {q1}
  PerSession = TRUE
  Kinds = {"wake", "answer", "sleep", "release"}
  MaxCommands = 3
  MaxTurns = 1
  MaxPids = 2
  MaxBoots = 1
  MaxLosses = 1
  Waiting = 1
  BusyLimit = 1
  Memory = 2
INVARIANTS
  NoProcessLeft
PROPERTIES
  WorkingSettles
CHECK_DEADLOCK FALSE
