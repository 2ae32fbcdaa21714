SPECIFICATION Spec
CONSTANTS
  NoQuestion = NoQuestion
  Questions = {q1}
  MessageMode = {}
  PerSession = FALSE
  Kinds = {"poll", "send", "wake", "stop", "answer"}
  MaxCommands = 2
  MaxTurns = 2
  MaxPids = 1
  MaxBoots = 1
  MaxLosses = 1
  Waiting = 1
  BusyLimit = 1
  Memory = 2
  q1 = q1
INVARIANTS
  QuestionsShownAreHeld
  ActiveTurnIsReal
  NotStuckWorking
  ToldOnce
CHECK_DEADLOCK FALSE
