SPECIFICATION Spec
CONSTANTS
  Asks = {q1, a1}
  Questions = {q1}
  NoAsk = NoAsk
  Trimming = TRUE
  MaxTurns = 2
  MaxAsks = 1
  MaxOps = 3
  MaxFaults = 1
INVARIANTS
  InStep
  QuestionNotLost
  EndReportedOnce
CHECK_DEADLOCK FALSE
