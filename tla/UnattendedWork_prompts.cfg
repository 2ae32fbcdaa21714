SPECIFICATION Spec
CONSTANTS
  Urgent = {m1}
  Dispatches = {d1}
  Signals = {s1, s2}
  MaxSignals = 1
  MaxSeen = 1
  Limit = 2
  MaxRevision = 2
  MaxMail = 1
  MaxTurns = 1
  MaxFaults = 1
SYMMETRY SignalSymmetry
INVARIANTS
  PromptsBounded
  SignalNotLost
PROPERTIES
  DoubtIsNotRepeated
  QuietAfterStop
CHECK_DEADLOCK FALSE
