SPECIFICATION FairSpec
CONSTANTS
  Launches = {l1}
  Restarts = {r1}
  Closes = {c1}
  NoReq = NoReq
  MaxEpoch = 3
  MaxFaults = 1
INVARIANTS
  TaskOnce
PROPERTIES
  OutcomeIsFinal
  StartingEnds
CHECK_DEADLOCK FALSE
