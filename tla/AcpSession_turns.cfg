SPECIFICATION Spec
CONSTANTS
  MaxPrompts = 3
  MaxTurns = 3
  MaxFaults = 2
  Room = 1
INVARIANTS
  TurnsEnd
  EndIsOwn
  EndIsFinal
CHECK_DEADLOCK FALSE
