SPECIFICATION Spec
CONSTANTS
  MaxHosts = 3
  MaxBackends = 2
  MaxFaults = 1
INVARIANTS
  OneWriter
  FoundAgain
PROPERTIES
  KeptUnlessSilent
CHECK_DEADLOCK FALSE
