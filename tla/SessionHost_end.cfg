SPECIFICATION FairSpec
CONSTANTS
  Clients = {c1}
  Terminators = {t1}
  NoConn = NoConn
  MaxBytes = 2
  LineBytes = {1}
  Sinces = {0}
  MaxSeq = 0
  MaxBacklog = 1
  Kinds = {"terminate", "drop", "close", "status"}
  MaxRequests = 1
  HostEvents = {"overflow", "signal", "abort", "crash"}
INVARIANTS
  NoOrphanAtStop
PROPERTIES
  HostLeaves
CHECK_DEADLOCK FALSE
