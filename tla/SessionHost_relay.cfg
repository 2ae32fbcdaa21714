SPECIFICATION Spec
CONSTANTS
  Clients = {c1, c2}
  Terminators = {}
  NoConn = NoConn
  MaxBytes = 2
  LineBytes = {1, 3}
  Sinces <- FromStart
  MaxSeq = 2
  MaxBacklog = 3
  Kinds = {"write"}
  MaxRequests = 1
  HostEvents = {}
SYMMETRY ClientSymmetry
INVARIANTS
  NoSilentHole
  ClientCaughtUp
  LaterClientWins
PROPERTIES
  ImplementsRelay
CHECK_DEADLOCK FALSE
