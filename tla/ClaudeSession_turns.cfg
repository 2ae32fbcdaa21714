SPECIFICATION Spec
CONSTANTS
  Msgs = {m1, m2}
  Own = {o1}
  Reqs = {q1}
  NoMsg = NoMsg
  Steering = TRUE
  MaxSends = 2
  MaxStops = 1
  MaxUnread = 3
  MaxFaults = 1
INVARIANTS
  NoTurnStuck
  ResultIsOwn
  RequestsAgree
  DroppedIsTold
CHECK_DEADLOCK FALSE
