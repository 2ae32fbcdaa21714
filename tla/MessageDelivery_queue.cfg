SPECIFICATION FairSpec
CONSTANTS
  m1 = m1
  m2 = m2
  Msgs = {m1, m2}
  NoMsg = NoMsg
  MaxPosts = 2
  MaxRev = 1
  Steering = {TRUE, FALSE}
  Ops = {"stop", "send", "cancel", "suspend", "release", "lost", "restart"}
INVARIANTS
  HonestJournal
  HeadIsDriven
  DeliveredOnceInOrder
PROPERTIES
  NothingAfterStop
  StopGetsThrough
CHECK_DEADLOCK FALSE
