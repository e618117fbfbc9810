SPECIFICATION FairPathSpec
CONSTANTS
  None = None
  w1 = w1
  w2 = w2
  r1 = r1
  r2 = r2
  Writers = {w1, w2}
  Clients = {r1, r2}
  Layouts <- OneOrTwo
  Processors = {p1, p2}
  InitialLimit = 1
INVARIANTS PathTypeOK WireBurstIsBounded EachOnceInOrder
  BurstIsBounded NoticeSlowsDown
PROPERTIES SubscriptionsAreClosed EveryMessagePasses
CHECK_DEADLOCK FALSE
