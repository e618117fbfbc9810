SPECIFICATION FairSpec
CONSTANTS
  None = None
  r1 = r1
  r2 = r2
  x1 = x1
  x2 = x2
  Relays = {r1, r2}
  Conns = {c1, c2}
  Clients = {x1, x2}
  Reaches <- ToOneRelay
  Target <- TwoTargets
  Kind <- OneOfEach
  MaxRetries = 1
PROPERTIES ClosedLoopsReturn SendersAreServed BrokenIsDropped
CHECK_DEADLOCK FALSE
