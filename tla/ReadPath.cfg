SPECIFICATION FairSpec
CONSTANTS
  None = None
  Conns = {c1, c2}
  Capacity = 2
  Kinds = {"event", "other", "skipped", "empty", "short"}
  MaxFrames = 3
INVARIANT TypeOK
PROPERTIES ImplementsFramePipe ClosedProcessorsReturn AcceptedEventsArePublished
CHECK_DEADLOCK FALSE
