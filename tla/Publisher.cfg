SPECIFICATION FairSpec
CONSTANTS
  Publishers = {p1, p2}
  MaxMessages = 2
  MaxOutages = 1
  MaxLeaves = 1
INVARIANTS TypeOK PublicationsAreRouted PublishersKeepTheirOrder
PROPERTIES PublishedIsRead PublishersFinish
CHECK_DEADLOCK FALSE
