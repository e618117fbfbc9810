SPECIFICATION FairSpec
CONSTANTS
  None = None
  NoWord = ""
  Words <- RequestWords
  QueueOf <- RequestQueue
  Parts <- RequestParts
  Whole <- RequestWhole
  Requests <- Mixed
  MaxOutages = 1
  MaxCrashes = 1
PROPERTIES TakenRequestsAreCompleted QueuesAreServed
CHECK_DEADLOCK FALSE
