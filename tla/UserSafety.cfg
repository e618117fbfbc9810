SPECIFICATION Spec
CONSTANTS
  None = None
  NoWord = ""
  Words <- RequestWords
  QueueOf <- RequestQueue
  Parts <- RequestParts
  Whole <- RequestWhole
  Requests <- Shared
  MaxOutages = 1
  MaxCrashes = 1
INVARIANTS TypeOK SessionsAreServedOnce
PROPERTY ImplementsAtMostOnce
CHECK_DEADLOCK FALSE
