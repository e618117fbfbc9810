SPECIFICATION FairSpec
CONSTANTS
  None = None
  NoWord = ""
  Words <- RequestWords
  QueueOf <- RequestQueue
  Parts <- RequestParts
  Whole <- RequestWhole
  Requests <- Mixed
  MaxOutages = 1
  MaxCrashes = 0
PROPERTY ConsumersWaitForMessages
CHECK_DEADLOCK FALSE
