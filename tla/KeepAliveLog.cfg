SPECIFICATION Spec
CONSTANTS
  Second = 5
  MaxWait = 0
  None = None
INVARIANT SilentOnesWereAsked
