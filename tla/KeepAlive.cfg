SPECIFICATION Spec
CONSTANTS
  Second = 4
  MaxWait = 48
  None = None
INVARIANTS TypeOK SteadyRelayIsKept SilenceIsBounded
