SPECIFICATION Spec
CONSTANTS
  None = None
  r1 = r1
  r2 = r2
  x1 = x1
  x2 = x2
  Relays = {r1}
  Conns = {c1, c2, c3}
  Clients = {x1, x2}
  Reaches <- ToOneRelay
  Target <- OneRelay
  Kind <- Notes
  MaxRetries = 2
SYMMETRY NoteSymmetry
CONSTRAINT DialsRemain
INVARIANTS TypeOK NeverPanics CurrentIsServed LostRelayIsRetried LinksAreLive
PROPERTY ImplementsLinkTable
CHECK_DEADLOCK FALSE
