SPECIFICATION Spec
CONSTANTS
  Empty = Empty
  q1 = q1
  q2 = q2
  q3 = q3
  q4 = q4
  alice = alice
  session = session
  ra = ra
  rb = rb
  rc = rc
  Requests = {q1, q2, q3, q4}
  Workloads <- AllThree
  Relays = {ra, rb, rc}
  Callbacks = {ra, rb}
  HexKeys = {alice}
  MaxEvents = 2
INVARIANTS TypeOK AnswersAreAttributed LookupsFollowResults TagsArePermanent
CHECK_DEADLOCK FALSE
