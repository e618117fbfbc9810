SPECIFICATION Spec
CONSTANTS
  None = None
  good = good
  markup = markup
  foreign = foreign
  malformed = malformed
  alice = alice
  bob = bob
  NewNotes = {good, markup, foreign, malformed}
  Escaped = {markup}
  PubHexKey <- Authors
  PrivHexKey <- Signers
  MaxClock = 1
  Keys = {alice, bob}
  MaxTags = 3
INVARIANTS TypeOK RelaysAcceptGoodNotes ReturnsTheKeys
CHECK_DEADLOCK FALSE
