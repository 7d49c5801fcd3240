SPECIFICATION FinalizerSpec
CONSTANTS
  Slots = {1, 2, 3}
  h = h
  g = g
  NoHash = NoHash
  Hash <- MCHash
  Bound = 1
  Feed <- MCFeed
  InsertMayFail = TRUE
INVARIANTS FinalizerTypeOK NoLostWork NoLostSpace
PROPERTIES TipNeverRegresses
CHECK_DEADLOCK TRUE
