SPECIFICATION Spec
CONSTANTS
  Slots = {1, 2, 3, 4}
  Produced = {1, 3, 4}
  NoHash = 0
  Hash <- MCHash
  Bound = 1
  Feed <- MCFeed
  InsertMayFail = FALSE
  Tasks = {"main", "fill", "startup"}
  WriteMayFail = FALSE
  Late = {}
  Bases = {0, 2}
  MaxRetries = 1
INVARIANT PausedUntilFilled
