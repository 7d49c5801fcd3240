SPECIFICATION Spec
CONSTANTS
  Slots = {1, 2, 3}
  Produced = {1, 2, 3}
  NoHash = 0
  Hash <- MCHash
  Bound = 1
  Feed <- MCFeed
  InsertMayFail = FALSE
  Tasks = {"main", "fill", "startup"}
  WriteMayFail = FALSE
  Late = {}
  Bases = {0, 2}
  MaxRetries = 1
INVARIANT BoundariesSeeded
