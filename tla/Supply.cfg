SPECIFICATION Spec
CONSTANTS
  Keys = {"a", "p"}
  Pinned = {"p"}
  MaxSlot = 5
  Ring = 2
  Staleness = 2
  Scenes <- MCScenes
INVARIANTS StakeMapExact SupplyExact SupplyServedExact OneSource MemberRowExact
CHECK_DEADLOCK FALSE
