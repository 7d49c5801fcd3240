CONSTANTS
  Patterns = {1, 2, 3}
  Threshold = 1
  Ratio = 100
  Compensation = 1
  Delta = 10
  Scenes <- MCScenes
SPECIFICATION Spec
INVARIANTS TypeOK CapHeld DemandKept PairMatchesStatus
PROPERTIES TrimStopsAtTarget DemandArrives WantedIsBuilt
CHECK_DEADLOCK FALSE
