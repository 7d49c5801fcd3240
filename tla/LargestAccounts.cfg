CONSTANTS
  Keys = {1, 2, 3}
  Tokens = {"m", "n"}
  TopN = 1
  K = 2
  MaxSlot = 5
  Scenes <- MCScenes
SPECIFICATION Spec
INVARIANTS LargestServedExact OneClass IndexComplete
CHECK_DEADLOCK FALSE
