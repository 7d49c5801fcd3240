SPECIFICATION Spec
CONSTANTS
  k1 = k1
  NoOwner = NoOwner
  Keys = {k1}
  Owners = {"P"}
  MaxSlot = 3
  Modes <- RepairedModes
INVARIANT DrainedReadsMatchChain
CHECK_DEADLOCK FALSE
