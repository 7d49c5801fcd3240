SPECIFICATION Spec
CONSTANTS
  k1 = k1
  NoOwner = NoOwner
  Keys = {k1}
  Owners = {"P"}
  MaxSlot = 3
  Modes <- CloseModes
INVARIANT ApiReadsMatchChain
CHECK_DEADLOCK FALSE
