SPECIFICATION Spec
CONSTANTS
  k1 = k1
  NoOwner = NoOwner
  Keys = {k1}
  Owners = {"P", "Q"}
  MaxSlot = 3
  Modes <- MoveModes
INVARIANT AccountReadsMatchChain
CHECK_DEADLOCK FALSE
