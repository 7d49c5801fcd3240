SPECIFICATION LiveSpec
CONSTANTS
  k1 = k1
  NoOwner = NoOwner
  Keys = {k1}
  Owners = {"P", "Q"}
  MaxSlot = 4
  Modes <- MCModes
INVARIANTS TypeOK ProgramReadsMatchChain DrainedIsExact
PROPERTY BacklogDrains
CHECK_DEADLOCK FALSE
