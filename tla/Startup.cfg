CONSTANTS
  Keys = {k1}
  Owners = {"P", "Q"}
  NoOwner = NoOwner
  MaxSlot = 3
  Modes <- MCModes
SPECIFICATION StartupSpec
INVARIANT ReadsExactOnceStarted
PROPERTY StartupEnds
CHECK_DEADLOCK FALSE
