CONSTANTS
  MaxTotalBytes = 4
  MinBytesPerQuery = 1
  MaxEvictable = 1
  PinnedThreshold = 2
  Clients = {c1, c2}
  Keys = {1, 2, 3}
  OfMutable = {2}
  MaxSlot = 3
  MaxRequests = 3
  UseConfirmed = TRUE
  Permits = 1
  MaxMultipleAccounts = 1
  Scenes <- StreamedScenes
SPECIFICATION Spec
INVARIANT BodiesWellFormed
CHECK_DEADLOCK FALSE
