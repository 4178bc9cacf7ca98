SPECIFICATION Spec
CONSTANTS
  HighWater = 2
  LowWater = 0
  MaxPending = 3
  MaxInFlight = 2
  HiddenHighWater = 2
  OutputLimit = 2
  QueueCapacity = 1
  PauseCapacity = 2
  MaxSequence = 3
  MaxUnits = 4
  MaxSessions = 1
  MaxAttaches = 2
  MaxRequests = 1
  EmptyTexts = FALSE
INVARIANTS
  TypeOK
  NothingElseLost
  AcksMatch
  SnapshotIsComplete
  PauseIsTrue
CHECK_DEADLOCK FALSE
