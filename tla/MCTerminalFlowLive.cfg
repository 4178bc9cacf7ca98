SPECIFICATION FairSpec
CONSTANTS
  HighWater = 2
  LowWater = 0
  MaxPending = 3
  MaxInFlight = 2
  HiddenHighWater = 2
  OutputLimit = 2
  QueueCapacity = 2
  PauseCapacity = 2
  MaxSequence = 3
  MaxUnits = 3
  MaxSessions = 1
  MaxAttaches = 2
  MaxRequests = 0
  EmptyTexts = FALSE
CHECK_DEADLOCK FALSE
PROPERTIES
  PauseEnds
  PendingIsShown
