SPECIFICATION Spec
CONSTANTS
  HighWater = 2
  LowWater = 0
  MaxPending = 3
  MaxInFlight = 2
  HiddenHighWater = 2
  OutputLimit = 2
  QueueCapacity = 1
  PauseCapacity = 2
  MaxSequence = 3
  MaxUnits = 4
  MaxSessions = 2
  MaxAttaches = 2
  MaxRequests = 1
  EmptyTexts = FALSE
CHECK_DEADLOCK FALSE
INVARIANT BackpressurePropagates
