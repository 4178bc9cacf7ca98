SPECIFICATION Spec
CONSTANTS
  Hosts = {h1}
  MaxSessions = 2
  MaxAsks = 1
  MaxErrors = 1
  Purposes = {FALSE}
SYMMETRY HostSymmetry
INVARIANT ConnectedHoldsSession
CHECK_DEADLOCK FALSE
