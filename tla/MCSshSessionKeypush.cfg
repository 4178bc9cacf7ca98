SPECIFICATION Spec
CONSTANTS
  Hosts = {h1, h2}
  MaxSessions = 2
  MaxAsks = 1
  MaxErrors = 1
  Purposes = {TRUE, FALSE}
SYMMETRY HostSymmetry
INVARIANT KeypushOnlyWhereWanted
CHECK_DEADLOCK FALSE
