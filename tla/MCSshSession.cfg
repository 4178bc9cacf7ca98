SPECIFICATION Spec
CONSTANTS
  Hosts = {h1}
  MaxSessions = 2
  MaxAsks = 1
  MaxErrors = 1
  Purposes = {TRUE, FALSE}
INVARIANTS
  TypeOK
  AuthPromptIsCurrent
  ConnectedIsCurrent
  HostKeyCommitted
  NoOrphan
  IdleMeansNoShell
CHECK_DEADLOCK FALSE
