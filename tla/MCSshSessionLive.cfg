SPECIFICATION FairSpec
CONSTANTS
  Hosts = {h1}
  MaxSessions = 2
  MaxAsks = 1
  MaxErrors = 1
  Purposes = {FALSE}
PROPERTIES
  ConnectionResolves
  ToldSessionEnds
CHECK_DEADLOCK FALSE
