SPECIFICATION FairSpec
CONSTANTS
  Sessions = {s1}
  s1 = s1
  Stoppers = {}
  NoSession = NoSession
  MaxConns = 3
PROPERTIES
  DisconnectIsRepaired
CHECK_DEADLOCK FALSE
