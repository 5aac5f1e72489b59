SPECIFICATION FairSpec
CONSTANTS
  Sessions = {s1, s2}
  s1 = s1
  s2 = s2
  Clients = {c1, c2}
  c1 = c1
  c2 = c2
  NoSession = NoSession
INVARIANTS
  TableIsActive
  NoStrayProcess
  StoppedHasEnded
PROPERTIES
  ShutdownSignalsAll
  ImplementsLifecycle
  ImplementsFairLifecycle
  SubscriberIsTold
