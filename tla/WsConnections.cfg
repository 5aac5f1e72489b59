SPECIFICATION FairSpec
CONSTANTS
  Sessions = {s1}
  s1 = s1
  Stoppers = {w1}
  w1 = w1
  NoSession = NoSession
  MaxConns = 3
INVARIANTS
  OneReconnect
  NoConnectionLeak
  SubscriptionKept

PROPERTIES
  ImplementsConnection
  ReconnectSucceeds
  CloseEndsGoroutines
CHECK_DEADLOCK FALSE
