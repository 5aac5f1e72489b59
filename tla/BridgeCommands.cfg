SPECIFICATION FairSpec
CONSTANTS
  c1 = c1
  Channels = {c1}
  Sessions = {s1, s2}
  s1 = s1
  s2 = s2
  Cmds = {a1}
  a1 = a1
  ChannelOf <- OneChannel
  Reader = Reader
  Redial = Redial
  Plugin = Plugin
  NoSession = NoSession
  NoChannel = NoChannel
  KVMayFail = TRUE
  BridgeMayStop = TRUE
  PluginMayStop = TRUE
  MayBeLost = {"create", "delete", "message"}
  MaxMoves = 3
INVARIANTS
  RecordedIsHeard
  HistoryIsBacked
  StopReachesBridge
PROPERTIES
  StoppedIsCleanedUp
