SPECIFICATION FairSpec
CONSTANTS
  Channels = {a}
  a = a
  Sessions = {s1}
  s1 = s1
  Cmds = {c1, c2}
  c1 = c1
  c2 = c2
  NoSession = NoSession
  NoChannel = NoChannel
  NoAgent = NoAgent
  KVMayFail = FALSE
  PluginMayStop = FALSE
  CliMayStall = TRUE
PROPERTIES
  KillTerminates
