SPECIFICATION Spec
CONSTANTS
  Channels = {a}
  a = a
  Sessions = {s1, s2}
  s1 = s1
  s2 = s2
  Cmds = {c1}
  c1 = c1
  NoSession = NoSession
  NoChannel = NoChannel
  NoAgent = NoAgent
  KVMayFail = FALSE
  PluginMayStop = FALSE
  CliMayStall = FALSE
PROPERTIES
  ExitCleansUpOwnSession
