SPECIFICATION Spec
CONSTANTS
  Channels = {a}
  a = a
  Sessions = {s1, s2}
  s1 = s1
  s2 = s2
  Cmds = {c1, c2}
  c1 = c1
  c2 = c2
  NoSession = NoSession
  NoChannel = NoChannel
  NoAgent = NoAgent
  KVMayFail = TRUE
  PluginMayStop = FALSE
  CliMayStall = TRUE
SYMMETRY Symmetry
INVARIANTS
  KillIsEffective
  NoWriteIntoKill
  RecordReachesProcess
PROPERTIES
  KilledInOrder
  ImplementsLifecycle
