SPECIFICATION Spec
SYMMETRY Symmetry
CONSTANTS
  Sessions = {s1}
  s1 = s1
  Calls = {m1, m2, m3, m4}
  m1 = m1
  m2 = m2
  m3 = m3
  m4 = m4
  NoSession = NoSession
INVARIANTS
  NothingLostAlone
  RealTimeOrder
  ComesBackFromCopy
