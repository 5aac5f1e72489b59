SPECIFICATION Spec
SYMMETRY Symmetry
CONSTANTS
  Files = {f1}
  f1 = f1
  Requests = {r1, r2, r3}
  r1 = r1
  r2 = r2
  r3 = r3
  Edits = {e1}
  e1 = e1
  MaxBlocks = 2
  None = None
  Hole = Hole
INVARIANTS
  SavedIsThere
  CreateIsExclusive
  ReadIsWhole
CHECK_DEADLOCK FALSE
