SPECIFICATION Spec
SYMMETRY Symmetry
CONSTANTS
  Files = {f1, f2}
  f1 = f1
  f2 = f2
  Requests = {r1, r2, r3}
  r1 = r1
  r2 = r2
  r3 = r3
  MaxEdits = 2
  Nobody = Nobody
INVARIANTS
  AskedIsCommitted
  LeftByTheUnfinished
  StatusIsComplete
CHECK_DEADLOCK FALSE
