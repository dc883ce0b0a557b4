SPECIFICATION Spec
CONSTANTS
  Files = {f1, f2, f3, f4}
  Links = {f4}
  Quarantines = {q1, q2}
  Purges = {p1, p2}
  None = None
SYMMETRY Symmetry
INVARIANTS TypeOK MovedIsKept RequestedIsChecked PurgedIsGone
CHECK_DEADLOCK FALSE
