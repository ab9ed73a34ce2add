SPECIFICATION Spec
CONSTANTS
  Procs = {p1, p2, p3, p4}
  None = None
SYMMETRY Symmetry
INVARIANTS HolderIsVisible SomeoneWins
CHECK_DEADLOCK FALSE
