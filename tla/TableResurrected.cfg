SPECIFICATION Spec
CONSTANTS
  main = main
  other = other
  e1 = e1
  e2 = e2
  e3 = e3
  r1 = r1
  r2 = r2
  Sheets = {main, other}
  Main = main
  Edits = {e1, e2, e3}
  Removals = {r1}
  Faults <- OverlapFault
  None = None
SYMMETRY Symmetry
INVARIANT NoResurrection
CHECK_DEADLOCK FALSE
