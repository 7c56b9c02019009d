SPECIFICATION Spec
CONSTANTS
  r1 = r1
  r2 = r2
  r3 = r3
  NULL = NULL
  Runs <- ThreeRuns
INVARIANTS
  NothingLeft
  ShowsItsScore
SYMMETRY Symmetry
