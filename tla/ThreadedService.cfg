SPECIFICATION Spec
CONSTANTS
  NULL = NULL
  Clients = {c1, c2}
  Backlog = 1
  MaxFds = 2
  MaxList = 3
INVARIANTS
  BlocksOnReused
  Listed
  ClosesWhatItRead
PROPERTIES
  Heard
  HeardIfEarly
CHECK_DEADLOCK FALSE
