SPECIFICATION Spec
CONSTANTS
  c1 = c1
  c2 = c2
  c3 = c3
  p1 = p1
  p2 = p2
  p3 = p3
  NULL = NULL
  Clients <- ThreeClients
  Procs <- ThreeProcs
  Root = p1
  Backlog = 1
INVARIANTS
  CallsOnOpen
  SharedByPair
  OneWelcome
PROPERTIES
  Attended
  Released
CHECK_DEADLOCK FALSE
