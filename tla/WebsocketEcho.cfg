SPECIFICATION Spec
CONSTANTS
  NULL = NULL
  Clients = {c1, c2}
INVARIANTS
  EchoInOrder
PROPERTIES
  ImplementsEchoes
CHECK_DEADLOCK FALSE
