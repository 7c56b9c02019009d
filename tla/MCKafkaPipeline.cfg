SPECIFICATION Spec
CONSTANTS
  Lines <- ThreeLines
  QueueMax = 2
  MaxRepeats = 2
INVARIANTS
  TypeOK
  OnePlace
  Accounted
PROPERTIES
  Accepted
  ImplementsDelivery
