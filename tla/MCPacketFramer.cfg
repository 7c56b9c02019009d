SPECIFICATION Spec
CONSTANTS
  Start <- MCStart
  MaxChunk = 11
  JunkLengths = {1}
  InnerBufferSize = 14
  NULL = NULL
INVARIANTS
  Framed
  Prompt
  Fits
PROPERTY ImplementsStream
