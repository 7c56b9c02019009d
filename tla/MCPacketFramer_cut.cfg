SPECIFICATION Spec
CONSTANTS
  Start <- MCOnePacket
  MaxChunk = 11
  JunkLengths = {1}
  InnerBufferSize = 14
  NULL = NULL
INVARIANT AlwaysFramed
