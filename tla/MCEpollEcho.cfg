SPECIFICATION Spec
CONSTANTS
  e1 = e1
  s1 = s1
  s2 = s2
  NULL = NULL
  Wrap = 2
  EpollClients <- OneEpoll
  ReplyClients <- TwoReply
  Clients <- ThreeKinds
  Backlog = 1
  MaxFds = 2
INVARIANTS
  OneInFlight
  NoStaleEvent
  NoSigpipe
  EndIsSeen
  NoLostWakeup
PROPERTIES
  ImplementsConversations
CHECK_DEADLOCK FALSE
