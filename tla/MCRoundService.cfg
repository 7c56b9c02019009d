SPECIFICATION Spec
CONSTANTS
  e1 = e1
  s1 = s1
  s2 = s2
  NULL = NULL
  Wrap = 1
  EpollClients <- OneEpoll
  ReplyClients <- TwoReply
  Clients <- ThreeKinds
  Backlog = 1
  MaxFds = 2
INVARIANTS
  WatchesOpen
  ReadsWhatIsReady
  NoLostWakeup
PROPERTIES
  ImplementsConversations
  Served
  Released
  RepliersLeave
CHECK_DEADLOCK FALSE
