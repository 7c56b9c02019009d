SPECIFICATION Spec
CONSTANTS
  e1 = e1
  s1 = s1
  s2 = s2
  NULL = NULL
  Wrap = 2
  EpollClients <- OneEpoll
  ReplyClients <- OneReply
  Clients <- TwoKinds
  Backlog = 5
  MaxFds = 2
PROPERTY EveryoneServed
CHECK_DEADLOCK FALSE
