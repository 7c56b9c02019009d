SPECIFICATION Spec
CONSTANTS
  e1 = e1
  s1 = s1
  s2 = s2
  NULL = NULL
  Wrap = 2
  EpollClients <- OneEpoll
  ReplyClients <- OneReply
  Clients <- TwoKinds
  Backlog = 1
  MaxFds = 2
PROPERTIES
  Answered
  Released
CHECK_DEADLOCK FALSE
