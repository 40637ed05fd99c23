CONSTANTS
  Users = {u1, u2}
  Conversations = {c1, c2}
  MaxRequests = 3
  TTL = 1
  MaxMessages = 3
  MaxClock = 1
  Preemptive = TRUE
  NoUser = NoUser
  NoConversation = NoConversation
  NoSession = NoSession
SPECIFICATION FairSpec
CHECK_DEADLOCK FALSE
PROPERTY EveryRequestEnds
