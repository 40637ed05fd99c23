CONSTANTS
  Users = {u1, u2}
  Conversations = {c1, c2}
  MaxRequests = 4
  TTL = 1
  MaxMessages = 3
  MaxClock = 1
  Preemptive = TRUE
  NoUser = NoUser
  NoConversation = NoConversation
  NoSession = NoSession
SYMMETRY Symmetry
SPECIFICATION Spec
CHECK_DEADLOCK FALSE
INVARIANTS TypeOK Confidential PersistOrder TranscriptBounded
PROPERTY RemovalJustified
