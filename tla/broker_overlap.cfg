SPECIFICATION Spec
CONSTANTS
  Base = 128
  Misread <- Overreads
  Client = {1, 2}
  MaxFd = 3
  MaxId = 2
  MaxMsg = 1
  MaxSessions = 3
  Filters <- Nested
  Topic <- TopicAB
  QoS = {1}
  WillTopic <- TheTopicA
  WillQoS = {}
  CleanFlags = {TRUE}
  Liberties = {"Overlap"}
CHECK_DEADLOCK FALSE
INVARIANTS SocketOwned Addressed NoResidue
