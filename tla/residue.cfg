SPECIFICATION Spec
CONSTANTS
  Base = 128
  Misread = {}
  Client = {1, 2}
  MaxFd = 2
  MaxId = 2
  MaxMsg = 1
  MaxSessions = 2
  Filters <- OneFilter
  Topic <- TopicA
  QoS = {1}
  WillTopic <- TheTopicA
  WillQoS = {}
  CleanFlags = {TRUE}
  Liberties = {"Share"}
CHECK_DEADLOCK FALSE
INVARIANT NoResidue
