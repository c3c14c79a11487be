SPECIFICATION Spec
CONSTANTS
  Base = 128
  Misread = {}
  Client = {1, 2}
  MaxFd = 2
  MaxId = 4
  MaxMsg = 1
  MaxSessions = 2
  Filters <- OneFilter
  Topic <- TopicA
  QoS = {1}
  WillTopic <- TheTopicA
  WillQoS = {}
  CleanFlags = {TRUE, FALSE}
  Liberties = {"ConnectAgain", "Share"}
CHECK_DEADLOCK FALSE
PROPERTY ConnectFirst
