SPECIFICATION FairSpec
CONSTANTS
  Base = 128
  Misread = {}
  Client = {1, 2}
  MaxFd = 2
  MaxId = 4
  MaxMsg = 2
  MaxSessions = 2
  Filters <- OneFilter
  Topic <- TopicA
  QoS = {1, 2}
  WillTopic <- TheTopicA
  WillQoS = {1}
  CleanFlags = {TRUE, FALSE}
  Liberties = {"Share"}
CHECK_DEADLOCK FALSE
INVARIANTS TypeOK HeldRow CaughtUp Backed
PROPERTIES KeepsPromise Drains
