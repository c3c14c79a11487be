SPECIFICATION Spec
CONSTANTS
  Client = {1, 2, 3}
  QoS = {0, 1}
  Filter <- AllFilters
  Topic <- AllTopics
  Misread <- Overreads
  Usages <- AllUsages
CHECK_DEADLOCK FALSE
INVARIANTS WellFormed NoDeadBranch OneByOne
PROPERTY ImplementsStore
