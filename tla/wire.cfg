SPECIFICATION WireSpec
CONSTANTS
  Base = 8
  MaxId = 66
  ClientIdLimit = 4
  Zeroed = 3
  ConnectFields <- FieldsUsed
  Topics <- TopicsUsed
  FilterLens = {1, 7, 8, 16}
  MaxFilters = 2
  Payloads <- PayloadsUsed
CHECK_DEADLOCK FALSE
INVARIANTS ReadsAsSent DiesOnly RelayedIntact AcknowledgesTheSame OwnRowBelowBase DistinctOnWire
