SPECIFICATION Spec
CONSTANTS
  MinSize = 4
  Token <- TokenUsed
  LowerCase <- LowerCaseUsed
  Initial <- InitialUsed
  Yes = {"true", "yes", "1884"}
  No = {"no", "0", "false"}
  Number <- NumberUsed
  Files <- FilesUsed
  MaxOptions = 2
  PluginInfos = {"test"}
  MaxSessions = 2
CHECK_DEADLOCK FALSE
INVARIANTS LastAssignmentHolds ServesAsWritten DiesOnly
