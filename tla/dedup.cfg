SPECIFICATION MCSpec
CONSTANTS
  Clients = 5
  MaxEntries = 7
CHECK_DEADLOCK FALSE
INVARIANTS DoneIsRight CrashesOnSurplus OnlyTheMiddle
PROPERTY Terminates
