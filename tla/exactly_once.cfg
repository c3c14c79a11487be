SPECIFICATION Spec
CONSTANTS
  Base = 3
  MaxId = 3
  MaxMsg = 3
  MaxConn = 2
  MaxBreaks = 1
CHECK_DEADLOCK FALSE
INVARIANTS OncePerPublish LostOnly DiesOnly
PROPERTIES RowsReturn HighRowsStay
