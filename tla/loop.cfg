SPECIFICATION Spec
CONSTANTS
  c1 = c1
  c2 = c2
  Client = {c1, c2}
  Buff = 6
  Base = 6
  Room = 1
  Streams <- Sessions
  Cuts <- Pauses
CHECK_DEADLOCK FALSE
INVARIANTS InOrder SecondAgain BoundaryOrDead AliveIfDecent
PROPERTY Served
