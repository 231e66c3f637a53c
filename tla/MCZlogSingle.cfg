SPECIFICATION SingleSpec
CONSTANTS
  Callers = {1, 2}
  FsyncPeriod = 2
  MaxMsgs = 4
  MaxMoves = 3
INVARIANT RightFile
CHECK_DEADLOCK FALSE
