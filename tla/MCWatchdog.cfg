SPECIFICATION DogFairSpec
CONSTANTS
  NumCells = 1
  RunTti = 3
  TtiWrap = 8
  CmdIds <- StartStop
  CellNums = {0}
  LinkFails = TRUE
  PhyErrors = TRUE
  MaxGroup = 1
  MaxCmds = 2
  Window = 1
  MaxTti = 9
  Limit = 2
PROPERTIES
  WaitEnds
CHECK_DEADLOCK FALSE
