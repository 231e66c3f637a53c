SPECIFICATION TcSpec
CONSTANTS
  a = a
  b = b
  c = c
  none = none
  NumCells = 1
  RunTti = 0
  TtiWrap = 2
  CmdIds <- All
  CellNums = {0, 3}
  LinkFails = FALSE
  PhyErrors = TRUE
  MaxGroup = 2
  MaxCmds = 2
  Window = 2
  MaxTti = 6
  Sfns = 4
  SfnWindow = 2
  Slots15 = 3
  Cases = {a, b, c}
  NoCase = none
  ScsOf <- MCScsOf
  HasConfig = {a, b}
  Files <- MCFiles
  TxCfg = {"dltti", "ultti", "txdata"}
  StartTimes <- MCStartTimes
INVARIANTS
  WaitAnswered StampRight ContentRight
CHECK_DEADLOCK FALSE
