SPECIFICATION TcFairSpec
CONSTANTS
  a = a
  b = b
  c = c
  none = none
  NumCells = 1
  RunTti = 0
  TtiWrap = 2
  CmdIds = {"TX_CASE"}
  CellNums = {0, 3}
  LinkFails = FALSE
  PhyErrors = FALSE
  MaxGroup = 1
  MaxCmds = 2
  Window = 2
  MaxTti = 6
  Sfns = 4
  SfnWindow = 2
  Slots15 = 3
  Cases = {a, b, c}
  NoCase = none
  ScsOf <- MCScsOf
  HasConfig = {a, b, c}
  Files <- MCFiles
  TxCfg = {"dltti", "ultti", "txdata"}
  StartTimes <- MCStartTimes
PROPERTY CaseConfigured
CHECK_DEADLOCK FALSE
