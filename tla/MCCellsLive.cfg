SPECIFICATION CellsFairSpec
CONSTANTS
  NumCells = 1
  RunTti = 0
  TtiWrap = 2
  CmdIds <- Manual
  CellNums = {0, 3}
  LinkFails = FALSE
  PhyErrors = FALSE
  MaxGroup = 2
  MaxCmds = 3
  Window = 3
  MaxTti = 9
  Asyncs = {a1}
  Signals = {s1}
  MaxSends = 2
  MaxToggles = 2
PROPERTIES TxCaseRuns SentIsCollected
CHECK_DEADLOCK FALSE
