SPECIFICATION CellsSpec
CONSTANTS
  NumCells = 2
  RunTti = 2
  TtiWrap = 3
  CmdIds <- StartStop
  CellNums = {2, 3}
  LinkFails = TRUE
  PhyErrors = FALSE
  MaxGroup = 1
  MaxCmds = 3
  Window = 1
  MaxTti = 9
  Asyncs = {a1, a2}
  Signals = {s1}
  MaxSends = 2
  MaxToggles = 2
INVARIANTS TypeOK WaitAnswered RunBounded WakeSound
CHECK_DEADLOCK FALSE
