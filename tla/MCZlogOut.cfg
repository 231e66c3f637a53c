SPECIFICATION OutSpec
CONSTANTS
  Threads <- TwoThreads
  Rules <- AllRules
  MaxSize = 2
  Lens = {1, 2}
  MaxFileMsgs = 4
  MaxFaults = 1
  Callers = {1}
  FsyncPeriod = 2
  MaxMsgs = 4
  MaxMoves = 3
  BufMin = 3
  BufMax = 18
  TruncateStr <- Trunc
  Patterns <- Pats
  Messages <- Msgs
  HexWidth = 1
  MaxMessages = 2
  MaxClock = 3
  MaxPid = 2
  UserLevels = {1, 7, 8, 63, 64, 127, 253, 255, 300}
  Lines <- SomeLines
  Categories <- Cats
  ArraySize = 32
  MaxLevels = 1
  ConfFiles <- SomeFiles
  ByteSizeOf <- Sizes
  JoinMax = 9
  HKeys <- FiveKeys
  HValues = {1, 2}
  Hash <- FiveHashes
  TabSize = 2
  NoKey = 0
INVARIANTS
  NothingLost ArchivesInOrder FileFollowed MessageBuilt RulesAgree
  LinesAsMeant ConfSound HashSound
PROPERTIES
  OnlyOldestPruned ImplementsMap
CHECK_DEADLOCK FALSE
