SPECIFICATION PartsSpec
CONSTANTS
  Threads <- OneThread
  Lens = {0, 8, 11, 21}
  Cap = 68
  LinkFails = TRUE
  RxCells = {0, 1}
  DumpPeriod = 2
  UeMask = 4
  RssiWidth = 8
  CrcInds <- MCCrcInds
  UciInds <- MCUciInds
  RachInds <- MCRachInds
  DataInds <- MCDataInds
  MaxTold = 2
  MaxCsi = 3
  Clients = {c1, c2}
  Tracer = c1
  MaxReqs = 4
  Messages <- MCMessages
  MaxVisits = 4
  Devices = 2
  Boards <- BoardSets
  CoreNums = {0, 1, 2, 4}
  ArgLists <- OptionLists
  IntSign = 2048
  Reads <- CmdReads
  MaxReads = 2
  DHEAP = 2
  Timers = {"t1", "t2", "r1"}
  Periodics = {"i1", "a1"}
  Repeat <- RepeatOf
  Interval <- IntervalOf
  Offset <- OffsetOf
  Afters = {0, 2}
  Steps = {0, 1, 3}
  Jumps <- JumpSet
  HalfJump = 2
  MaxBlocktime = 240
  TimeoutBlocktime = 0
  BackendMintime = 1
  MaxClock = 4
  MaxTimerOps = 4
  Fds = {"f1", "f2"}
  IoWatchers = {"w1", "w2", "w3"}
  FdOf <- FdMap
  EventsOf <- EventMap
  MaxFiles = 3
  MaxIoOps = 6
  Sources = {"s1", "io", "to"}
  Onces = {"o1"}
  OnceIo <- IoMap
  OnceTo <- ToMap
  Kinds <- KindSets
  PriOf <- PriMap
  NumPri = 2
  MaxLoopOps = 4
INVARIANTS
  GroupWhole AssertsHold ReportsCounted Packed ConsoleSound
  TimersRight FdsSound LoopRight
PROPERTIES
  RepliesHome
CHECK_DEADLOCK FALSE
