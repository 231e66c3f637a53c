SPECIFICATION Spec
CONSTANTS
  main = main
  t2 = t2
  none = none
  mac = mac
  app = app
  key = key
  rec = rec
  Threads = {main, t2}
  NoThread = none
  Main = main
  Cats = {mac, app}
  Levels = {1, 2}
  Contents <- MCContents
  RuleOf <- MCRuleOf
  Parses <- MCParses
  PeriodOf <- MCPeriodOf
  BufOf <- MCBufOf
  Keys = {key}
  MdcThreads = {t2}
  RecNames = {rec}
  MayFail = {"get", "thread", "update"}
  MaxConf = 3
  MaxLog = 2
INVARIANTS
  InForce OutputSafe UserStateKept
PROPERTIES
  AutoReloadEarned Released
CHECK_DEADLOCK FALSE
