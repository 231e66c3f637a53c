SPECIFICATION Spec
CONSTANTS
  Threads <- TwoThreads
  Lens = {0, 8, 11, 21}
  Cap = 68
  LinkFails = FALSE
INVARIANTS AssertsHold
