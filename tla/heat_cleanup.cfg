CONSTANTS
  w1 = w1
  w2 = w2
  Workers <- MCWorkers
  NoWorker = NoWorker
  Locked = TRUE
  CanFail = FALSE
  Cleanups = TRUE
  RetryCount = 2
  MaxTests = 1
SPECIFICATION Spec
PROPERTIES CleanupDeletesUnused
