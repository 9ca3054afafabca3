CONSTANTS
  w1 = w1
  w2 = w2
  Workers <- MCWorkers
  NoWorker = NoWorker
  Locked = TRUE
  CanFail = TRUE
  Cleanups = FALSE
  RetryCount = 2
  MaxTests = 2
SPECIFICATION Spec
PROPERTIES SetUpSparesComplete
