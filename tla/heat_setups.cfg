CONSTANTS
  w1 = w1
  w2 = w2
  Workers <- MCWorkers
  NoWorker = NoWorker
  Locked = TRUE
  CanFail = TRUE
  Cleanups = TRUE
  RetryCount = 3
  MaxTests = 2
SPECIFICATION SetupsSpec
INVARIANTS TypeOK NothingRemembered
PROPERTIES CreationSparesComplete AllTestsEnd
