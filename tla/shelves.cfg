CONSTANTS
  w1 = w1
  w2 = w2
  s1 = s1
  s2 = s2
  r1 = r1
  r2 = r2
  t1 = t1
  t2 = t2
  Workers <- MCWorkers
  NoWorker = NoWorker
  Shelves <- MCShelf
  Resources <- MCResource
  Tests <- MCTests
  Dummy = Dummy
  NoTest = NoTest
  BaseLock = BaseLock
  RunUid = RunUid
  OldUid = OldUid
  NoUid = NoUid
  ExclusiveOpen = TRUE
  MaxTries = 2
  MaxCalls = 2
  MaxCrashes = 1
SPECIFICATION FairSpec
INVARIANTS TypeOK SweptTestsReleased NoStaleUsers
PROPERTIES ImplementsAbs AllTestsEnd
