CONSTANTS
  Programs <- MCPrograms
  Calls <- MCCalls
  Capacity = 3
  Buffer = 2
SPECIFICATION FairSpec
INVARIANTS TypeOK OutputComplete InputComplete NothingLeftRunning
PROPERTY EndsIfSimple
CHECK_DEADLOCK FALSE
