CONSTANTS
  Programs <- MCHanging
  Calls <- MCWithoutInput
  Capacity = 3
  Buffer = 2
SPECIFICATION FairSpec
PROPERTY TimeoutEnds
CHECK_DEADLOCK FALSE
