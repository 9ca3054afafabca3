CONSTANTS
  w1 = w1
  w2 = w2
  Workers <- MCWorkers
  NoWorker = NoWorker
  Kinds = {"group"}
  Failing = {TRUE}
  Cleanups = FALSE
  MaxTests = 2
SPECIFICATION Spec
INVARIANT GroupsHaveRules
