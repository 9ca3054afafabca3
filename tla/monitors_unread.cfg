CONSTANTS
  MonitorKinds = {"http_pod"}
  CanDie = FALSE
  SlowParent = FALSE
  MaxRuns = 3
  MaxOutages = 2
SPECIFICATION MonitorsSpec
INVARIANT ResultsAreChecked
CHECK_DEADLOCK FALSE
