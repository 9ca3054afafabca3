CONSTANTS
  None = None
  Counts <- MCCounts
  Timeouts <- MCTimeouts
  SleepTimes <- MCSleepTimes
  Intervals <- MCIntervals
  MaxBody = 3
  MaxLate = 1
  Horizon = 12
  MonitorKinds = {"ping", "iperf", "script", "iperf_pod", "pod", "http_pod", "file"}
  CanDie = TRUE
  SlowParent = TRUE
  MaxRuns = 3
  MaxOutages = 2
  NotSet = NotSet
  RebootTimeouts <- MCRebootTimeouts
  DefaultWait = 4
  WaitCount = 3
  WaitInterval = 1
  PingTime = 2
  StepTime = 2
  FirstBoots <- MCFirstBoots
  u = u
  v = v
  Users = {u, v}
  Operations = {"reboot", "migrate", "live", "ensure_active", "ensure_shutoff"}
  MaxTries = 2
  MaxMakes = 2
  MaxCalls = 2
  MaxServers = 2
  MaxFaults = 1
  Uploaders = {"p", "q"}
  MaxImages = 3
  MaxImageSetUps = 3
  Deployers = {"d", "e"}
  MaxBackends = 2
  MaxDeployments = 3
  MaxTroubles = 2
SPECIFICATION WaitsSpec
INVARIANTS WaitsTypeOK Deadline ReadyInTimeIsSeen AttemptsAsLimited
INVARIANTS OutagesReportedOnce OneMonitor RebootedMeansBooted UndisturbedSucceeds
INVARIANTS ImagesAreWholeOrOnTheirWay DeploymentsWork
PROPERTIES PassedMeansRunning DoneMeansSettled KeptWhileUsed
SYMMETRY MCSymmetry
