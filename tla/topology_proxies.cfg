CONSTANTS
  w1 = w1
  w2 = w2
  Workers <- MCWorkers
  NoWorker = NoWorker
  Kinds = {"group", "pool"}
  Failing = {TRUE, FALSE}
  Cleanups = TRUE
  MaxTests = 3
  Fixtures = {"net", "stack", "oper"}
  NoFixture = "no"
  Requires <- MCRequires
  Operation = "oper"
  MaxDepth = 2
  MaxAsked = 4
  Machines = {"ctl", "cmp", "far"}
  NoMachine = "no"
  Addresses = {"api0", "in0", "in1", "out1", "pub1", "in2", "out2"}
  OwnerOf <- MCOwnerOf
  Routes <- MCRoutes
  ByConfiguration = {"far"}
  Plan <- MCPlan
  Groups = {"controller", "compute"}
  MaxOutages = 2
  Hosts = {"gate", "hop", "inner"}
  NoHost = NoHost
  ProxyOf <- MCProxyOf
  Attempts = 2
  Tries = 2
  Logins = 2
  MaxLosses = 3
SPECIFICATION FixturesSpec
INVARIANT ProxiesAreUsed
