CONSTANTS
  Hosts = {"gate", "hop", "inner"}
  NoHost = NoHost
  ProxyOf <- MCProxyOf
  Attempts = 2
  Tries = 2
  Logins = 2
  MaxLosses = 1
SPECIFICATION SSHSpec
INVARIANT LostConnectionsReestablished
