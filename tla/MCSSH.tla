------------------------------- MODULE MCSSH -------------------------------
EXTENDS SSHClients
MCProxyOf == [h \in Hosts |-> CASE h = "gate" -> NoHost [] h = "hop" -> "gate" [] OTHER -> "hop"]
=============================================================================
