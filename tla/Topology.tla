------------------------------ MODULE Topology ------------------------------
(***************************************************************************)
(* Discovery of the nodes of a cloud (OpenStackTopology in                 *)
(* openstack/topology/_topology.py) over the SSH connections, and with the *)
(* SSH clients, that are remembered for the rest of the run                *)
(* (SSHConnectionManager in _connection.py, SSHClientManager in            *)
(* shell/ssh/_client.py).  Hosts go down and come back in the meantime.    *)
(***************************************************************************)
EXTENDS Integers, Sequences

CONSTANTS Machines, NoMachine, Groups,
          Addresses, OwnerOf, \* the host an address belongs to
          Routes,             \* pairs of an address and the host it is reached from
          ByConfiguration,    \* hosts that the SSH configuration knows by name
          Plan,               \* the nodes to add, in their order
          MaxOutages          \* bound: hosts going down

\* A machine may be reached at several addresses, and an entry of the plan is about
\* one machine.  There is at least one endpoint, the one of Keystone.
ASSUME TopologyAssumption ==
  /\ {NoMachine, "none"} \cap Machines = {} /\ NoMachine # "none"
  /\ OwnerOf \in [Addresses -> Machines]
  /\ Routes \subseteq Addresses \X (Machines \cup {NoMachine})
  /\ ByConfiguration \subseteq Machines
  /\ Plan \in Seq([hostname : {<<>>} \cup (Machines \X {"short", "full"}),
                   addresses : SUBSET Addresses,
                   group : Groups \cup {"none"}, optional : BOOLEAN])
  /\ Plan # <<>> /\ "none" \notin Groups
  /\ \A i \in DOMAIN Plan : \E h \in Machines :
       /\ \A a \in Plan[i].addresses : OwnerOf[a] = h
       /\ Plan[i].hostname # <<>> => Plan[i].hostname[1] = h
  /\ MaxOutages \in Nat

HostNames == Machines \X {"short", "full"}
NoName == <<>>

AddressesOf(h) == {a \in Addresses : OwnerOf[a] = h}

\* Variant: the name is the host name as it is.
FullName(hostname) == hostname

\* node_name_from_hostname: the part before the first dot.
NodeName(hostname) == <<hostname[1], "short">>

VARIABLES
  running,     \* the hosts that are running
  nodes,       \* _names: the nodes
  byAddress,   \* _addresses: the name of the node of an address
  groups,      \* _groups: the names of the nodes of a group
  connections, \* _connections: by address and proxy
  clients,     \* CLIENTS: the proxy that the client of an address goes through
  ready,       \* is the topology set up?
  wasCleaned,  \* _cleanup_executed
  next,        \* the node of the plan that is being added
  stage,       \* how far add_node has come
  proxies,     \* the nodes that may still be tried as a proxy
  reached,     \* the host that was connected to
  outages,     \* hosts that went down so far
  wasDown      \* history: hosts that have ever been down

registry == <<nodes, byAddress, groups>>
known == <<connections, clients>>
progress == <<next, stage, proxies, reached>>
topologyVars == <<running, registry, known, ready, wasCleaned, progress, outages, wasDown>>

Names == {n.name : n \in nodes}
Wanted == Plan[next]
Key == Addresses \X (Machines \cup {NoMachine})

TopologyTypeOK ==
  /\ running \in SUBSET Machines /\ wasDown \in SUBSET Machines /\ Machines \ running \subseteq wasDown
  /\ nodes \in SUBSET [name : HostNames, host : Machines, addresses : SUBSET Addresses]
  /\ byAddress \in [Addresses -> HostNames \cup {NoName}]
  /\ groups \in [Groups -> SUBSET HostNames]
  /\ connections \in [Key -> {"untried", "valid", "failed"}]
  /\ clients \in [Addresses -> Machines \cup {NoMachine, "none"}]
  /\ ready \in BOOLEAN /\ wasCleaned \in BOOLEAN
  /\ next \in 1 .. Len(Plan) + 1
  /\ stage \in {"idle", "find", "named", "direct", "proxy", "proxied", "add", "unreachable"}
  /\ proxies \in SUBSET Machines
  /\ reached \in Machines \cup {NoMachine} /\ (stage \in {"proxied", "add"} => reached # NoMachine)
  /\ outages \in 0 .. MaxOutages

TopologyInit ==
  /\ running = Machines /\ wasDown = {} /\ outages = 0
  /\ nodes = {}
  /\ byAddress = [a \in Addresses |-> NoName]
  /\ groups = [g \in Groups |-> {}]
  /\ connections = [k \in Key |-> "untried"] /\ clients = [a \in Addresses |-> "none"]
  /\ ready = FALSE /\ wasCleaned = FALSE
  /\ next = 1 /\ stage = "idle" /\ proxies = {} /\ reached = NoMachine
-----------------------------------------------------------------------------
GoesDown(h) ==
  /\ h \in running /\ outages < MaxOutages
  /\ running' = running \ {h} /\ wasDown' = wasDown \cup {h} /\ outages' = outages + 1
  /\ UNCHANGED <<registry, known, ready, wasCleaned, progress>>

ComesUp(h) ==
  /\ h \notin running
  /\ running' = running \cup {h}
  /\ UNCHANGED <<registry, known, ready, wasCleaned, progress, outages, wasDown>>

world == <<running, outages, wasDown>>
-----------------------------------------------------------------------------
\* discover_nodes
Discover ==
  /\ stage = "idle" /\ ~ready
  /\ next' = 1
  /\ stage' = "find" /\ proxies' = {} /\ reached' = NoMachine
  /\ UNCHANGED <<world, registry, known, ready, wasCleaned>>

\* The node is added to its group, and the next one is looked at.
Advance ==
  /\ next' = next + 1
  /\ stage' = IF next = Len(Plan) THEN "idle" ELSE "find"
  /\ ready' = (next = Len(Plan))
  /\ wasCleaned' = IF ready' THEN FALSE ELSE wasCleaned
  /\ proxies' = {} /\ reached' = NoMachine

JoinGroup(name) ==
  groups' = IF Wanted.group = "none" THEN groups ELSE [groups EXCEPT ![Wanted.group] = @ \cup {name}]

\* get_node
Matching ==
  IF Wanted.hostname # NoName /\ NodeName(Wanted.hostname) \in Names
  THEN {NodeName(Wanted.hostname)}
  ELSE {byAddress[a] : a \in Wanted.addresses} \ {NoName}

AlreadyKnown ==
  /\ stage = "find"
  /\ \E name \in Matching : JoinGroup(name)
  /\ Advance
  /\ UNCHANGED <<world, nodes, byAddress, known>>

NotKnown ==
  /\ stage = "find" /\ Matching = {}
  /\ stage' = IF Wanted.hostname # NoName THEN "named" ELSE "direct"
  /\ UNCHANGED <<world, registry, known, ready, wasCleaned, next, proxies, reached>>

\* The regular SSH configuration is tried first, if there is a host name.
ConnectByName ==
  /\ stage = "named"
  /\ LET h == Wanted.hostname[1]
     IN IF h \in running \cap ByConfiguration
        THEN reached' = h /\ stage' = "add"
        ELSE reached' = reached /\ stage' = "direct"
  /\ UNCHANGED <<world, registry, known, ready, wasCleaned, next, proxies>>
-----------------------------------------------------------------------------
(***************************************************************************)
(* SSHConnectionManager.connect: a valid connection is taken if there is   *)
(* one, those that were not tried yet are tried, those that failed never   *)
(* again.                                                                  *)
(***************************************************************************)
Valid(as, p) == {a \in as : connections[<<a, p>>] = "valid"}
Untried(as, p) == {a \in as : connections[<<a, p>>] = "untried"}

\* get_client: a client is remembered by its address, whatever its proxy.
ClientProxy(a, p) == IF clients[a] = "none" THEN p ELSE clients[a]

CanReach(a, p) == <<a, p>> \in Routes /\ OwnerOf[a] \in running /\ (p = NoMachine \/ p \in running)

\* The host that the client of a valid connection leads to.
Remembered(a, p) == OwnerOf[a]

\* Connects to one of the addresses from p; then goes to stage found.
TryConnecting(as, p, found) ==
  IF Valid(as, p) # {}
  THEN /\ \E a \in Valid(as, p) : reached' = Remembered(a, p)
       /\ stage' = found
       /\ UNCHANGED known
  ELSE \E a \in Untried(as, p) :
         /\ clients' = [clients EXCEPT ![a] = ClientProxy(a, p)]
         /\ IF CanReach(a, ClientProxy(a, p))
            THEN /\ connections' = [connections EXCEPT ![<<a, p>>] = "valid"]
                 /\ reached' = OwnerOf[a]
                 /\ stage' = found
            ELSE /\ connections' = [connections EXCEPT ![<<a, p>>] = "failed"]
                 /\ UNCHANGED <<reached, stage>>

\* Variant: the first address that fails is the last one.
FirstFailed(as, p) == Valid(as, p) = {} /\ \E a \in as : connections[<<a, p>>] = "failed"

Hopeless(as, p) == Valid(as, p) = {} /\ Untried(as, p) = {}

ConnectDirectly ==
  /\ stage = "direct"
  /\ TryConnecting(Wanted.addresses, NoMachine, "add")
  /\ UNCHANGED <<world, registry, ready, wasCleaned, next, proxies>>

LookForProxies ==
  /\ stage = "direct"
  /\ Wanted.addresses # {} /\ Hopeless(Wanted.addresses, NoMachine)
  /\ stage' = "proxy"
  /\ proxies' = {n.host : n \in nodes}
  /\ UNCHANGED <<world, registry, known, ready, wasCleaned, next, reached>>

ConnectByProxy(p) ==
  /\ stage = "proxy" /\ p \in proxies
  /\ TryConnecting(Wanted.addresses, p, "proxied")
  /\ UNCHANGED <<world, registry, ready, wasCleaned, next, proxies>>

NextProxy(p) ==
  /\ stage = "proxy" /\ p \in proxies
  /\ Hopeless(Wanted.addresses, p)
  /\ proxies' = proxies \ {p}
  /\ UNCHANGED <<world, registry, known, ready, wasCleaned, next, stage, reached>>

NoProxyLeft ==
  /\ stage = "proxy" /\ proxies = {}
  /\ stage' = "unreachable"
  /\ UNCHANGED <<world, registry, known, ready, wasCleaned, next, proxies, reached>>

\* The addresses that the host tells of may do without a proxy.
DoWithoutProxy ==
  /\ stage = "proxied" /\ reached \in running
  /\ IF Hopeless(AddressesOf(reached), NoMachine)
     THEN stage' = "add" /\ UNCHANGED <<known, reached>>
     ELSE TryConnecting(AddressesOf(reached), NoMachine, "add")
  /\ UNCHANGED <<world, registry, ready, wasCleaned, next, proxies>>
-----------------------------------------------------------------------------
\* _add_node: the addresses of the host are asked for; an address keeps the node
\* that had it first.
AddNode ==
  /\ stage = "add" /\ reached \in running
  /\ LET name == NodeName(IF Wanted.hostname # NoName THEN Wanted.hostname ELSE <<reached, "short">>)
         all == Wanted.addresses \cup AddressesOf(reached)
     IN /\ nodes' = IF name \in Names
                    THEN nodes
                    ELSE nodes \cup {[name |-> name, host |-> reached, addresses |-> all]}
        /\ byAddress' = [a \in Addresses |-> IF a \in all /\ byAddress[a] = NoName
                                             THEN name ELSE byAddress[a]]
        /\ JoinGroup(name)
  /\ Advance
  /\ UNCHANGED <<world, known>>

\* cleanup_fixture: the connections it cleans up are those of another manager
\* than the one ssh_connect uses.
Forget ==
  /\ nodes' = {}
  /\ byAddress' = [a \in Addresses |-> NoName]
  /\ groups' = [g \in Groups |-> {}]

CleanUpTopology ==
  /\ stage = "idle" /\ ready
  /\ Forget
  /\ ready' = FALSE /\ wasCleaned' = TRUE
  /\ UNCHANGED <<world, known, progress>>

\* Variant: no node has to be reached.
Anyway == TRUE

MayBeMissing == Wanted.optional

SkipNode ==
  /\ stage = "unreachable" /\ MayBeMissing
  /\ Advance
  /\ UNCHANGED <<world, registry, known>>

\* The set-up fails and is cleaned up, unless it was before.
FailDiscovery ==
  /\ \/ stage = "unreachable" /\ ~MayBeMissing
     \/ stage \in {"proxied", "add"} /\ reached \notin running
     \/ stage = "direct" /\ Wanted.addresses = {}
  /\ IF wasCleaned THEN UNCHANGED registry ELSE Forget
  /\ wasCleaned' = TRUE /\ stage' = "idle"
  /\ UNCHANGED <<world, known, ready, next, proxies, reached>>
-----------------------------------------------------------------------------
TopologyNext ==
  \/ \E h \in Machines : GoesDown(h) \/ ComesUp(h)
  \/ Discover \/ AlreadyKnown \/ NotKnown \/ ConnectByName \/ ConnectDirectly
  \/ LookForProxies \/ NoProxyLeft \/ DoWithoutProxy
  \/ \E p \in Machines : ConnectByProxy(p) \/ NextProxy(p)
  \/ AddNode \/ CleanUpTopology \/ SkipNode \/ FailDiscovery

TopologySpec == TopologyInit /\ [][TopologyNext]_topologyVars
-----------------------------------------------------------------------------
\* A host has one node, whatever address or form of its name it is found by; an
\* address of a node leads to it, and what the groups and the addresses refer to
\* are nodes, after any number of discoveries that fail or are cleaned up
\* (add_node, node_name_from_hostname, cleanup_fixture).
IndexesAgree ==
  /\ \A n, m \in nodes : n.host = m.host => n = m
  /\ \A n \in nodes : \A a \in n.addresses : byAddress[a] = n.name
  /\ \A a \in Addresses : byAddress[a] # NoName => \E n \in nodes : n.name = byAddress[a]
  /\ \A g \in Groups : groups[g] \subseteq Names

\* A host is given up only if there is no direct route to it, or it has been down
\* at any time before (connect, _ssh_connect).
UnreachableIsReal ==
  stage = "unreachable" =>
    \A a \in Wanted.addresses : <<a, NoMachine>> \in Routes => OwnerOf[a] \in wasDown

\* "Try connecting through a proxy node" (_ssh_connect): a host is given up only
\* if no node that is known has a route to it, or one on the way has been down.
ProxiesAreUsed ==
  stage = "unreachable" =>
    \A a \in Wanted.addresses, n \in nodes :
      <<a, n.host>> \in Routes => {n.host, OwnerOf[a]} \cap wasDown # {}

\* A discovery that succeeds has found every node but endpoints that cannot be
\* reached, and has put it in its group (discover_controller_nodes,
\* discover_compute_nodes).
NothingMissing ==
  ready => \A i \in DOMAIN Plan :
             \/ Plan[i].optional
             \/ \E n \in nodes : /\ \/ n.host \in {OwnerOf[a] : a \in Plan[i].addresses}
                                    \/ /\ Plan[i].hostname # NoName
                                       /\ n.name = NodeName(Plan[i].hostname)
                                 /\ Plan[i].group # "none" => n.name \in groups[Plan[i].group]
=============================================================================
