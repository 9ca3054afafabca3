---------------------------- MODULE LoadBalancers ----------------------------
(***************************************************************************)
(* Load balancers that tests share by name (openstack/octavia/             *)
(* _deployers.py, _waiters.py): under an inter-worker lock each part is    *)
(* looked up by its name, or else created and waited for.  Octavia refuses *)
(* to change a load balancer that is being changed.  A health monitor is   *)
(* added without the lock, and without a wait.                             *)
(***************************************************************************)
EXTENDS Integers

CONSTANTS Deployers,      \* workers
          MaxBackends,    \* bound: servers of a deployment
          MaxDeployments, \* bound: deployments
          MaxTroubles     \* bound: errors of Octavia, late answers, deaths

ASSUME LoadBalancersAssumption ==
  /\ "nobody" \notin Deployers
  /\ MaxBackends \in Nat /\ MaxDeployments \in Nat /\ MaxTroubles \in Nat

VARIABLES
  dual,         \* is it deploy_dual_stack_ovn_lb?
  present,      \* parts that exist
  provisioning, \* provisioning_status of the load balancer
  vip6,         \* has it got an IPv6 address?
  monitored,    \* is there a health monitor?
  monitoring,   \* is the load balancer changed for the sake of it?
  deployLock,   \* the worker that deploys
  phase,        \* control point of a worker
  part,         \* the part it deploys
  backends,     \* the number of its servers
  deployments,  \* deployments so far
  troubles,     \* errors, late answers and deaths so far
  twice         \* history: has a part been created twice?

octavia == <<present, provisioning, vip6, monitored, monitoring>>
deployerVars == <<phase, part, backends>>
lbVars == <<dual, octavia, deployLock, deployerVars, deployments, troubles, twice>>

\* Load balancer, listener, pool, and then a member for each server, or two.
LB == 1
Pool == 3
PartsOf(n) == Pool + (IF dual THEN 2 * n ELSE n)
MostParts == Pool + 2 * MaxBackends

LoadBalancersTypeOK ==
  /\ dual \in BOOLEAN
  /\ present \in SUBSET (1 .. MostParts)
  /\ provisioning \in {"none", "PENDING", "ACTIVE", "ERROR"}
  /\ vip6 \in BOOLEAN /\ monitored \in BOOLEAN /\ monitoring \in BOOLEAN
  /\ deployLock \in Deployers \cup {"nobody"}
  /\ phase \in [Deployers -> {"idle", "locking", "find", "create", "wait", "vip", "leave",
                              "failed", "deployed", "monitor", "dead"}]
  /\ part \in [Deployers -> 1 .. MostParts + 1]
  /\ backends \in [Deployers -> 0 .. MaxBackends]
  /\ deployments \in 0 .. MaxDeployments /\ troubles \in 0 .. MaxTroubles
  /\ twice \in BOOLEAN

LoadBalancersInit ==
  /\ dual \in BOOLEAN
  /\ present = {} /\ provisioning = "none" /\ vip6 = FALSE
  /\ monitored = FALSE /\ monitoring = FALSE
  /\ deployLock = "nobody"
  /\ phase = [w \in Deployers |-> "idle"] /\ part = [w \in Deployers |-> LB]
  /\ backends = [w \in Deployers |-> 0]
  /\ deployments = 0 /\ troubles = 0 /\ twice = FALSE

InPhase(w, p) == phase[w] = p
To(w, p) == phase' = [phase EXCEPT ![w] = p]
NextPart(w) == part' = [part EXCEPT ![w] = @ + 1]
Trouble == troubles < MaxTroubles /\ troubles' = troubles + 1
-----------------------------------------------------------------------------
(***************************************************************************)
(* Octavia: each change makes the load balancer pending until it is done.  *)
(***************************************************************************)
OctaviaCompletes ==
  /\ provisioning = "PENDING"
  /\ provisioning' = "ACTIVE" /\ monitoring' = FALSE
  /\ UNCHANGED <<dual, present, vip6, monitored, deployLock, deployerVars, deployments, troubles, twice>>

OctaviaFails ==
  /\ provisioning = "PENDING" /\ Trouble
  /\ provisioning' = "ERROR"
  /\ UNCHANGED <<dual, present, vip6, monitored, monitoring, deployLock, deployerVars, deployments, twice>>

AllocateVip6 ==
  /\ dual /\ LB \in present /\ ~vip6
  /\ vip6' = TRUE
  /\ UNCHANGED <<dual, present, provisioning, monitored, monitoring, deployLock, deployerVars,
                 deployments, troubles, twice>>

Changeable(p) == p = LB \/ provisioning = "ACTIVE"
-----------------------------------------------------------------------------
(***************************************************************************)
(* deploy_ipv4_lb and deploy_dual_stack_ovn_lb                             *)
(***************************************************************************)
Deploy(w, n) ==
  /\ InPhase(w, "idle")
  /\ deployments < MaxDeployments /\ deployments' = deployments + 1
  /\ backends' = [backends EXCEPT ![w] = n]
  /\ part' = [part EXCEPT ![w] = LB]
  /\ To(w, "locking")
  /\ UNCHANGED <<dual, octavia, deployLock, troubles, twice>>

\* Variant: each worker deploys without regard to the others.
Unsynched(w) == TRUE

Free(w) == deployLock = "nobody"

Synched(w) ==
  /\ InPhase(w, "locking") /\ Free(w)
  /\ deployLock' = w
  /\ To(w, "find")
  /\ UNCHANGED <<dual, octavia, part, backends, deployments, troubles, twice>>

\* What is found is taken as it is, but for a load balancer without an IPv6 address
\* (ensure_dual_stack_ovn_load_balancer).
FindPart(w) ==
  /\ InPhase(w, "find")
  /\ LET p == part[w]
     IN IF p > PartsOf(backends[w])
        THEN To(w, IF dual THEN "vip" ELSE "leave") /\ UNCHANGED part
        ELSE IF p \notin present
        THEN To(w, "create") /\ UNCHANGED part
        ELSE IF p = LB /\ dual /\ ~vip6
        THEN To(w, "vip") /\ UNCHANGED part
        ELSE NextPart(w) /\ UNCHANGED phase
  /\ UNCHANGED <<dual, octavia, deployLock, backends, deployments, troubles, twice>>

CreatePart(w) ==
  /\ InPhase(w, "create")
  /\ IF Changeable(part[w])
     THEN /\ present' = present \cup {part[w]}
          /\ provisioning' = "PENDING"
          /\ twice' = (twice \/ part[w] \in present)
          /\ To(w, "wait")
     ELSE To(w, "failed") /\ UNCHANGED <<present, provisioning, twice>>
  /\ UNCHANGED <<dual, vip6, monitored, monitoring, deployLock, part, backends, deployments, troubles>>

\* wait_for_status
Provisioned(w) ==
  /\ InPhase(w, "wait") /\ provisioning = "ACTIVE"
  /\ NextPart(w) /\ To(w, "find")
  /\ UNCHANGED <<dual, octavia, deployLock, backends, deployments, troubles, twice>>

\* wait_for_ipv6_additional_vip, of a load balancer that was found or at the end
HasVip6(w) ==
  /\ InPhase(w, "vip") /\ vip6
  /\ IF part[w] = LB THEN NextPart(w) /\ To(w, "find") ELSE To(w, "leave") /\ UNCHANGED part
  /\ UNCHANGED <<dual, octavia, deployLock, backends, deployments, troubles, twice>>

\* The check timeout passes; an error is not told from what takes long.
GivesUp(w) ==
  /\ \/ InPhase(w, "wait") /\ provisioning # "ACTIVE"
     \/ InPhase(w, "vip") /\ ~vip6
  /\ IF provisioning = "ERROR" THEN UNCHANGED troubles ELSE Trouble
  /\ To(w, "failed")
  /\ UNCHANGED <<dual, octavia, deployLock, part, backends, deployments, twice>>

LeaveDeployment(w) ==
  /\ InPhase(w, "leave") \/ InPhase(w, "failed")
  /\ deployLock' = "nobody"
  /\ To(w, IF InPhase(w, "leave") THEN "deployed" ELSE "idle")
  /\ UNCHANGED <<dual, octavia, part, backends, deployments, troubles, twice>>

\* The lock is released with the process.
DeployerDies(w) ==
  /\ deployLock = w /\ Trouble
  /\ deployLock' = "nobody" /\ To(w, "dead")
  /\ UNCHANGED <<dual, octavia, part, backends, deployments, twice>>
-----------------------------------------------------------------------------
(***************************************************************************)
(* deploy_hm, of a pool that the test has deployed                         *)
(***************************************************************************)
\* It looks for a monitor by one name and creates it by another: one that is
\* there may not be found.
FindMonitor(w) ==
  /\ InPhase(w, "deployed")
  /\ (monitored /\ To(w, "idle")) \/ To(w, "monitor")
  /\ UNCHANGED <<dual, octavia, deployLock, part, backends, deployments, troubles, twice>>

\* A pool has one health monitor; the second one is refused.
CreateMonitor(w) ==
  /\ InPhase(w, "monitor")
  /\ IF provisioning = "ACTIVE" /\ ~monitored
     THEN monitored' = TRUE /\ monitoring' = TRUE /\ provisioning' = "PENDING"
     ELSE UNCHANGED <<monitored, monitoring, provisioning>>
  /\ To(w, "idle")
  /\ UNCHANGED <<dual, present, vip6, deployLock, part, backends, deployments, troubles, twice>>

WithoutMonitor(w) ==
  /\ InPhase(w, "deployed")
  /\ To(w, "idle")
  /\ UNCHANGED <<dual, octavia, deployLock, part, backends, deployments, troubles, twice>>
-----------------------------------------------------------------------------
LoadBalancersNext ==
  \/ OctaviaCompletes \/ OctaviaFails \/ AllocateVip6
  \/ \E w \in Deployers :
       \/ \E n \in 0 .. MaxBackends : Deploy(w, n)
       \/ Synched(w) \/ FindPart(w) \/ CreatePart(w) \/ Provisioned(w) \/ HasVip6(w)
       \/ GivesUp(w) \/ LeaveDeployment(w) \/ DeployerDies(w)
       \/ FindMonitor(w) \/ CreateMonitor(w) \/ WithoutMonitor(w)

LoadBalancersSpec == LoadBalancersInit /\ [][LoadBalancersNext]_lbVars
-----------------------------------------------------------------------------
\* No part is ever created twice.  Unless Octavia or a worker fails, or a health
\* monitor is just being added, no change is asked of a load balancer that is being
\* changed, whoever deploys at the same time, and what a deployment returns is
\* there and ready, whoever has created it (deploy_ipv4_lb,
\* deploy_dual_stack_ovn_lb, interworker_synched, wait_for_status).
DeploymentsWork ==
  /\ ~twice
  /\ \A w \in Deployers :
       /\ InPhase(w, "create") => Changeable(part[w]) \/ monitoring \/ troubles > 0
       /\ InPhase(w, "leave") =>
            /\ 1 .. PartsOf(backends[w]) \subseteq present
            /\ dual => vip6
            /\ provisioning = "ACTIVE" \/ monitoring \/ troubles > 0
=============================================================================
