------------------------------ MODULE MCWaits ------------------------------
(***************************************************************************)
(* The machines that ask until something is so, or until they give up:     *)
(* the retry loop, a run of a background monitor, the reboot of a host,    *)
(* changes of the status of a server, the set-up of an image and the       *)
(* deployment of a load balancer.  They share no state: a behaviour is one *)
(* of the machine that is chosen at first, the others stay at rest.        *)
(***************************************************************************)
EXTENDS Retry, Monitors, Reboot, Servers, Images, LoadBalancers

LOCAL INSTANCE TLC

MCCounts == {None, 1, 3}
MCTimeouts == {None, 0, 1, 4, 7}
MCSleepTimes == {None, 0, 2, 9}
MCIntervals == {None, 1, 3}
MCRebootTimeouts == {NotSet, 3}
MCFirstBoots == {-5, 0}

\* The workers that share a server are alike.
MCSymmetry == Permutations(Users)

VARIABLE system

ofTobiko == <<vars, monitorVars, rebootVars>>
ofTheCloud == <<serverVars, imageVars, lbVars>>
waitsVars == <<system, ofTobiko, ofTheCloud>>

\* At rest a machine is in one of its initial states.
RetryAtRest ==
  /\ limit = [count |-> 1, timeout |-> None, sleep_time |-> None, interval |-> None]
  /\ ready = 0

RebootAtRest == timeout = NotSet /\ reachable = TRUE /\ booted = 0

ImagesAtRest == images[1] = "free" /\ sized = TRUE /\ preventImageCreate = FALSE

ServersAtRest == server = 0 /\ floating = FALSE

WaitsInit ==
  /\ system \in {"retry", "monitor", "reboot", "server", "image", "lb"}
  /\ system = "retry" \/ RetryAtRest
  /\ system = "monitor" \/ kind = "file"
  /\ system = "reboot" \/ RebootAtRest
  /\ Init /\ MonitorsInit /\ RebootInit /\ ServersInit /\ ImagesInit /\ LoadBalancersInit
  /\ system = "server" \/ ServersAtRest
  /\ system = "image" \/ ImagesAtRest
  /\ system = "lb" \/ dual = FALSE

\* All but the loop and the reboot may be left as they are for ever.
Rest == system \in {"monitor", "server", "image", "lb"} /\ UNCHANGED waitsVars

WaitsNext ==
  \/ /\ system' = system
     /\ \/ /\ UNCHANGED ofTheCloud
           /\ \/ system = "retry" /\ Next /\ UNCHANGED <<monitorVars, rebootVars>>
              \/ system = "monitor" /\ MonitorsNext /\ UNCHANGED <<vars, rebootVars>>
              \/ system = "reboot" /\ RebootNext /\ UNCHANGED <<vars, monitorVars>>
        \/ /\ UNCHANGED ofTobiko
           /\ \/ system = "server" /\ ServersNext /\ UNCHANGED <<imageVars, lbVars>>
              \/ system = "image" /\ ImagesNext /\ UNCHANGED <<serverVars, lbVars>>
              \/ system = "lb" /\ LoadBalancersNext /\ UNCHANGED <<serverVars, imageVars>>
  \/ Rest

WaitsTypeOK ==
  /\ TypeOK /\ MonitorsTypeOK /\ RebootTypeOK
  /\ ServersTypeOK /\ ImagesTypeOK /\ LoadBalancersTypeOK

WaitsSpec == WaitsInit /\ [][WaitsNext]_waitsVars
=============================================================================
