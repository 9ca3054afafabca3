----------------------------- MODULE SSHClients -----------------------------
(***************************************************************************)
(* tobiko/shell/ssh/_client.py and the remote half of tobiko/shell/sh: a   *)
(* command is executed on a host through the SSH client of the host, which *)
(* is connected on demand, if need be through the client of another host,  *)
(* its proxy, and kept for the calls that follow.  Connections get lost    *)
(* and hosts go down at any time; no two calls are made at once.           *)
(***************************************************************************)
EXTENDS Integers, Sequences

CONSTANTS Hosts,       \* hosts commands are executed on
          NoHost,      \* no proxy
          ProxyOf,     \* the host through which a host is reached
          Attempts,    \* attempts of create_process
          Tries,       \* retry_count of connect
          Logins,      \* connection_attempts of the SSH configuration
          MaxLosses    \* bound: lost connections and hosts that go down

\* No host is reached through itself.
ASSUME SSHClientsAssumption ==
  /\ NoHost \notin Hosts
  /\ ProxyOf \in [Hosts -> Hosts \cup {NoHost}]
  /\ \A S \in (SUBSET Hosts) \ {{}} : \E h \in S : ProxyOf[h] \notin S
  /\ Attempts \in Nat \ {0, 1} /\ Tries \in Nat \ {0} /\ Logins \in Nat \ {0}
  /\ MaxLosses \in Nat

VARIABLES
  up,       \* hosts that can be reached from their proxy, or from here
  connected,    \* clients that are set up (the flag of SharedFixture)
  alive,    \* clients whose connection works
  socks,    \* open channels by which a host is reached through its proxy
  calls,    \* hosts whose connect() is in progress, the outermost first
  at,       \* control point of the innermost connect()
  attempt,  \* attempt of create_process
  tries,    \* attempt of connect(), by host
  logins,   \* attempt of ssh_connect(), by host
  outcome,  \* of the last command
  losses,   \* connections lost so far
  trouble,  \* history: was a host down, or a connection lost, in the call?
  stale     \* history: was the client of a proxy dead when the call began?

wires == <<up, connected, alive, socks>>
counters == <<attempt, tries, logins>>
sshVars == <<wires, calls, at, counters, outcome, losses, trouble, stale>>

Proxied(h) == ProxyOf[h] # NoHost

\* The hosts through which a host is reached, and itself.
Chain(h) ==
  {g \in Hosts : \A S \in SUBSET Hosts :
     h \in S /\ (\A x \in S : Proxied(x) => ProxyOf[x] \in S) => g \in S}

SSHTypeOK ==
  /\ up \in SUBSET Hosts /\ connected \in SUBSET Hosts
  /\ alive \in SUBSET connected
  /\ socks \in [Hosts -> Nat]
  /\ calls \in Seq(Hosts)
  /\ at \in {"idle", "connect", "login", "dial", "failed", "connected"}
  /\ at # "idle" => calls # << >>
  /\ attempt \in 1 .. Attempts
  /\ tries \in [Hosts -> 1 .. Tries] /\ logins \in [Hosts -> 1 .. Logins]
  /\ outcome \in {"none", "done", "failed"}
  /\ losses \in 0 .. MaxLosses
  /\ trouble \in BOOLEAN /\ stale \in BOOLEAN

SSHInit ==
  /\ up = Hosts
  /\ connected = {} /\ alive = {}
  /\ socks = [h \in Hosts |-> 0]
  /\ calls = << >>
  /\ at = "idle"
  /\ attempt = 1
  /\ tries = [h \in Hosts |-> 1] /\ logins = [h \in Hosts |-> 1]
  /\ outcome = "none"
  /\ losses = 0
  /\ trouble = FALSE /\ stale = FALSE
-----------------------------------------------------------------------------
(***************************************************************************)
(* The network: connections break, with all that runs through them.        *)
(***************************************************************************)
InCall(h) == at # "idle" /\ h \in Chain(calls[1])
Broken(h) == {g \in alive : h \in Chain(g)}

Disturb(h) ==
  /\ losses < MaxLosses
  /\ losses' = losses + 1
  /\ alive' = alive \ Broken(h)
  /\ trouble' = (trouble \/ InCall(h))
  /\ UNCHANGED <<connected, socks, calls, at, counters, outcome, stale>>

LoseConnection(h) == h \in alive /\ Disturb(h) /\ up' = up

GoDown(h) == h \in up /\ Disturb(h) /\ up' = up \ {h}

ComeUp(h) ==
  /\ h \notin up
  /\ up' = up \cup {h}
  /\ UNCHANGED <<connected, alive, socks, calls, at, counters, outcome, losses, trouble, stale>>
-----------------------------------------------------------------------------
(***************************************************************************)
(* close(): cleanup_ssh_client and cleanup_proxy_sock.                     *)
(***************************************************************************)
CloseConnection(h) ==
  /\ connected' = connected \ {h}
  /\ alive' = alive \ Broken(h)
  /\ socks' = [socks EXCEPT ![h] = 0]
  /\ up' = up

\* Variant: the client is not closed before it is connected again.
KeepOpen(h) == UNCHANGED wires

CloseBroken(h) == CloseConnection(h)

CloseClient(h) ==
  /\ at = "idle"
  /\ h \in connected
  /\ CloseConnection(h)
  /\ UNCHANGED <<calls, at, counters, outcome, losses, trouble, stale>>
-----------------------------------------------------------------------------
(***************************************************************************)
(* create_process of SSHShellProcessFixture.                               *)
(***************************************************************************)
Current == calls[Len(calls)]
Caller == calls[Len(calls) - 1]
Outermost == Len(calls) = 1
Return == SubSeq(calls, 1, Len(calls) - 1)

ExecuteOn(h) ==
  /\ at = "idle"
  /\ calls' = <<h>>
  /\ at' = "connect"
  /\ attempt' = 1
  /\ tries' = [tries EXCEPT ![h] = 1]
  /\ outcome' = "none"
  /\ trouble' = ~(Chain(h) \subseteq up)
  /\ stale' = (\E g \in Chain(h) \ {h} : g \in connected \ alive)
  /\ UNCHANGED <<wires, logins, losses>>

\* Any error closes the client; no more than a number of attempts.
CreateAgain ==
  /\ CloseBroken(Current)
  /\ IF attempt < Attempts
     THEN /\ attempt' = attempt + 1
          /\ tries' = [tries EXCEPT ![Current] = 1]
          /\ at' = "connect"
          /\ UNCHANGED <<calls, outcome>>
     ELSE /\ at' = "idle" /\ calls' = << >> /\ outcome' = "failed"
          /\ UNCHANGED <<attempt, tries>>
  /\ UNCHANGED <<logins, losses, trouble, stale>>

OpenSession ==
  /\ at = "connected" /\ Outermost
  /\ Current \in alive
  /\ at' = "idle" /\ calls' = << >> /\ outcome' = "done"
  /\ UNCHANGED <<wires, counters, losses, trouble, stale>>

FailSession ==
  /\ at = "connected" /\ Outermost
  /\ Current \notin alive
  /\ CreateAgain
-----------------------------------------------------------------------------
(***************************************************************************)
(* connect() of SSHClientFixture: a client that is set up is taken as it   *)
(* is.                                                                     *)
(***************************************************************************)
Connect ==
  /\ at = "connect"
  /\ at' = IF Current \in connected THEN "connected" ELSE "login"
  /\ logins' = [logins EXCEPT ![Current] = 1]
  /\ UNCHANGED <<wires, calls, attempt, tries, outcome, losses, trouble, stale>>

\* Variant: the attempts are not counted.
NeverLast == FALSE

LastTry == tries[Current] = Tries

ConnectAgain ==
  /\ at = "failed"
  /\ ~LastTry
  /\ CloseConnection(Current)
  /\ tries' = [tries EXCEPT ![Current] = IF @ < Tries THEN @ + 1 ELSE @]
  /\ at' = "connect"
  /\ UNCHANGED <<calls, attempt, logins, outcome, losses, trouble, stale>>

\* The error of a proxy is none the login loop of its caller catches.
ProxyFails ==
  /\ at = "failed" /\ ~Outermost
  /\ LastTry
  /\ calls' = Return
  /\ UNCHANGED <<wires, at, counters, outcome, losses, trouble, stale>>

ConnectFails ==
  /\ at = "failed" /\ Outermost
  /\ LastTry
  /\ CreateAgain
-----------------------------------------------------------------------------
(***************************************************************************)
(* ssh_connect and ssh_proxy_sock: a new channel for each login attempt,   *)
(* and one attempt only for a proxy.                                       *)
(***************************************************************************)
Login ==
  /\ at = "login"
  /\ IF Proxied(Current)
     THEN /\ calls' = Append(calls, ProxyOf[Current])
          /\ tries' = [tries EXCEPT ![ProxyOf[Current]] = 1]
          /\ at' = "connect"
     ELSE at' = "dial" /\ UNCHANGED <<calls, tries>>
  /\ UNCHANGED <<wires, attempt, logins, outcome, losses, trouble, stale>>

OpenChannel ==
  /\ at = "connected" /\ ~Outermost
  /\ Current \in alive
  /\ socks' = [socks EXCEPT ![Caller] = @ + 1]
  /\ calls' = Return
  /\ at' = "dial"
  /\ UNCHANGED <<up, connected, alive, counters, outcome, losses, trouble, stale>>

FailChannel ==
  /\ at = "connected" /\ ~Outermost
  /\ Current \notin alive
  /\ calls' = Return
  /\ at' = "failed"
  /\ UNCHANGED <<wires, counters, outcome, losses, trouble, stale>>

Reachable(h) == h \in up /\ (Proxied(h) => ProxyOf[h] \in alive)

LogIn ==
  /\ at = "dial"
  /\ Reachable(Current)
  /\ connected' = connected \cup {Current} /\ alive' = alive \cup {Current}
  /\ at' = "connected"
  /\ UNCHANGED <<up, socks, calls, counters, outcome, losses, trouble, stale>>

\* Variant: the channel is closed when all attempts have failed.
LeftOpen(h) == IF logins[h] < Logins THEN socks ELSE [socks EXCEPT ![h] = 0]

\* The finally clause.
ChannelClosed(h) == [socks EXCEPT ![h] = 0]

LoginLimit == IF Outermost THEN Logins ELSE 1

LoginFails ==
  /\ at = "dial"
  /\ ~Reachable(Current)
  /\ socks' = ChannelClosed(Current)
  /\ IF logins[Current] < LoginLimit
     THEN logins' = [logins EXCEPT ![Current] = @ + 1] /\ at' = "login"
     ELSE logins' = logins /\ at' = "failed"
  /\ UNCHANGED <<up, connected, alive, calls, attempt, tries, outcome, losses, trouble, stale>>
-----------------------------------------------------------------------------
CallStep ==
  \/ OpenSession \/ FailSession \/ Connect \/ ConnectAgain \/ ProxyFails \/ ConnectFails
  \/ Login \/ OpenChannel \/ FailChannel \/ LogIn \/ LoginFails

SSHNext ==
  \/ \E h \in Hosts : \/ ExecuteOn(h) \/ CloseClient(h)
                      \/ LoseConnection(h) \/ GoDown(h) \/ ComeUp(h)
  \/ CallStep

SSHSpec == SSHInit /\ [][SSHNext]_sshVars /\ WF_sshVars(CallStep)
-----------------------------------------------------------------------------
\* A command fails only if a host on its way was down, or a connection was
\* lost, in the course of the call, or the client of a proxy was dead before
\* (create_process, connect).
FailsOnlyInTrouble == outcome = "failed" => trouble \/ stale

\* "This retry is mostly intended to ensure connection is reestablished in
\* case it is lost" (connect): a command does not fail for a connection that
\* was lost before.
LostConnectionsReestablished == outcome = "failed" => trouble

\* The open channels are those of the clients that are set up and the one of a
\* login that is being made (ssh_connect, cleanup_proxy_sock).
NoChannelLeaks ==
  \A h \in Hosts :
    socks[h] = IF Proxied(h) /\ (h \in connected \/ (at = "dial" /\ Current = h)) THEN 1 ELSE 0

\* Every call comes to an end, whatever the network does.
CallsEnd == (at # "idle") ~> (at = "idle")
=============================================================================
