------------------------------- MODULE Reboot -------------------------------
(***************************************************************************)
(* reboot_host (tobiko/shell/sh/_reboot.py): a host is told to reboot over *)
(* SSH, pinged until it stops answering, and asked for its uptime until it *)
(* has been up for less time than has passed since the command.  Time      *)
(* goes on, and the host may go down or come up, at every point.           *)
(***************************************************************************)
EXTENDS Integers

CONSTANTS NotSet,         \* a timeout or a time that is not set
          RebootTimeouts, \* values of timeout
          DefaultWait,    \* default_wait_timeout
          WaitCount,      \* default_wait_count
          WaitInterval,   \* default_wait_interval
          PingTime,       \* how long the host is pinged
          StepTime,       \* bound: how long a step may take
          FirstBoots      \* bound: when the host may have booted before

ASSUME RebootAssumption ==
  /\ NotSet \notin Int
  /\ RebootTimeouts \subseteq Nat \cup {NotSet}
  /\ {DefaultWait, WaitCount, WaitInterval, PingTime, StepTime} \subseteq Nat \ {0}
  /\ FirstBoots \subseteq {n \in Int : n <= 0}

VARIABLES
  now,        \* the time
  reachable,  \* does the host answer?
  booted,     \* when the host booted last
  pending,    \* is the host about to go down?
  timeout,    \* RebootHostOperation.timeout
  started,    \* RebootHostOperation.start_time
  rebooted,   \* RebootHostOperation.is_rebooted
  stage,      \* control point
  begun,      \* start_time of the retry loop
  waitLimit,  \* timeout of the retry loop
  attempt,    \* attempt.number
  waited,     \* attempt.elapsed_time
  due,        \* when the step may end at the earliest and at the latest
  uptime,     \* what the host said
  since,      \* history: has the host booted since the command was sent?
  longUp      \* history: had it been up for a step when it was sent?

host == <<reachable, booted, pending>>
operation == <<timeout, started, rebooted>>
loop == <<begun, waitLimit, attempt, waited>>
past == <<since, longUp>>
rebootVars == <<now, host, operation, stage, loop, due, uptime, past>>

RebootTypeOK ==
  /\ now \in Nat
  /\ reachable \in BOOLEAN /\ pending \in BOOLEAN
  /\ booted \in Int /\ booted <= now
  /\ timeout \in RebootTimeouts
  /\ started \in {NotSet} \cup (0 .. now)
  /\ rebooted \in BOOLEAN
  /\ stage \in {"connect", "send", "unable", "ping", "read", "compare", "sleep_connect",
                "sleep_ping", "sleep_read", "done", "failed"}
  /\ begun \in 0 .. now /\ waited \in 0 .. now - begun
  /\ waitLimit \in Nat \ {0}
  /\ attempt \in Nat \ {0}
  /\ due \in [from : Nat, to : Nat] /\ now <= due.to
  /\ uptime \in Nat
  /\ since \in BOOLEAN /\ longUp \in BOOLEAN

Working == [from |-> 0, to |-> now + StepTime]

\* A timeout that is not set, or zero, is the default.
OrDefault(t) == IF t = NotSet \/ t = 0 THEN DefaultWait ELSE t

RebootInit ==
  /\ now = 0
  /\ reachable \in BOOLEAN
  /\ booted \in FirstBoots
  /\ pending = FALSE
  /\ timeout \in RebootTimeouts
  /\ started = NotSet
  /\ rebooted = FALSE
  /\ stage = "connect"
  /\ begun = 0 /\ waitLimit = OrDefault(timeout) /\ attempt = 1 /\ waited = 0
  /\ due = Working
  /\ uptime = 0
  /\ since = FALSE /\ longUp = FALSE
-----------------------------------------------------------------------------
(***************************************************************************)
(* The host, and the time.                                                 *)
(***************************************************************************)
Over == stage \in {"done", "failed"}

Tick ==
  /\ ~Over
  /\ now < due.to
  /\ now' = now + 1
  /\ UNCHANGED <<host, operation, stage, loop, due, uptime, past>>

HostGoesDown ==
  /\ ~Over
  /\ pending
  /\ reachable' = FALSE /\ pending' = FALSE /\ booted' = booted
  /\ UNCHANGED <<now, operation, stage, loop, due, uptime, past>>

HostBoots ==
  /\ ~Over
  /\ ~reachable
  /\ reachable' = TRUE /\ booted' = now /\ since' = TRUE
  /\ UNCHANGED <<now, pending, operation, stage, loop, due, uptime, longUp>>
-----------------------------------------------------------------------------
(***************************************************************************)
(* The retry loop (tobiko/common/_retry.py): the limits count at the end   *)
(* of an attempt, then it sleeps to the next multiple of the interval.     *)
(***************************************************************************)
Proceed(s) == stage' = s /\ due' = Working

BeginLoop(s, time) ==
  /\ Proceed(s)
  /\ begun' = now /\ waitLimit' = time /\ attempt' = 1 /\ waited' = 0

TimeLeft == IF waitLimit > waited THEN waitLimit - waited ELSE 0

LastAttempt(count) == attempt = count \/ TimeLeft = 0

TimeToSleep ==
  LET t == attempt * WaitInterval - (now - begun) IN IF t > 0 THEN t ELSE 0

Sleep(s) ==
  /\ stage' = s
  /\ due' = IF TimeLeft > TimeToSleep
            THEN [from |-> now + TimeToSleep, to |-> now + TimeToSleep]
            ELSE [from |-> now, to |-> now]
  /\ UNCHANGED loop

Wake ==
  /\ stage \in {"sleep_connect", "sleep_ping", "sleep_read"}
  /\ now >= due.from
  /\ attempt' = attempt + 1
  /\ waited' = now - begun
  /\ Proceed(CASE stage = "sleep_connect" -> "connect"
               [] stage = "sleep_ping"    -> "ping"
               [] stage = "sleep_read"    -> "read")
  /\ UNCHANGED <<now, host, operation, begun, waitLimit, uptime, past>>
-----------------------------------------------------------------------------
(***************************************************************************)
(* run_operation.                                                          *)
(***************************************************************************)
\* A timeout of zero is refused by the parameters of the SSH client.
Connect ==
  /\ stage = "connect"
  /\ \/ reachable /\ TimeLeft > 0 /\ started' = now /\ Proceed("send")
     \/ ~reachable /\ started' = started /\ Proceed("unable")
     \/ TimeLeft = 0 /\ started' = started /\ Proceed("unable")
  /\ UNCHANGED <<now, host, timeout, rebooted, loop, uptime, past>>

SendCommand ==
  /\ stage = "send"
  /\ reachable
  /\ pending' = TRUE
  /\ since' = FALSE
  /\ longUp' = (started - booted >= StepTime)
  /\ BeginLoop("ping", PingTime)
  /\ UNCHANGED <<now, reachable, booted, operation, uptime>>

\* The host may have taken the command all the same.
SendFails ==
  /\ stage = "send"
  /\ pending' \in {pending, pending \/ reachable}
  /\ Proceed("unable")
  /\ UNCHANGED <<now, reachable, booted, operation, loop, uptime, past>>

ConnectAgain ==
  /\ stage = "unable"
  /\ IF LastAttempt(WaitCount) THEN Proceed("failed") /\ UNCHANGED loop ELSE Sleep("sleep_connect")
  /\ UNCHANGED <<now, host, operation, uptime, past>>
-----------------------------------------------------------------------------
(***************************************************************************)
(* wait_for_ping_hosts: that the host went on answering is passed over.    *)
(***************************************************************************)
WaitTimeout ==
  IF timeout = NotSet THEN NotSet
  ELSE IF timeout > now - started THEN timeout - (now - started) ELSE 0

BeginWait == BeginLoop("read", OrDefault(WaitTimeout))

\* A ping takes some time, and its answer may be lost.
Ping ==
  /\ stage = "ping"
  /\ now > begun + waited
  /\ \/ BeginWait
     \/ reachable /\ TimeLeft > 0 /\ Sleep("sleep_ping")
  /\ UNCHANGED <<now, host, operation, uptime, since, longUp>>
-----------------------------------------------------------------------------
(***************************************************************************)
(* wait_for_operation: the uptime takes time to arrive.                    *)
(***************************************************************************)
ReadAgain ==
  IF LastAttempt(WaitCount) THEN Proceed("failed") /\ UNCHANGED loop ELSE Sleep("sleep_read")

ReadUptime ==
  /\ stage = "read"
  /\ reachable
  /\ uptime' = now - booted
  /\ Proceed("compare")
  /\ UNCHANGED <<now, host, operation, loop, past>>

ReadFails ==
  /\ stage = "read"
  /\ ReadAgain
  /\ UNCHANGED <<now, host, operation, uptime, past>>

\* Variant: an uptime of just the time that has passed will do.
NotLonger == uptime <= now - started

UpForLess == uptime < now - started

Compare ==
  /\ stage = "compare"
  /\ rebooted' = UpForLess
  /\ IF UpForLess THEN Proceed("done") /\ UNCHANGED loop ELSE ReadAgain
  /\ UNCHANGED <<now, host, timeout, started, uptime, past>>

RebootEnded == Over /\ UNCHANGED rebootVars
-----------------------------------------------------------------------------
RebootStep ==
  \/ Wake \/ Connect \/ SendCommand \/ SendFails \/ ConnectAgain
  \/ Ping \/ ReadUptime \/ ReadFails \/ Compare

RebootNext == Tick \/ HostGoesDown \/ HostBoots \/ RebootStep \/ RebootEnded

RebootSpec == RebootInit /\ [][RebootNext]_rebootVars
-----------------------------------------------------------------------------
\* A host that had been up for longer than its answer takes when it was told to
\* reboot, and that is taken for rebooted, has booted since
\* (wait_for_operation).
RebootedMeansBooted == rebooted /\ longUp => since
=============================================================================
