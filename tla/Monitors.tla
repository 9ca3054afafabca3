------------------------------ MODULE Monitors ------------------------------
(***************************************************************************)
(* The monitors that outlive a run of tobiko: a ping, an iperf3 client or  *)
(* a script that goes on between two runs and logs the outages it sees.    *)
(* Each run finds the monitor, checks its log and starts it again:         *)
(* check_or_start_background_process (a process of this host, known by a   *)
(* file of pids), check_or_start_external_process (a process on a server,  *)
(* found by its command line, or an iperf3 pod) and                        *)
(* check_or_start_tobiko_command (a pod).  One failing line in a log is    *)
(* one too many; lines are told apart by the outage they record.           *)
(***************************************************************************)
EXTENDS Integers, FiniteSets

CONSTANTS MonitorKinds, \* kinds of monitor a deployment may use
          CanDie,       \* may a monitor end by itself?
          SlowParent,   \* may a parent need more than its second?
          MaxRuns,      \* bound: runs of tobiko
          MaxOutages    \* bound: outages

Hosted == {"ping", "iperf", "script"}
External == Hosted \cup {"iperf_pod"}
CommandPods == {"pod", "http_pod"}
Pods == CommandPods \cup {"iperf_pod"}

ASSUME MonitorsAssumption ==
  /\ MonitorKinds \subseteq External \cup Pods \cup {"file"}
  /\ CanDie \in BOOLEAN /\ SlowParent \in BOOLEAN
  /\ MaxRuns \in Nat /\ MaxOutages \in Nat

VARIABLES
  kind,      \* the kind of monitor in use
  monitors,  \* state of the monitor that was started as the n-th
  recorded,  \* monitors whose pid is in the pids file
  written,   \* does the log have a line?
  log,       \* outages in the log
  step,      \* control point of the run
  prevent,   \* TOBIKO_PREVENT_CREATE
  found,     \* did the run find a monitor?
  failed,    \* has the run failed?
  listed,    \* pids to be killed
  copy,      \* outages read from the log
  runs,      \* runs begun
  outages,   \* outages so far
  unread,    \* history: logged, and no run failed since
  reported,  \* history: outages a run failed for
  lost,      \* history: has the last run passed over an outage?
  repeated   \* history: was an outage reported twice?

file == <<written, log>>
call == <<step, prevent, found, failed, listed, copy, runs>>
history == <<unread, reported, lost, repeated>>
monitorVars == <<kind, monitors, recorded, file, call, outages, history>>

Pids == 1 .. MaxRuns
Outages == 1 .. MaxOutages

MonitorsTypeOK ==
  /\ kind \in MonitorKinds
  /\ monitors \in [Pids -> {"unborn", "running", "dying", "exited", "gone"}]
  /\ recorded \in SUBSET Pids
  /\ written \in BOOLEAN
  /\ log \in SUBSET Outages
  /\ step \in {"idle", "look", "stop", "wait", "read", "rename", "kill",
               "delete", "start", "confirm", "end"}
  /\ prevent \in BOOLEAN /\ found \in BOOLEAN /\ failed \in BOOLEAN
  /\ listed \in SUBSET Pids
  /\ copy \in SUBSET Outages
  /\ runs \in 0 .. MaxRuns
  /\ outages \in 0 .. MaxOutages
  /\ unread \in SUBSET Outages /\ reported \in SUBSET Outages
  /\ lost \in BOOLEAN /\ repeated \in BOOLEAN

MonitorsInit ==
  /\ kind \in MonitorKinds
  /\ monitors = [p \in Pids |-> "unborn"]
  /\ recorded = {}
  /\ written = FALSE
  /\ log = {}
  /\ step = "idle"
  /\ prevent = FALSE /\ found = FALSE /\ failed = FALSE
  /\ listed = {}
  /\ copy = {}
  /\ runs = 0
  /\ outages = 0
  /\ unread = {} /\ reported = {}
  /\ lost = FALSE /\ repeated = FALSE

In(states) == {p \in Pids : monitors[p] \in states}
Running == In({"running"})
Alive == In({"running", "dying"})
-----------------------------------------------------------------------------
(***************************************************************************)
(* The monitor: it logs what it sees, may end by itself (a pod stays, no   *)
(* longer Running), and ends some time after it was told to.               *)
(***************************************************************************)
\* What the log holds has been read, and is about to go.
Racing == step \in {"rename", "delete"}

Log(o) ==
  /\ Running # {}
  /\ written' = TRUE
  /\ log' = log \cup o
  /\ unread' = IF Racing THEN unread ELSE unread \cup o
  /\ UNCHANGED <<kind, monitors, recorded, call, reported, lost, repeated>>

LogSuccess == ~written /\ Log({}) /\ UNCHANGED outages

LogOutage ==
  /\ outages < MaxOutages
  /\ outages' = outages + 1
  /\ Log({outages'})

\* Pods are not restarted.
DeadStatus == IF kind \in Pods THEN "exited" ELSE "gone"

MonitorEnds ==
  /\ \E p \in Alive :
       /\ monitors[p] = "running" => CanDie
       /\ monitors' = [monitors EXCEPT ![p] = DeadStatus]
  /\ UNCHANGED <<kind, recorded, file, call, outages, history>>
-----------------------------------------------------------------------------
(***************************************************************************)
(* Steps of a run.                                                         *)
(***************************************************************************)
Go(s) == step' = s /\ failed' = failed
FailInto(s) == step' = s /\ failed' = TRUE

BeginRun ==
  /\ step = "idle"
  /\ runs < MaxRuns
  /\ runs' = runs + 1
  /\ step' = "look"
  /\ prevent' \in BOOLEAN
  /\ found' = FALSE /\ failed' = FALSE /\ lost' = FALSE
  /\ UNCHANGED <<kind, monitors, recorded, file, listed, copy, outages, unread, reported, repeated>>

\* Variant: the limit is one that may be reached.
MoreThanOne(read) == Cardinality(read) > 1

TooMany(read) == read # {}

\* The run fails for what it read, if that is too much.
Judge(read) ==
  /\ failed' = TooMany(read)
  /\ unread' = IF TooMany(read) THEN unread \ read ELSE unread
  /\ reported' = IF TooMany(read) THEN reported \cup read ELSE reported
  /\ repeated' = (repeated \/ (TooMany(read) /\ read \cap reported # {}))
  /\ lost' = lost

\* The log is renamed, moved or removed.
Truncate == written' = FALSE /\ log' = {}

\* A new monitor, with the pid that follows; a ping that goes on is told to
\* end, and not waited for.
Launch(s) ==
  LET new == CHOOSE q \in In({"unborn"}) : \A r \in In({"unborn"}) : q <= r
  IN  monitors' = [p \in Pids |-> IF p = new THEN s
                                  ELSE IF kind = "ping" /\ p \in Alive THEN "dying"
                                  ELSE monitors[p]]
-----------------------------------------------------------------------------
(***************************************************************************)
(* check_or_start_external_process: ping and iperf insist on one process   *)
(* that matches; whatever fails, the monitor is started again.             *)
(***************************************************************************)
Match == IF kind = "iperf_pod" THEN Running ELSE Alive
Ambiguous == kind \in {"ping", "iperf"} /\ Cardinality(Match) > 1

Look ==
  /\ kind \in External
  /\ step = "look"
  /\ found' = (Match # {} /\ ~Ambiguous)
  /\ IF Ambiguous THEN FailInto("start") ELSE Go(IF Match = {} THEN "start" ELSE "stop")
  /\ UNCHANGED <<kind, monitors, recorded, file, prevent, listed, copy, runs, outages, history>>

\* Variant: the check does not wait for the process to end.
NoWait == "read"

AfterKill == IF kind = "ping" THEN "read" ELSE "wait"

\* The pid is looked up again: the process may be gone by then.
Signal ==
  /\ step = "stop"
  /\ monitors' = [p \in Pids |-> IF p \in Alive THEN "dying" ELSE monitors[p]]
  /\ Go(IF Alive = {} THEN "read" ELSE AfterKill)
  /\ UNCHANGED <<kind, recorded, file, prevent, found, listed, copy, runs, outages, history>>

StopPing == kind = "ping" /\ Signal
StopIperf == kind = "iperf" /\ Signal
StopScript == kind = "script" /\ Signal

\* wait_for_processes
WaitStopped ==
  /\ step = "wait"
  /\ \/ Alive = {} /\ Go("read")
     \/ Alive # {} /\ FailInto("start")
  /\ UNCHANGED <<kind, monitors, recorded, file, prevent, found, listed, copy, runs, outages, history>>

\* stop_iperf3_client of a pod stores the log of the pod, then deletes it.
StorePodLog ==
  /\ kind = "iperf_pod"
  /\ step = "stop"
  /\ copy' = log
  /\ IF written THEN Go("delete") ELSE FailInto("delete")
  /\ UNCHANGED <<kind, monitors, recorded, file, prevent, found, listed, runs, outages, history>>

\* A log that is not there, or empty, is none of a monitor that should have
\* been there before.
NothingRead(wrong) ==
  /\ failed' = wrong
  /\ UNCHANGED <<file, history>>

CheckLog ==
  /\ step = "read"
  /\ step' = "start"
  /\ UNCHANGED <<kind, monitors, recorded, prevent, found, listed, copy, runs, outages>>

\* check_ping_results: the ping must be over.
CheckPing ==
  /\ kind = "ping"
  /\ CheckLog
  /\ IF Alive # {} \/ ~written THEN NothingRead(Alive # {} \/ prevent) ELSE Judge(log) /\ Truncate

\* A log that cannot be downloaded is always a failure.
CheckIperf ==
  /\ kind = "iperf"
  /\ CheckLog
  /\ IF written THEN Judge(log) /\ Truncate
     ELSE \E missing \in BOOLEAN : NothingRead(missing \/ prevent)

\* check_http_ping_results: the log is copied, which removes it there.
CheckScript ==
  /\ kind = "script"
  /\ CheckLog
  /\ IF written THEN Judge(log) /\ Truncate ELSE NothingRead(TRUE)

\* The same, of the stored log.
CheckStored ==
  /\ kind = "iperf_pod"
  /\ step = "read"
  /\ step' = "start"
  /\ IF failed THEN failed' = TRUE /\ UNCHANGED history ELSE Judge(copy)
  /\ copy' = {}
  /\ UNCHANGED <<kind, monitors, recorded, file, prevent, found, listed, runs, outages>>

\* The start in the finally clause.
StartStep ==
  /\ step = "start"
  /\ UNCHANGED <<kind, recorded, prevent, found, listed, copy, runs, outages, history>>

\* execute_ping_in_background: the old log goes first; a second ping that
\* matches is an error.
StartPing ==
  /\ kind = "ping"
  /\ StartStep
  /\ Truncate
  /\ IF Ambiguous THEN FailInto("end") /\ UNCHANGED monitors ELSE Launch("running") /\ Go("confirm")

\* execute_iperf3_client_in_background: the server may not come up.
StartIperf ==
  /\ kind = "iperf"
  /\ StartStep
  /\ Truncate
  /\ \/ FailInto("end") /\ UNCHANGED monitors
     \/ Launch("running") /\ Go("confirm")

\* start_http_ping_process: a script that still runs is left alone.
StartScript ==
  /\ kind = "script"
  /\ StartStep
  /\ Go("confirm")
  /\ IF Alive # {} THEN UNCHANGED <<file, monitors>> ELSE Truncate /\ Launch("running")

\* A pod that has exited is in the way.
StartIperfPod ==
  /\ kind = "iperf_pod"
  /\ StartStep
  /\ Truncate
  /\ IF In({"exited"}) # {}
     THEN FailInto("end") /\ UNCHANGED monitors
     ELSE Launch("running") /\ Go("confirm")

Confirm ==
  /\ kind \in External
  /\ step = "confirm"
  /\ IF Match = {} \/ Ambiguous THEN FailInto("end") ELSE Go("end")
  /\ UNCHANGED <<kind, monitors, recorded, file, prevent, found, listed, copy, runs, outages, history>>
-----------------------------------------------------------------------------
(***************************************************************************)
(* check_or_start_background_process: the log is read while the process    *)
(* goes on, renamed, and only then the process is killed; a check that     *)
(* fails ends the run.  After the start the log is checked once more.      *)
(***************************************************************************)
ListPids ==
  /\ kind = "file"
  /\ step = "look"
  /\ listed' = recorded \cap Running
  /\ found' = (listed' # {})
  /\ Go(IF found' THEN "read" ELSE "start")
  /\ UNCHANGED <<kind, monitors, recorded, file, prevent, copy, runs, outages, history>>

ReadLog ==
  /\ kind = "file"
  /\ step \in {"read", "confirm"}
  /\ IF written
     THEN copy' = log /\ Go("rename")
     ELSE copy' = copy /\ FailInto("end")
  /\ UNCHANGED <<kind, monitors, recorded, file, prevent, found, listed, runs, outages, history>>

\* Variant: the process is started again whatever the check says.
StartAnyway == "start"

AfterFailure == "end"

\* check_ping_statistics renames the file, then fails or not.  The pids that
\* were listed are forgotten by the time of the second check.
RenameLog ==
  /\ step = "rename"
  /\ Judge(copy)
  /\ Truncate
  /\ copy' = {}
  /\ step' = IF TooMany(copy) THEN AfterFailure ELSE IF listed = {} THEN "end" ELSE "kill"
  /\ UNCHANGED <<kind, monitors, recorded, prevent, found, listed, runs, outages>>

\* stop_process: kill -9 fails when the process is gone.
KillListed ==
  /\ step = "kill"
  /\ \E p \in listed :
       /\ IF monitors[p] = "running"
          THEN /\ monitors' = [monitors EXCEPT ![p] = "gone"]
               /\ Go(IF listed = {p} THEN "start" ELSE "kill")
          ELSE monitors' = monitors /\ FailInto("end")
       /\ listed' = listed \ {p}
  /\ UNCHANGED <<kind, recorded, file, prevent, found, copy, runs, outages, history>>

\* start_background_process: the parent is terminated after one second, as a
\* rule with the child started and its pid appended to the file.
StartParent ==
  /\ kind = "file"
  /\ step = "start"
  /\ Go("confirm")
  /\ \/ /\ Launch("running")
        /\ recorded' = recorded \cup {p \in Pids : monitors'[p] # monitors[p]}
     \/ SlowParent /\ Launch("running") /\ recorded' = recorded
     \/ SlowParent /\ UNCHANGED <<monitors, recorded>>
  /\ UNCHANGED <<kind, file, prevent, found, listed, copy, runs, outages, history>>
-----------------------------------------------------------------------------
(***************************************************************************)
(* check_or_start_tobiko_command: the log is copied out of the pod, whole; *)
(* the pod is deleted only if the check passes.                            *)
(***************************************************************************)
LookForPod ==
  /\ kind \in CommandPods
  /\ step = "look"
  /\ found' = (In({"running", "exited"}) # {})
  /\ IF ~found' /\ prevent THEN FailInto("end") ELSE Go(IF found' THEN "read" ELSE "start")
  /\ UNCHANGED <<kind, monitors, recorded, file, prevent, listed, copy, runs, outages, history>>

\* The log of an http ping is looked for under the name of no server.
InCopies == IF kind = "http_pod" THEN {} ELSE log

CheckPod ==
  /\ kind \in CommandPods
  /\ step \in {"read", "confirm"}
  /\ IF Running # {} /\ written
     THEN /\ Judge(InCopies)
          /\ step' = IF failed' \/ step = "confirm" THEN "end" ELSE "delete"
     ELSE FailInto("end") /\ UNCHANGED history
  /\ UNCHANGED <<kind, monitors, recorded, file, prevent, found, listed, copy, runs, outages>>

DeletePod ==
  /\ step = "delete"
  /\ monitors' = [p \in Pids |-> IF monitors[p] \in {"running", "exited"} THEN "gone" ELSE monitors[p]]
  /\ Truncate
  /\ Go(IF kind \in CommandPods THEN "start" ELSE "read")
  /\ UNCHANGED <<kind, recorded, prevent, found, listed, copy, runs, outages, history>>

StartPod ==
  /\ kind \in CommandPods
  /\ step = "start"
  /\ \/ Launch("running") /\ Go("confirm")
     \/ Launch("exited") /\ FailInto("end")
  /\ UNCHANGED <<kind, recorded, file, prevent, found, listed, copy, runs, outages, history>>
-----------------------------------------------------------------------------
\* A run that passes has lost what was logged and is in the log no longer.
EndRun ==
  /\ step = "end"
  /\ step' = "idle"
  /\ listed' = {}
  /\ lost' = (~failed /\ ~(unread \subseteq log))
  /\ unread' = IF failed THEN {} ELSE unread \cap log
  /\ UNCHANGED <<kind, monitors, recorded, file, prevent, found, failed, copy, runs, outages,
                 reported, repeated>>

RunStep ==
  \/ BeginRun \/ Look \/ StopPing \/ StopIperf \/ StopScript \/ WaitStopped \/ StorePodLog
  \/ CheckPing \/ CheckIperf \/ CheckScript \/ CheckStored
  \/ StartPing \/ StartIperf \/ StartScript \/ StartIperfPod \/ Confirm
  \/ ListPids \/ ReadLog \/ RenameLog \/ KillListed \/ StartParent
  \/ LookForPod \/ CheckPod \/ DeletePod \/ StartPod \/ EndRun

MonitorsNext == RunStep \/ LogSuccess \/ LogOutage \/ MonitorEnds

MonitorsSpec == MonitorsInit /\ [][MonitorsNext]_monitorVars
-----------------------------------------------------------------------------
\* A run that found its monitor and passed has passed over no outage that was
\* logged before it read the log (but for http pings in pods), and no outage
\* fails two runs (but for pods that are kept with their log).
OutagesReportedOnce ==
  /\ lost => ~found \/ kind = "http_pod"
  /\ repeated => kind = "pod"

\* "in any case test is still running, check for failures"
\* (check_or_start_tobiko_command): what a pod logged before it was checked is
\* not passed over.
ResultsAreChecked == lost => ~found

\* A run that passes leaves a monitor that was not told to end
\* (check_or_start_external_process, check_or_start_tobiko_command).
PassedMeansRunning ==
  [][step # "end" /\ step' = "end" /\ ~failed' /\ kind # "file" => Running' # {}]_monitorVars

\* There are never two monitors, unless the pid of one was not recorded or
\* an iperf3 client does not end when it is told to.
OneMonitor ==
  Cardinality(Running) > 1 => (kind = "file" => ~(Running \subseteq recorded)) /\ kind \in {"iperf", "file"}
=============================================================================
