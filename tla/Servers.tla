------------------------------ MODULE Servers ------------------------------
(***************************************************************************)
(* Changes of the status of a Nova server (openstack/nova/_client.py) and  *)
(* of the server of a stack (ServerStackFixture, with the set-up of        *)
(* CloudInitServerStackFixture and the set-up and clean-up of              *)
(* HeatStackFixture).  Workers that use the same stack set it up, look at  *)
(* the server, ask Nova for something, and wait for a status, each for     *)
(* itself.  Heat deletes at once; HeatStack has the steps of a deletion.   *)
(***************************************************************************)
EXTENDS Integers

CONSTANTS Users,      \* workers that use the server
          Operations, \* what they may do
          MaxTries,   \* attempts of ensure_server_status
          MaxMakes,   \* retry_count, attempts of create_stack
          MaxCalls,   \* bound: calls
          MaxServers, \* bound: servers created, one after the other
          MaxFaults   \* bound: tasks that Nova fails

Ensuring == {"ensure_active", "ensure_shutoff"}

Nobody == "nobody"

ASSUME ServersAssumption ==
  /\ Nobody \notin Users
  /\ Operations \subseteq Ensuring \cup {"activate", "shutoff", "reboot", "migrate", "live"}
  /\ MaxTries \in Nat \ {0} /\ MaxMakes \in Nat \ {0, 1} /\ MaxServers \in Nat \ {0}
  /\ MaxCalls \in Nat /\ MaxFaults \in Nat

Statuses == {"BUILD", "ACTIVE", "SHUTOFF", "REBOOT", "HARD_REBOOT", "RESIZE", "VERIFY_RESIZE",
             "MIGRATING", "ERROR"}
Requests == {"stop", "start", "reboot", "hard", "migrate", "live", "confirm"}

VARIABLES
  server,    \* the server of the stack: the n-th, or 0 when there is none
  status,    \* its status
  task,      \* what Nova is doing with it
  stuck,     \* is its guest stuck at boot?
  created,   \* servers created so far
  broken,    \* those whose stack is CREATE_FAILED
  floating,  \* has_floating_ip
  users,     \* workers that are registered as users of the stack
  prepared,  \* workers whose _setup_executed is set
  cleaned,   \* workers whose _cleanup_executed is set
  holder,    \* the worker that holds cloudinit_server_setup_fixture
  seen,      \* self.stack: the server of it, Unfinished, or 0
  op,        \* what a worker is doing
  point,     \* its control point
  id,        \* the server it knows
  request,   \* what it asks Nova for
  want,      \* the status it waits for
  activated, \* is the server activated, if it has to be at first?
  tries,     \* attempt of ensure_server_status
  makes,     \* attempt of create_stack
  boots,     \* attempt of setup_fixture
  calls,     \* calls begun
  faults,    \* tasks failed by Nova so far
  disturbed, \* history: was something else going on during the call?
  odd,       \* history: was the server not fit for a call before?
  replaced,  \* history: has the call deleted a complete stack?
  late       \* history: who registered since a clean-up counted the users

nova == <<server, status, task, stuck, created, broken>>
fixture == <<floating, users, prepared, cleaned, holder>>
asking == <<id, request, want, activated>>
counts == <<tries, makes, boots, calls, faults>>
told == <<disturbed, odd, replaced, late>>
serverVars == <<nova, fixture, seen, op, point, asking, counts, told>>

Unfinished == -1

Points == {"idle", "setup", "find", "create", "build", "addme", "boot", "reach", "unwind",
           "removeme", "delete", "gone", "look", "ask", "wait", "ok", "failed"}

ServersTypeOK ==
  /\ server \in 0 .. created /\ created \in 0 .. MaxServers
  /\ status \in Statuses
  /\ task \in Requests \cup {"none", "build"}
  /\ task # "none" => server # 0
  /\ stuck \in BOOLEAN /\ floating \in BOOLEAN
  /\ broken \subseteq 1 .. created
  /\ users \in SUBSET Users /\ prepared \in SUBSET Users /\ cleaned \in SUBSET (Users \ prepared)
  /\ holder \in Users \cup {Nobody}
  /\ seen \in [Users -> {Unfinished} \cup 0 .. MaxServers]
  /\ op \in [Users -> Operations \cup {"none"}]
  /\ point \in [Users -> Points]
  /\ id \in [Users -> 0 .. MaxServers]
  /\ request \in [Users -> Requests \cup {"none"}]
  /\ want \in [Users -> Statuses]
  /\ activated \in [Users -> BOOLEAN]
  /\ tries \in [Users -> 1 .. MaxTries]
  /\ makes \in [Users -> 1 .. MaxMakes]
  /\ boots \in [Users -> 1 .. 2]
  /\ calls \in 0 .. MaxCalls /\ faults \in 0 .. MaxFaults
  /\ disturbed \in SUBSET Users /\ odd \in SUBSET Users /\ replaced \in SUBSET Users
  /\ late \in [Users -> SUBSET Users]

\* The stack may be there from an earlier run, complete or failed.
ServersInit ==
  /\ created \in {0, 1} /\ server = created
  /\ status \in IF server = 0 THEN {"BUILD"} ELSE {"ACTIVE", "SHUTOFF", "ERROR"}
  /\ broken \in {{}, IF status = "ERROR" THEN {server} ELSE {}}
  /\ task = "none" /\ stuck = FALSE
  /\ floating \in BOOLEAN
  /\ users = {} /\ prepared = {} /\ cleaned = {} /\ holder = Nobody
  /\ seen = [u \in Users |-> 0]
  /\ op = [u \in Users |-> "none"]
  /\ point = [u \in Users |-> "idle"]
  /\ id = [u \in Users |-> 0]
  /\ request = [u \in Users |-> "none"]
  /\ want = [u \in Users |-> "ACTIVE"]
  /\ activated = [u \in Users |-> FALSE]
  /\ tries = [u \in Users |-> 1] /\ makes = [u \in Users |-> 1] /\ boots = [u \in Users |-> 1]
  /\ calls = 0 /\ faults = 0
  /\ disturbed = {} /\ odd = {} /\ replaced = {}
  /\ late = [u \in Users |-> {}]

Busy == {u \in Users : point[u] \notin {"idle", "ok", "failed"}}
-----------------------------------------------------------------------------
(***************************************************************************)
(* Nova: it takes a request of a server that is in the status for it and   *)
(* not busy, shows so, and completes or fails it some time later.          *)
(***************************************************************************)
Takes(r) ==
  /\ task = "none"
  /\ CASE r = "stop" -> status = "ACTIVE"
       [] r = "start" -> status = "SHUTOFF"
       [] r = "confirm" -> status = "VERIFY_RESIZE"
       [] r = "hard" -> status \in {"ACTIVE", "ERROR", "SHUTOFF"}
       [] OTHER -> status = "ACTIVE"

Shown(r) ==
  CASE r = "reboot" -> "REBOOT"
    [] r = "migrate" -> "RESIZE"
    [] r = "live" -> "MIGRATING"
    [] r = "hard" /\ status = "ACTIVE" -> "HARD_REBOOT"
    [] OTHER -> status

Outcome(t) == CASE t = "stop" -> "SHUTOFF" [] t = "migrate" -> "VERIFY_RESIZE" [] OTHER -> "ACTIVE"

\* A boot with a new console may get stuck.
Boots(t) == t \in {"build", "start", "hard"}

NovaCompletes ==
  /\ task # "none"
  /\ status' = Outcome(task)
  /\ task' = "none"
  /\ IF Boots(task) THEN stuck' \in BOOLEAN ELSE UNCHANGED stuck
  /\ UNCHANGED <<server, created, broken, fixture, seen, op, point, asking, counts, told>>

\* The stack of a server that is not built is CREATE_FAILED.
NovaFails ==
  /\ task # "none"
  /\ faults < MaxFaults
  /\ faults' = faults + 1
  /\ status' = "ERROR"
  /\ task' = "none"
  /\ broken' = IF task = "build" THEN broken \cup {server} ELSE broken
  /\ disturbed' = disturbed \cup Busy
  /\ UNCHANGED <<server, stuck, created, fixture, seen, op, point, asking, tries, makes, boots,
                 calls, odd, replaced, late>>
-----------------------------------------------------------------------------
Move(u, p) == point' = [point EXCEPT ![u] = p]
Remember(u, n) == seen' = [seen EXCEPT ![u] = n]

\* get_stack
StackNow == IF task = "build" THEN Unfinished ELSE server
Complete(n) == n \notin {0, Unfinished} \cup broken

\* A worker whose fixture is set up can go on with a server that is active or
\* off; another one with a server that is active, or with none, unless it
\* remembers that its set-up failed.
Fit(u) ==
  \/ u \in prepared /\ Complete(StackNow) /\ status \in {"ACTIVE", "SHUTOFF"}
  \/ /\ u \notin prepared /\ Complete(StackNow) /\ status = "ACTIVE"
     /\ seen[u] \notin {Unfinished} \cup broken
  \/ u \notin prepared /\ ~Complete(StackNow) /\ seen[u] = 0

\* A test begins to do something with the server of its fixture, which is set
\* up first.
Begin(u, o) ==
  /\ u \notin Busy
  /\ calls < MaxCalls
  /\ calls' = calls + 1
  /\ op' = [op EXCEPT ![u] = o]
  /\ Move(u, "setup")
  /\ activated' = [activated EXCEPT ![u] = FALSE]
  /\ tries' = [tries EXCEPT ![u] = 1]
  /\ disturbed' = Busy \cup (IF Busy # {} \/ task # "none" THEN disturbed \cup {u}
                           ELSE disturbed \ {u})
  /\ odd' = IF Fit(u) THEN odd \ {u} ELSE odd \cup {u}
  /\ replaced' = replaced \ {u}
  /\ UNCHANGED <<nova, fixture, seen, id, request, want, makes, boots, faults, late>>

\* The test ends and its registration is swept; the fixture stays set up.
EndTest(u) ==
  /\ u \in users \ Busy
  /\ users' = users \ {u}
  /\ UNCHANGED <<nova, floating, prepared, cleaned, holder, seen, op, point, asking, counts, told>>
-----------------------------------------------------------------------------
(***************************************************************************)
(* The set-up of a fixture that is set up does nothing.  The id of the     *)
(* server is an output of the stack, which Heat is asked for every time.   *)
(***************************************************************************)
GetServerId(u) ==
  /\ point[u] = "setup" /\ u \in prepared
  /\ server # 0
  /\ id' = [id EXCEPT ![u] = server]
  /\ Remember(u, StackNow)
  /\ Move(u, "look")
  /\ UNCHANGED <<nova, fixture, op, request, want, activated, counts, told>>

\* The stack is gone, or has no outputs.
NoServerId(u) ==
  /\ point[u] = "setup" /\ u \in prepared
  /\ ~Complete(StackNow)
  /\ Remember(u, StackNow)
  /\ Move(u, "failed")
  /\ UNCHANGED <<nova, fixture, op, asking, counts, told>>

Setup(u) ==
  /\ point[u] = "setup" /\ u \notin prepared
  /\ holder = Nobody /\ holder' = u
  /\ makes' = [makes EXCEPT ![u] = 1]
  /\ boots' = [boots EXCEPT ![u] = 1]
  /\ Move(u, "find")
  /\ UNCHANGED <<nova, floating, users, prepared, cleaned, seen, op, asking, tries, calls, faults,
                 told>>

Leave(u, p) == holder' = Nobody /\ Move(u, p)
-----------------------------------------------------------------------------
(***************************************************************************)
(* create_stack.  A stack that is remembered is taken for the one that is  *)
(* there.                                                                  *)
(***************************************************************************)
Taken(u) == IF seen[u] # 0 THEN seen[u] ELSE StackNow

DeleteNamed == server' = 0 /\ task' = "none"

\* create_stack goes on to the registration, or to the second boot.
StackCreated(u) == Move(u, IF boots[u] = 1 THEN "addme" ELSE "boot")

FindStack(u) ==
  /\ point[u] = "find"
  /\ \/ Taken(u) = 0 /\ Move(u, "create")
     \/ Taken(u) = Unfinished /\ Move(u, "build")
     \/ Complete(Taken(u)) /\ StackCreated(u)
  /\ Remember(u, Taken(u))
  /\ UNCHANGED <<nova, fixture, op, asking, counts, told>>

\* An InvalidFixtureError: the stack is deleted by its name and the worker
\* tries again, but for the last time.
MakeFails(u) ==
  /\ DeleteNamed
  /\ Remember(u, 0)
  /\ \/ /\ makes[u] < MaxMakes
        /\ makes' = [makes EXCEPT ![u] = @ + 1]
        /\ Move(u, "find") /\ UNCHANGED holder
     \/ /\ makes[u] > 1
        /\ Leave(u, "unwind") /\ UNCHANGED makes
  /\ UNCHANGED <<status, stuck, created, broken, floating, users, prepared, cleaned, op, asking,
                 tries, boots, calls, faults, odd, replaced, late>>

\* A failed stack is deleted by its id; another one of its name is in the way.
FindFailed(u) ==
  /\ point[u] = "find"
  /\ Taken(u) \in broken
  /\ IF server \in {0, Taken(u)}
     THEN /\ DeleteNamed
          /\ Remember(u, 0)
          /\ Move(u, "create")
          /\ UNCHANGED <<status, stuck, created, broken, fixture, op, asking, counts, told>>
     ELSE MakeFails(u) /\ UNCHANGED disturbed

Create(u) ==
  /\ point[u] = "create"
  /\ created < MaxServers
  /\ created' = created + 1 /\ server' = created'
  /\ status' = "BUILD" /\ task' = "build" /\ stuck' = FALSE
  /\ Move(u, "build")
  /\ UNCHANGED <<broken, fixture, seen, op, asking, counts, told>>

\* validate_created_stack
Built(u) ==
  /\ point[u] = "build"
  /\ Complete(StackNow)
  /\ Remember(u, StackNow)
  /\ StackCreated(u)
  /\ UNCHANGED <<nova, fixture, op, asking, counts, told>>

\* The creation has failed, or lasts too long.
BuildFails(u) ==
  /\ point[u] = "build"
  /\ server # 0 /\ ~Complete(StackNow)
  /\ disturbed' = disturbed \cup {u}
  /\ MakeFails(u)

\* setup_stack: addme_to_shared_resource once the stack is there.
Register(u) ==
  /\ point[u] = "addme"
  /\ users' = users \cup {u}
  /\ late' = [v \in Users |-> IF point[v] = "delete" THEN late[v] \cup {u} ELSE late[v]]
  /\ Move(u, "boot")
  /\ UNCHANGED <<nova, floating, prepared, cleaned, holder, seen, op, asking, counts, disturbed,
                 odd, replaced>>
-----------------------------------------------------------------------------
(***************************************************************************)
(* setup_fixture: the guest has to boot, and a server with a floating IP   *)
(* to answer and to be done with cloud-init.                               *)
(***************************************************************************)
Ready(u) ==
  /\ prepared' = prepared \cup {u} /\ cleaned' = cleaned \ {u}
  /\ Leave(u, "setup")

\* wait_for_guest_os_ready
Booted(u) ==
  /\ point[u] = "boot"
  /\ server # 0 /\ status # "BUILD" /\ ~stuck
  /\ Remember(u, StackNow)
  /\ IF floating THEN Move(u, "reach") /\ UNCHANGED <<prepared, cleaned, holder>> ELSE Ready(u)
  /\ UNCHANGED <<nova, floating, users, op, asking, counts, told>>

\* A server that is stuck is deleted and created once more, whoever uses it.
BootStuck(u) ==
  /\ point[u] = "boot"
  /\ server # 0 /\ status # "BUILD" /\ stuck
  /\ disturbed' = disturbed \cup {u}
  /\ IF boots[u] = 1
     THEN /\ DeleteNamed
          /\ Remember(u, 0)
          /\ makes' = [makes EXCEPT ![u] = 1]
          /\ boots' = [boots EXCEPT ![u] = 2]
          /\ Move(u, "find") /\ UNCHANGED holder
     ELSE Leave(u, "unwind") /\ UNCHANGED <<server, task, seen, makes, boots>>
  /\ UNCHANGED <<status, stuck, created, broken, floating, users, prepared, cleaned, op, asking,
                 tries, calls, faults, odd, replaced, late>>

\* assert_is_reachable, wait_for_cloud_init_done: a server that is off does
\* not answer.
Answers(u) ==
  /\ point[u] = "reach"
  /\ server # 0 /\ status # "SHUTOFF"
  /\ Remember(u, StackNow)
  /\ Ready(u)
  /\ UNCHANGED <<nova, floating, users, op, asking, counts, told>>

\* The stack is gone, the guest does not boot in time or does not answer.
SetupFails(u) ==
  /\ \/ point[u] = "build" /\ server = 0
     \/ point[u] \in {"boot", "reach"}
  /\ disturbed' = IF server # 0 /\ status # "SHUTOFF" THEN disturbed \cup {u} ELSE disturbed
  /\ Leave(u, "unwind")
  /\ UNCHANGED <<nova, floating, users, prepared, cleaned, seen, op, asking, counts, odd, replaced,
                 late>>

\* A set-up that fails asks for the stack to show it, and is cleaned up
\* without the lock, unless the fixture was cleaned up before.
Unwind(u) ==
  /\ point[u] = "unwind"
  /\ Remember(u, StackNow)
  /\ Move(u, IF u \in cleaned THEN "failed" ELSE "removeme")
  /\ UNCHANGED <<nova, fixture, op, asking, counts, told>>
-----------------------------------------------------------------------------
(***************************************************************************)
(* cleanup_fixture, under no lock: the stack is deleted by its name unless *)
(* others were registered when they were counted.                          *)
(***************************************************************************)
\* Variant: the stack is deleted whoever uses it.
WhoeverElse(u) == TRUE

LastUser(u) == users \ {u} = {}

\* After the clean-up the set-up is tried again, or has failed.
CleanedUp(u) ==
  /\ prepared' = prepared \ {u} /\ cleaned' = cleaned \cup {u}
  /\ Move(u, IF u \in prepared THEN "setup" ELSE "failed")

Removeme(u) ==
  /\ point[u] = "removeme"
  /\ users' = users \ {u}
  /\ IF LastUser(u) THEN Move(u, "delete") /\ UNCHANGED <<prepared, cleaned>> ELSE CleanedUp(u)
  /\ UNCHANGED <<nova, floating, holder, seen, op, asking, counts, told>>

DeleteStack(u) ==
  /\ point[u] = "delete"
  /\ DeleteNamed
  /\ Remember(u, 0)
  /\ replaced' = IF Complete(StackNow) THEN replaced \cup {u} ELSE replaced
  /\ late' = [late EXCEPT ![u] = {}]
  /\ Move(u, "gone")
  /\ UNCHANGED <<status, stuck, created, broken, fixture, op, asking, counts, disturbed, odd>>

\* A stack that another worker has created since then is an error: the flags
\* are set by a set-up that has failed, which collects the errors.
WaitUntilDeleted(u) ==
  /\ point[u] = "gone"
  /\ Remember(u, StackNow)
  /\ IF server = 0 THEN CleanedUp(u)
     ELSE /\ cleaned' = cleaned \cup ({u} \ prepared)
          /\ Move(u, "failed")
          /\ UNCHANGED prepared
  /\ UNCHANGED <<nova, floating, users, holder, op, asking, counts, told>>
-----------------------------------------------------------------------------
(***************************************************************************)
(* activate_server, shutoff_server and reboot_server look at the server    *)
(* once to decide what to ask for.                                         *)
(***************************************************************************)
Known(u) == server # 0 /\ id[u] = server

Activating(u) == op[u] \in {"activate", "ensure_active", "migrate", "live"}
ShuttingOff(u) == op[u] \in {"shutoff", "ensure_shutoff"}

\* Asks Nova for r, if anything, and waits for s.
Intend(u, r, s) ==
  /\ request' = [request EXCEPT ![u] = r]
  /\ want' = [want EXCEPT ![u] = s]
  /\ Move(u, IF r = "none" THEN "wait" ELSE "ask")

\* migrate_server of the stack goes on once the server is active.
Achieved(u) ==
  /\ activated' = [activated EXCEPT ![u] = TRUE]
  /\ IF op[u] \in {"migrate", "live"}
     THEN Intend(u, op[u], IF op[u] = "live" THEN "ACTIVE" ELSE "VERIFY_RESIZE")
     ELSE Move(u, "ok") /\ UNCHANGED <<request, want>>

Decide(u) ==
  \/ /\ \/ Activating(u) /\ status = "ACTIVE"
        \/ ShuttingOff(u) /\ status = "SHUTOFF"
        \/ op[u] = "reboot" /\ status = "REBOOT"
     /\ Achieved(u)
  \/ /\ ShuttingOff(u) /\ status # "SHUTOFF"
     /\ Intend(u, "stop", "SHUTOFF") /\ UNCHANGED activated
  \/ /\ op[u] = "reboot" /\ status # "REBOOT"
     /\ Intend(u, IF status = "SHUTOFF" THEN "start" ELSE "reboot", "ACTIVE") /\ UNCHANGED activated
  \/ /\ Activating(u) /\ status # "ACTIVE"
     /\ CASE status = "SHUTOFF" -> Intend(u, "start", "ACTIVE")
          [] status = "RESIZE" -> Intend(u, "none", "VERIFY_RESIZE")
          [] status = "VERIFY_RESIZE" -> Intend(u, "confirm", "ACTIVE")
          [] status = "REBOOT" -> Intend(u, "none", "ACTIVE")
          [] OTHER -> Intend(u, "hard", "ACTIVE")
     /\ UNCHANGED activated

LookAtServer(u) ==
  /\ point[u] = "look"
  /\ Known(u)
  /\ Decide(u)
  /\ UNCHANGED <<nova, fixture, seen, op, id, counts, told>>

Ask(u) ==
  /\ point[u] = "ask"
  /\ Known(u) /\ Takes(request[u])
  /\ task' = request[u]
  /\ status' = Shown(request[u])
  /\ Move(u, "wait")
  /\ UNCHANGED <<server, stuck, created, broken, fixture, seen, op, asking, counts, told>>

\* A server that is gone, or a request that is refused, is an error that
\* ensure_server_status does not catch.
Refused(u) ==
  /\ \/ point[u] \in {"look", "ask", "wait"} /\ ~Known(u)
     \/ point[u] = "ask" /\ ~Takes(request[u])
  /\ Move(u, "failed")
  /\ UNCHANGED <<nova, fixture, seen, op, asking, counts, told>>
-----------------------------------------------------------------------------
(***************************************************************************)
(* wait_for_server_status: any status but the one that is waited for and   *)
(* those that may come before it is an error.                              *)
(***************************************************************************)
\* Variant: a server that is off is not on its way to be active.
TransientForgets(s) ==
  CASE s = "ACTIVE" -> {"BUILD", "REBOOT"} [] s = "SHUTOFF" -> {"ACTIVE"} [] OTHER -> {"RESIZE"}

\* NOVA_SERVER_TRANSIENT_STATUS
TransientStatus(s) ==
  CASE s = "ACTIVE" -> {"BUILD", "SHUTOFF", "REBOOT"}
    [] s = "SHUTOFF" -> {"ACTIVE"}
    [] s = "VERIFY_RESIZE" -> {"RESIZE"}

Transient(u) ==
  IF activated[u]
  THEN CASE request[u] = "live" -> {"MIGRATING"}
         [] request[u] = "confirm" -> {"VERIFY_RESIZE"}
         [] OTHER -> TransientStatus(want[u])
  ELSE TransientStatus(want[u])

\* Variant: a resize is not confirmed.
NotConfirmed(u) == FALSE

MustConfirm(u) == want[u] = "VERIFY_RESIZE"

Reached(u) ==
  /\ point[u] = "wait"
  /\ Known(u) /\ status = want[u]
  /\ \/ MustConfirm(u) /\ Intend(u, "confirm", "ACTIVE") /\ UNCHANGED activated
     \/ ~MustConfirm(u) /\ ~activated[u] /\ Achieved(u)
     \/ ~MustConfirm(u) /\ activated[u] /\ Move(u, "ok") /\ UNCHANGED <<request, want, activated>>
  /\ UNCHANGED <<nova, fixture, seen, op, id, counts, told>>

\* WaitForServerStatusError: ensure_server_status cleans the fixture up and
\* tries again.
WaitFails(u) ==
  IF op[u] \in Ensuring /\ tries[u] < MaxTries
  THEN tries' = [tries EXCEPT ![u] = @ + 1] /\ Move(u, "removeme")
  ELSE Move(u, "failed") /\ UNCHANGED tries

Unexpected(u) ==
  /\ point[u] = "wait"
  /\ Known(u) /\ status \notin Transient(u) \cup {want[u]}
  /\ WaitFails(u)
  /\ UNCHANGED <<nova, fixture, seen, op, asking, makes, boots, calls, faults, told>>

TimedOut(u) ==
  /\ point[u] = "wait"
  /\ Known(u) /\ status \in Transient(u)
  /\ WaitFails(u)
  /\ disturbed' = disturbed \cup {u}
  /\ UNCHANGED <<nova, fixture, seen, op, asking, makes, boots, calls, faults, odd, replaced, late>>
-----------------------------------------------------------------------------
SetupStep(u) ==
  \/ Setup(u) \/ FindStack(u) \/ FindFailed(u) \/ Create(u) \/ Built(u) \/ BuildFails(u)
  \/ Register(u) \/ Booted(u) \/ BootStuck(u) \/ Answers(u) \/ SetupFails(u) \/ Unwind(u)

CleanupStep(u) == Removeme(u) \/ DeleteStack(u) \/ WaitUntilDeleted(u)

CallStep(u) ==
  \/ (\E o \in Operations : Begin(u, o)) \/ EndTest(u)
  \/ GetServerId(u) \/ NoServerId(u)
  \/ LookAtServer(u) \/ Ask(u) \/ Refused(u) \/ Reached(u) \/ Unexpected(u) \/ TimedOut(u)

UserStep(u) == SetupStep(u) \/ CleanupStep(u) \/ CallStep(u)

ServersNext == NovaCompletes \/ NovaFails \/ \E u \in Users : UserStep(u)

ServersSpec == ServersInit /\ [][ServersNext]_serverVars
-----------------------------------------------------------------------------
\* A call that nothing disturbs, of a server that is active, or off and set up
\* before, succeeds and has not deleted the server for it (setup_fixture,
\* wait_for_server_status, NOVA_SERVER_TRANSIENT_STATUS, ensure_server_status).
UndisturbedSucceeds ==
  \A u \in Users : point[u] = "failed" \/ u \in replaced => u \in disturbed \cup odd

\* A call that nothing disturbs leaves a server that has the status it was
\* asked for and that Nova is done with (activate_server, shutoff_server,
\* reboot_server, migrate_server).
DoneMeansSettled ==
  [][\A u \in Users :
       point[u] # "ok" /\ point'[u] = "ok" /\ u \notin disturbed
       => /\ task' = "none"
          /\ u \notin odd => status' = IF ShuttingOff(u) THEN "SHUTOFF" ELSE "ACTIVE"]_serverVars

\* A complete stack is deleted under a worker that is registered and has its
\* fixture set up in three ways only: by a clean-up that had counted the users
\* before that worker registered, by a set-up that finds the guest stuck, or by
\* one that remembers another stack, which failed (cleanup_fixture,
\* setup_fixture, create_stack).
KeptWhileUsed ==
  [][server' # server /\ Complete(StackNow)
     => \A v \in prepared \cap users : \E u \in Users :
          \/ point[u] = "delete" /\ point'[u] = "gone" /\ v \in late[u]
          \/ point[u] = "boot" /\ point'[u] = "find" /\ stuck
          \/ point[u] = "find" /\ seen[u] \in broken /\ seen'[u] = 0]_serverVars
=============================================================================
