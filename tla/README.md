# Formal models of tobiko

Tobiko tests OpenStack clouds by creating resources in them, disturbing them and
checking that they still work.  Its tests run in several pytest (xdist) worker
processes at a time, against one cloud, and most of its own logic is about what
that takes: resources shared by name between the processes, registrations of the
tests that use them, locks between processes, retries with limits, commands that
are executed with a timeout, here or over SSH, hosts that reboot, monitors that go on
between two runs.  This directory models that logic in TLA+.  Paths
below are relative to the repository.

Contents: [the system](#the-system) - [the plan](#the-plan) -
[the modules](#the-modules) - [the runs](#the-runs) -
[disagreements](#where-the-code-and-its-words-disagree) -
[the proofs](#the-proofs) - [what is left out](#what-is-left-out) -
[how to run it](#how-to-run-it)

## The system

A test case is a method that uses *fixtures*.  A fixture that several tests need
is a `SharedFixture`: one object per class and worker process, set up by the
first test that asks for it and kept for the next.  Behind it is something in the
cloud, found *by name*, that the fixture objects of all workers stand for.

| Component | State it keeps | Operations | What makes it correct |
|---|---|---|---|
| **Shared resource registrations** `common/_shelves.py`, `_lockutils.py` | one dbm file per shelf: resource -> set of test identifiers; a shelf with the uid of the run; one lock file per lock name | `initialize_shelves`, `addme_to_shared_resource`, `removeme_from_shared_resource`, `remove_test_from_all_shared_resources`, `remove_test_from_shelf_resources` | no registration is lost or comes back; what an earlier run left is forgotten; no lock is kept |
| **Fixture life cycle, operations** `common/_fixture.py`, `_case.py`, `_operation.py` | `_setup_executed`, `_cleanup_executed`; the stack of running test cases; `_is_before`, `_is_after` | `setUp`, `cleanUp`, `use_fixture`, required fixtures, `enter_test_case`, `Operation.setup_fixture` | the flags tell the truth after errors; a test that ends leaves nothing set up; an operation runs once |
| **Heat stacks** `openstack/heat/_stack.py` | in Heat: one stack per name and its status; in each fixture: `self.stack`, a copy of it | `setup_stack`, `create_stack`, `try_create_stack`, `wait_for_stack_status`, `delete_stack`, `cleanup_fixture` | a set-up does not destroy what others made; every attempt starts clean; every test ends |
| **Neutron resources shared by name** `openstack/base/_fixture.py`, `stacks/_neutron.py` | in Neutron: resources and their rules; in each fixture: `_resource` | `setup_fixture`, `try_create_resource`, `cleanup_fixture`, `resource_find`, `resource_create` | one resource of a name; a resource in use is complete |
| **Glance images** `openstack/glance/_image.py` | in Glance: images of a name and their status; the image file; in each fixture: the image last seen | look-up, `create_image`, `upload_image`, download, `cleanup_fixture` | an image that can be used is whole; none is left on its way |
| **Load balancers** `openstack/octavia/_deployers.py`, `_waiters.py` | in Octavia: a load balancer, its parts and their status | `deploy_ipv4_lb`, `deploy_dual_stack_ovn_lb`, `deploy_hm`, `wait_for_status` | each part is made once, and none while the load balancer is being changed |
| **Servers** `openstack/nova/_client.py`, `stacks/_nova.py` | the server of a stack: its status, what Nova is doing with it; who uses it | `activate_server`, `shutoff_server`, `reboot_server`, `migrate_server`, `ensure_server_status`, the set-up with its attempts and a second creation, the clean-up | the status asked for is reached, and kept; a server in use is deleted only by a clean-up that raced the registration, or when its guest is stuck |
| **Topology** `openstack/topology` | nodes by name, address and group; SSH connections and clients by address | `discover_nodes`, `add_node`, `connect`, `cleanup_fixture` | one node per host; a host that is given up is out of reach |
| **SSH clients** `shell/ssh/_client.py` | one client per host with its connection and the channel through its proxy | `connect`, `ssh_connect`, `ssh_proxy_sock`, `create_process` over SSH, `close` | a command fails only for a reason; no channel is left open; every call ends |
| **Reboot** `shell/sh/_reboot.py`, `_uptime.py` | the time of the command, whether the host has rebooted | `reboot_host`, `wait_for_operation` | a host taken for rebooted has rebooted |
| **Monitors** `shell/sh/_process.py` (background), `shell/ping`, `iperf3`, `custom_script`, `podified/_openshift.py` | a process or pod that outlives the run, its log, its pid file | `check_or_start_*`: find, check, stop, start | outages are reported, once; one monitor goes on |
| **Retries** `common/_retry.py` | limits, start time, number and time of the attempt | `__iter__`, `check_limits`, `count_left`, `time_left`, `is_last` | ends in time; asks as often as it should; does not miss what was ready |
| **Local commands** `shell/sh/_process.py`, `_io.py`, `_execute.py`, `_local.py` | a subprocess, three pipes with buffers, chunks read | `execute`, `communicate`, `send_all`, `wait`, `close`, `_terminate` | the result is complete; nothing is left running; the timeout ends it |
| Deployment tools `tripleo`, `podified`, `rhosp`, `podman`, ... | lists of nodes and containers, remembered | commands on the nodes and parsers of what they print | (waits: as Retries) |
| Other OpenStack clients (Neutron, Manila, Designate, Keystone, ...) | cached clients | calls passed on, waits for a status | (waits: as Retries) |
| Configuration, command lines, HTTP helper | options | reading | - |
| Tests and fault tests `tests/` | - | scripts over all of the above | - |

`PROJECT.json` lists the components in more detail, down to their files.

### How the components interact

* A worker enters a test (`enter_test_case`), the test uses a shared fixture,
  `SharedFixture.setUp` runs `setup_fixture` unless it was run, and that looks for
  the resource, creates it if need be, and registers the test by
  `addme_to_shared_resource`.  At the end of the test every registration of it is
  swept (`remove_test_from_all_shared_resources`).  `cleanup_fixture`
  unregisters the test and, if no user is left, deletes the resource.
* Workers share no memory.  They meet in the dbm files and lock files of the
  shelves directory, in other files of this host (images, logs, pids) and in
  the cloud.  `interworker_synched(name)` is a lock between
  processes, whose file name is made of the decorator's name and the *first
  positional argument* of the call; so functions that look like they exclude each other
  may not, and calls of one method by fixtures of the same class do.
* Every wait is a `for attempt in tobiko.retry(...)`; its body calls
  `attempt.check_limits()`, that raises when the limits are passed.
* Everything done on a host is a shell command: local ones are subprocesses whose
  pipes are read by a loop around `select`, remote ones sessions of an SSH client,
  which may be connected through the client of another host.
* What a component remembers (a stack, a resource, an image, a client, a
  connection, a node) is remembered for the rest of the worker's life, whatever
  happens to the thing itself.

### What is hard

Interleavings of workers between a read and the write that depends on it
(registrations, counting users and then deleting); views of the cloud, and connections, that
are remembered and used later; creations in several calls, of which one fails; errors in
set-ups and clean-ups, which meet flags that were written for the good case; waits that take
every status they do not expect for a failure; limits of 0 and attempts that end late; attempts
nested in attempts; times read on two hosts; buffers that a `select` cannot see; a process that
waits for one pipe while tobiko waits for another; a monitor that goes on logging while its log is
judged.  `PROJECT.json` lists the hazards one by one with their lines and the
properties that stand against them.

## The plan

The order follows what the rest depends on: registrations first, since every
shared fixture decides by them what to delete; then the two kinds of shared
fixture; the retry loop and the local command, on which everything waits; then what is
built on them.

| | Modules | Models | State |
|---|---|---|---|
| 1 | `SharedResources` | the abstract registrations | done |
| 2 | `Shelves`, `ShelvesProofs` | the dbm files, the locks, crashes; implements 1 | done |
| 3 | `HeatStack`, `HeatStackProofs` | a Heat stack shared by name | done |
| 4 | `Retry`, `WaitsProofs` | the loop of every wait | done |
| 5 | `ResourceFixture`, `ResourceFixtureProofs` | a Neutron resource shared by name | done |
| 6 | `ShellProcess`, `ShellProcessProofs` | `execute()` of a local command | done |
| 7 | `Monitors`, `WaitsProofs` | background processes and pods that outlive a run, and their logs | done |
| 8 | `TestRuns`, `TestRunsProofs` | tests, required fixtures, what is cleaned up after an error, operations | done |
| 9 | `Reboot`, `WaitsProofs` | the reboot of a host: uptime against elapsed time | done |
| 10 | `Servers`, `CloudProofs` | the status of a server; deletion and recreation of a stack stuck at boot | done |
| 11 | `SSHClients`, `ConnectionsProofs` | connections on demand, through proxies, with three loops of attempts | done |
| 12 | `Topology`, `ConnectionsProofs`; `Images`, `LoadBalancers`, `CloudProofs` | discovery of nodes; shared images; shared load balancers | done |
| 13 | `Containers` | the states of the containers of a deployment, compared with a file that an earlier run has left and with a list that is remembered (`tripleo/containers.py:76-195`, `podified/containers.py:54-364`) | open |
| 14 | `Credentials` | where credentials are looked for, and the clients kept per session | open |
| 15 | `PortForwards` | the forwarding of ports through SSH clients (`shell/ssh/_forward.py`) | open |

`MC...` modules give the constants their values; `MCHeatSetups`, `MCFixtures` and
`MCWaits` are unions: a behaviour of one is a behaviour of one of its machines, chosen in the
initial state, while the others stay in an initial state of theirs.  A property of
a machine is thus checked over all behaviours of the machine, and a run asks
one question of all the machines it is about.

Compositions.  `HeatStack`, `ResourceFixture` and `Servers` use registrations that are atomic
and belong to the worker that makes them: this is what `Shelves` is shown to implement
(`ImplementsAbs`), so they need not carry the dbm file with them.  `Servers` composes the
set-up of a stack, its registrations, its clean-up and the changes of status; `SSHClients` a command with
the connections of all hosts on its way; `Topology` the discovery with the
connections and clients it leaves behind.
`Reboot` uses a connection that works or does not, as a call of `SSHClients` ends.

Theorems: every invariant and action property that a passing run checks is proved, as is
type correctness of every module.  What is still worth stating, and then proving: an abstract
specification of a shared fixture (one resource of a name, deleted when unused) that `Servers` and
`ResourceFixture` implement, as `Shelves` does `SharedResources`; and, for every module that uses
registrations, that its steps on `users` are steps of `SharedResources`.

## The modules

Every module describes processes as functions from a worker (or, where there is
one thread only, as plain variables) and has one action per step that others can
observe; `pc` (also `point`, `phase`, `stage`, `step`) is the point that has been
reached.  A definition that is preceded by "Variant:" is the form the next definition would
have after a plausible mistake; it is used by no specification.  Variables called history record
what a property needs to know of the past and are read by no action.  `PROJECT.json` "map" gives
the lines every definition stands for.

### Shelves - `common/_shelves.py`, `common/_lockutils.py`

`files` and `db` are the shelves directory, `uid` the shelf that records the run,
`holder` the lock files, `opened` who has which dbm file open.  A call goes
through `Acquire`, `Open` (or `OpenFails`, `GiveUp`), then `Read` and `Write` for each
resource, `Close`, `Release`; `removeme` begins with its extra `Get` and `Put`
(`db[resource] = db.get(resource) or set()`).  `StartInit` .. `EndUnlink` are
`initialize_shelves`, `EndTest` .. `EndSweep` the sweep, whose lock is that of the test,
while `addme` and `removeme` lock the shelf (`LockName`).  A lock is
re-entrant within a process and its first release frees it (`Take`, `Drop`).
`Crash` is the death of a worker under xdist: the system closes its files and locks,
and a new worker begins in its place.  `ExclusiveOpen` is the property of the dbm
backend that decides all: gdbm refuses to open a file another process has open,
dbm.sqlite3 does not.

`Init` allows any registrations of an earlier run.  Identifiers are those of the tests plus
`Dummy`, under which calls outside a test are made (`DummyTestCase`).

### SharedResources

What the fixtures are promised: `Register` and `Unregister` are atomic and touch one
identifier, the sets are emptied only before the run starts.  In `Shelves`,
`Abs == INSTANCE SharedResources WITH users <- db, started <- Started` maps every
`Write` to one of the two, `Unlink` to `Forget`, and every other step to `Start`
or to a stutter.

### HeatStack - `openstack/heat/_stack.py` with `SharedFixture`

`heat` is the stack of the one name: at most one, with an id, since Heat refuses a second
(the conflict in `Create`).  `HeatStep` is the service: it completes or fails what is in progress, and
what is deleted stays visible for a while.  A worker has its fixture:
`stack` (`self.stack`, what it last saw), the flags of `SharedFixture`, the attempt of
`create_stack`.  The six `Look...` actions are one look of `wait_for_stack_status` each, with what
follows from it for the caller (`phase`); the first look takes `self.stack` if there is one
(`cached`), the others ask Heat.  `Again` and `LastAttempt` are the handler of
`InvalidFixtureError`, `Drop` and `Removeme` `cleanup_fixture`.

`Locked` tells subclasses that decorate their set-up with `interworker_synched` from
those that do not; `cleanup_fixture` takes no lock in either.  `asked` is a history
variable: the attempt began with an answer of Heat and not with a remembered one.

### ResourceFixture - `openstack/base/_fixture.py`, `stacks/_neutron.py`

`live` and `whole` are Neutron's resources of the name and those that have all of their
rules.  `try_create_resource` is `SetUp` .. `Unlock`, under the lock; the rest of
`setup_fixture` (`Verify`, `Addme`) and `cleanup_fixture` (`Removeme`, `GetId`,
`Delete`) are under none.  Two kinds of resource stand for the subclasses: a security
`group` is created in one call and filled in others (`Fill`, `Reread`), and several of a
name cannot be used; a subnet `pool` is created in one, and the first found is used.

### TestRuns - `common/_fixture.py`, `_case.py`, `_operation.py`

One worker.  `cases` is the stack of running test cases, each with the clean-ups it has been
given; `frames` the set-ups in progress, of a fixture and of those it requires, in the order in
which they ask for one another.  `Ask` is `setup_fixture` or `use_fixture` in a
test, `Require` a set-up within a set-up, `Succeed` and `Fail` its end (with the
`cleanUp` after an error), `TryAlternative` the `except` of `use_fixture`, `CleanUpNow`
`cleanup_fixture`, `DoCleanup` the clean-ups when a test ends, last in first out.  One
of the fixtures is an operation: `Operate` runs it if `TOBIKO_RUN_OPERATIONS` is set, once,
and `IsSkipped` is what the decorators of tests before and after it do.  `extent` says how
much of what a fixture stands for is there.

### Servers - `openstack/nova/_client.py`, `stacks/_nova.py`

`server`, `status` and `task` are Nova's; `Takes` says which requests Nova accepts in which
status, `Shown` what is shown while it works, `NovaCompletes` and `NovaFails` how it ends.  The stack of
the server may be there from an earlier run, complete or failed.

A call begins with the set-up of the fixture, which does nothing if the fixture is set up (`GetServerId`).
Otherwise it goes through the steps of the code, under the lock of cloud-init set-ups:
`FindStack` .. `BuildFails` are `create_stack` with its attempts, which takes a stack that is remembered
(`seen`) or there, or deletes a failed one and creates it; `Register` is `addme_to_shared_resource`, which
the code calls once the stack is there; `Booted` and `BootStuck` the wait for the guest, the latter with
the deletion of the stack and its second creation; `Answers` the ping and the wait for cloud-init of a
server with a floating IP (a server that is off does not answer); `SetupFails` any of these that raises.
A set-up that fails is cleaned up after the lock is released (`Unwind`).  The clean-up has the steps of
the code, under no lock: the worker is removed and the others are counted (`Removeme`), the stack is
deleted by its name (`DeleteStack`), and its end is awaited (`WaitUntilDeleted`), which fails if another
worker has created it again.  Heat deletes at once here; `HeatStack` has the steps of a deletion.

With its fixture set up a worker does one of seven operations: it looks at the server (`LookAtServer`,
`Decide`), asks for something (`Ask`, `Refused`), waits (`Reached`, `Unexpected`, `TimedOut`).  A wait ends
at the status wanted, and fails at any status that is neither wanted nor one of
`NOVA_SERVER_TRANSIENT_STATUS`.  `ensure_server_status` answers a failure by cleaning up the fixture and
setting it up again (`WaitFails`).

### Images - `openstack/glance/_image.py`

`images` and `contents` are Glance's images of the name, `imageFile` the file that the workers
download to and upload from.  There may be an image at first, in any status.  `SetUpImage`, `Find`
and `Choose` are the look-up and the wait for a status that does not change any more, `CreateImage` ..
`EndUpload` creation, download (to a file of another name, then renamed) and upload,
`WaitEnds` and `Tidy` the choice of the image that became active first and the deletion of one's
own, `UploaderDies` the death of a worker at any point.  Transfers begin and end in two steps, and
may break between them.

### LoadBalancers - `openstack/octavia/_deployers.py`, `_waiters.py`

A deployment goes through its parts in order: load balancer, listener, pool, members for
each server.  Under the lock each is looked up by name (`FindPart`) or else created (`CreatePart`) and
waited for (`Provisioned`, `GivesUp`).  Octavia refuses a change of a load balancer that
is being changed (`Changeable`).  `FindMonitor`, `CreateMonitor` are `deploy_hm`, under no lock
and without a wait.  Workers may die, and the lock is then free.

### Topology - `openstack/topology/_topology.py`, `_connection.py`

`Plan` is what a discovery is given: controllers by the addresses of endpoints, which may be
missing, and computes by host name and addresses.  For each node `add_node` looks for one that is known
(`AlreadyKnown`), else connects: by name through the SSH configuration, directly to each address
(`ConnectDirectly`), through each of the nodes found so far (`ConnectByProxy`, `NextProxy`), or gives up
(`NoProxyLeft`).  `connections` is what `SSHConnectionManager` keeps, a success or a failure by
address and proxy, `clients` what `SSHClientManager` keeps by address.  The name of a node is the
first part of what the host calls itself (`NodeName`).  Hosts go down and come up.

### SSHClients - `shell/ssh/_client.py`, `shell/sh/_ssh.py`

`calls` is the chain of `connect()` calls in progress: each asks for the client of its proxy
(`OpenChannel`, `FailChannel`), which may have to connect first.  Attempts are nested: those of
`create_process` (`CreateAgain`), of `connect` (`ConnectAgain`), of `ssh_connect` (`LoginFails`).
`connected` are the clients that are set up, `alive` those whose connection works; `Disturb` loses
connections and hosts at any point, with all that goes through them.  `socks` counts the channels
through a proxy that are open.

### Reboot - `shell/sh/_reboot.py`, `_uptime.py`

Time passes in ticks, and each step takes up to `StepTime`.  The command is sent
(`Connect`, `SendCommand`, `SendFails`), the host pinged (`Ping`), then asked for its uptime
(`ReadUptime`, `ReadFails`) until it is less than the time since the command (`Compare`).  The host
goes down and boots on its own account, or because of the command, at any time.

### Monitors - `shell/sh/_process.py`, `shell/ping`, `iperf3`, `custom_script`, `podified/_openshift.py`

A run goes through the steps `check_or_start_background_process`,
`check_or_start_external_process` or `check_or_start_tobiko_command` take with its kind of monitor:
find it (`Look`, `ListPids`, `LookForPod`), stop it, read and judge its log, rename or delete it,
start it again.  Seven kinds: `ping`, `iperf`, `script` on a server, `iperf_pod`, `pod`, `http_pod`
and `file`, a process of this host known by a file of pids.  Between any two steps the monitor may
log (`LogSuccess`, `LogOutage`) or end by itself.  Lines are told apart by the outage
they record.

### Retry - `common/_retry.py`

One loop, with any combination of the four limits.  `Return`, `Fail` and `Raise` are the body:
it takes some ticks, asks once at some moment in them, and what it asks for is ready from
an arbitrary moment on.  `GiveUp` is `check_limits`, `Again` the next round of
`__iter__` with its sleep.  The limits look at `elapsed`, read when the attempt began.

### ShellProcess - `shell/sh/_process.py`, `_io.py`, `_execute.py`, `_local.py`

`program` is what the command will do (how much it writes to each output, whether it reads
its input, hangs, leaves a child behind that keeps its outputs open, runs
under sudo, its exit status), `call` the input and whether there is a timeout.  Data is
counted in units.  A pipe holds `Capacity`, tobiko's end of a stream has a buffer of
`Buffer` units: what `stdin` was given but not written (`pending`), what was read ahead
from an output (`held`).  `select` sees the pipe and not the buffer, and a buffered
read blocks until it has what it was asked for or the stream ends: both are in the model.

`execute_process` is one thread, whose control point is `pc`: `Start`, the loop of
`communicate` (`Check`, `Select`, one action per ready stream, `Again`, `Idle`,
`Status`), first for `send_all` and then for `wait`, then `Flush`, `Close`,
`Terminate` and `Reap`.  `late` says that the timeout has passed since the present wait began;
`expired` is that fact as the attempt sees it, read when it begins.
`error` is the exception on its way: a limit check raises the exception that is being
handled in place of its own.

## The runs

Deadlock is checked in every run but the two of `ShellProcess`, where tobiko and a command
really may wait for each other, and `monitors_unread`, where the runs of tobiko are over at some
time.  In the unions the machines that may be left alone for ever (`Rest`) do not deadlock;
the others, which have to go on to their end, can.

| Run | Instance | Properties | Shows |
|---|---|---|---|
| `shelves` | 2 workers, 2 tests, 1 shelf, 1 resource, 2 calls each, 2 attempts at opening, 1 crash | `TypeOK` `SweptTestsReleased` `NoStaleUsers` `ImplementsAbs` `AllTestsEnd` | With a dbm that excludes other processes, registrations are atomic although the functions take different locks; a test that was swept stays released; nothing an earlier run left is taken for a user; a worker may die at any step, and every test ends |
| `heat_setups` | 2 workers; under the lock 2 tests each, without it 1; 3 attempts, creations that fail, clean-ups | `TypeOK` `NothingRemembered` `CreationSparesComplete` `AllTestsEnd` | The assertion of `try_create_stack` holds, also when creations conflict in Heat; a set-up that began by asking Heat never deletes a complete stack; every test ends |
| `fixtures` | resources: 2 workers, 3 tests each, group or pool, calls that fail or not; tests: 3 fixtures of which one requires another and one is an operation, 2 tests nested, 4 calls; topology: 3 hosts, 7 addresses, 5 nodes to add, 2 outages; SSH: 3 hosts in a row, 2 attempts in each loop, 3 losses | `FixturesTypeOK` `OneOfTheName` `RulesUnlessFailure` `OperationRunsOnce` `FlagsTellTheTruth` `EndedTestsCleanUp` `IndexesAgree` `UnreachableIsReal` `NothingMissing` `FailsOnlyInTrouble` `NoChannelLeaks` `AllTestsEnd` `CallsEnd` | What is set up once and used again is what it passes for, whatever fails around it |
| `process_ends` | outputs of 0, 1 or 5 units each, input of 0, 1 or 6, pipes of 3, buffers of 2, all kinds of commands | `TypeOK` `OutputComplete` `InputComplete` `NothingLeftRunning` `EndsIfSimple` | A result has all of the output and follows all of the input; nothing is left running; commands that do not wait for tobiko, and silent ones with a timeout, end |
| `waits` | retries: counts 1, 3; timeouts 0, 1, 4, 7; sleeps 0, 2, 9; intervals 1, 3; each also unset; bodies of 1 to 3 ticks, sleeps late by 0 or 1; monitors: 7 kinds, 3 runs, 2 outages; reboot: timeout 3 or none, a default of 4, 3 attempts, steps of up to 2 ticks; servers: 2 users, 5 operations, 2 calls, 2 attempts of each kind, 2 servers of which one may be there at first, 1 task that fails; images: 2 workers, 3 images, 3 set-ups; load balancers: 2 workers, 2 servers, 3 deployments, 2 troubles | `WaitsTypeOK` `Deadline` `ReadyInTimeIsSeen` `AttemptsAsLimited` `OutagesReportedOnce` `OneMonitor` `PassedMeansRunning` `RebootedMeansBooted` `UndisturbedSucceeds` `DoneMeansSettled` `KeptWhileUsed` `ImagesAreWholeOrOnTheirWay` `DeploymentsWork` | What a wait or a check returns is so, and what it gives up is not |
| `heat_forgets` | 2 attempts, 2 tests each, no clean-ups | `SetUpSparesComplete` | violated, see below |
| `heat_cleanup` | 2 attempts, 1 test each, nothing fails | `CleanupDeletesUnused` | violated |
| `resource_rules` | groups, calls may fail | `GroupsHaveRules` | violated |
| `process_timeout` | as `process_ends`, commands that hang and get no input | `TimeoutEnds` | violated |
| `monitors_unread` | http pings in pods that do not die | `ResultsAreChecked` | violated |
| `ssh_connect` | as in `fixtures`, 1 loss | `LostConnectionsReestablished` | violated |
| `topology_proxies` | as `fixtures` | `ProxiesAreUsed` | violated |

### The properties

* `SweptTestsReleased`: a test that was left, and whose sweep did not skip a shelf
  it could not open, is registered nowhere: no other process stores a set it read before the
  sweep.  `unswept` collects the exempted tests: those whose sweep gave up
  (`remove_test_from_shelf_resources` only logs that, and they stay registered), and those whose
  worker died.
* `NoStaleUsers`: nobody is registered before its test begins; depends on nobody
  passing `initialize_shelves` before the worker that deletes has ended.  Exempt (`torn`)
  is a run in which that worker died.
* `NothingRemembered`: the `assert self.stack is None` of `_stack.py:253`, after any
  sequence of conflicts, waits and failed deletions.
* `CreationSparesComplete`: a step of the set-up that deletes a complete stack
  happens only in an attempt that began with a remembered answer.
* `OneOfTheName`, `RulesUnlessFailure`: one resource of the name and, when no
  call failed, with its rules wherever it is used, although clean-ups run under no lock.
* `OperationRunsOnce`: whatever fails and however often its set-up is asked for or cleaned up.
* `FlagsTellTheTruth`: what passes for set up is there as a whole, and what a failed set-up has
  made is not left behind.  Exempt are fixtures whose clean-up failed (`broken`: their flags stay),
  those that fail for the second time after a clean-up (`skipped`: `_cleanup_executed` is still set),
  and runs under `TOBIKO_PREVENT_CREATE`.
* `EndedTestsCleanUp`: after a test nothing it used by `use_fixture` is set up, also if the test
  failed between, or the fixture was set up by the alternative.
* `IndexesAgree`: one node per host and indexes that fit, after discoveries that fail, are
  cleaned up and begun again, in every order of names and addresses.
* `UnreachableIsReal`: a host that has a direct route is given up only if it was down at some time, if
  only for a moment: that it then stays given up is what the code does;
  `NothingMissing`: what a discovery that succeeds lacks is optional.
* `FailsOnlyInTrouble`, `NoChannelLeaks`, `CallsEnd`: through three loops of attempts, and as
  many again for each proxy, a command fails for a reason, leaves no channel open, and ends.
* `OutputComplete`, `InputComplete`, `NothingLeftRunning`: relate what the
  command did to what `execute()` returned, through two buffers and a pipe.  `EndsIfSimple` leaves
  out commands that could block a read or a write for ever: that the code does not time these out
  is the fourth disagreement below.
* `Deadline`, `ReadyInTimeIsSeen`, `AttemptsAsLimited`: the last attempt begins at most
  one body and one late sleep after the timeout; something ready in time is seen, as
  one attempt is made after the timeout; `count` attempts and neither more nor fewer,
  and attempts keep to their interval without drift.
* `OutagesReportedOnce`: a run that found its monitor and passed has passed over no outage logged before
  it read the log, and no outage fails two runs; not so for http pings in pods (see below) and for
  pods that are kept with their log when the run fails.  What is logged between the read and
  the stop is given up by the code (`Racing`).
* `OneMonitor`, `PassedMeansRunning`: a run that passes leaves a monitor that goes on, and there are
  two only where the code cannot know (a pid that was never written; an `iperf3` client that
  does not end when told to).  `file` is exempt from the second: nothing asks whether it is alive.
* `RebootedMeansBooted`: two clocks and a slow answer must not pass an old boot for a new one.
  A host that booted less than a step before the command is exempt (`longUp`), as the comparison
  cannot tell it.
* `UndisturbedSucceeds`, `DoneMeansSettled`: a call during which nobody else acts, no task fails, no wait
  times out, and no guest is stuck or does not answer though its server is on (`disturbed`) succeeds,
  keeps the server, and leaves it in the status asked for, with nothing in progress, whether or not the
  fixture has to be set up first.  `odd` exempts calls that find a server not fit for them (`Fit`): neither
  active nor off, or off while the worker has still to set its fixture up, which the code answers with an
  error (`_nova.py:459`); and the calls of a worker that remembers a set-up that failed.
* `KeptWhileUsed`: a complete stack is deleted under a worker that is registered and has its fixture set
  up in three ways only: by a clean-up that had counted the users before that worker registered (`late`;
  the race that `heat_cleanup` shows), by a set-up that finds the guest stuck, which asks for no users
  (`_nova.py:455`), or by one that remembers another, failed stack (as in `heat_forgets`).  A failed
  change of status never takes the server of a worker that was registered before.
* `ImagesAreWholeOrOnTheirWay`: an image some worker created is active and whole, or its creator
  still is at work.  Exempt are images whose deletion failed, those of workers that died, and
  downloads without a `Content-Length`.
* `DeploymentsWork`: no part twice; unless something failed, no change of a load balancer
  that is being changed, and all that a deployment returns is there and active.
* `ImplementsAbs`: the refinement; `AllTestsEnd`, `CallsEnd`, `EndsIfSimple`: liveness.

Each property of a passing run is paired in `PROJECT.json` with a mutant, one
definition changed as a bug would, under which the run finds it violated.

### The bounds, and why they are enough

* *Two workers.*  Nearly every conflict in this code is between a worker and one other: a
  read and a write around another's write, a count and a deletion around another's
  registration, a creation against another's.  The theorems that matter hold for any number.
  One conflict of `Images` takes three (see "What is left out").
* *`MaxTests`, `MaxCalls`, `MaxImageSetUps`, `MaxDeployments`.*  What a fixture remembers matters
  to its *next* set-up, so two tests per worker are needed for `HeatStack`; three in
  `ResourceFixture`, where a set-up that fails, one that skips its clean-up and one after them
  follow each other, and three set-ups of images and load balancers by two workers: two at once and one
  after them.  Without the lock `HeatStack` has one test, as that asks only about conflicts between
  set-ups.
* *`RetryCount` 3* in the passing run of `HeatStack`: a first, a middle and a last attempt.
  Elsewhere an attempt is repeated or is the last, and 2 are enough.
* *One shelf and one resource.*  Shelves are separate files with separate locks, and
  resources separate keys, that only a sweep visits together; the proofs cover any number.
* *Four calls in two nested tests*: a set-up that fails, one again, a clean-up and one more.
* *Three hosts in a row*: a target, a proxy, and the proxy of a proxy.  Three losses: one
  before the call, and one in each of its two attempts.
* *Three machines, five nodes to add*: an address found first, one reachable through another host
  only, one reachable both ways, and a host name that is known already or not.  Two outages: before and
  after the clean-up, or of a host and of its proxy.
* *Three runs of a monitor, two outages*: one that starts it, one that finds it and one after a run
  that failed.
* *Reboot*: the host is pinged for as long as a step may take, the wait covers three attempts, and the
  time of a boot before the command lies just before or long before it.
* *Two servers, two calls*: a stack and the one created in its place, by two workers at the same time or
  one after the other.  Out of reach of two calls is a worker that remembers a failed set-up while
  another one has created the stack again: the third way of `KeptWhileUsed` is covered by the theorem only.
* *Five of the seven operations of `Servers`*: `activate` and `shutoff` are what `ensure_active` and
  `ensure_shutoff` do in their last attempt; the theorems have all seven.
* *`MaxTries`, `MaxMakes` 2*: an attempt that is repeated and one that is the last.
* *`Capacity` 3, `Buffer` 2.*  What matters is that the pipe (64 KiB) holds more
  than the buffer (8 KiB).  5 units of output do not fit in pipe and read
  together at once; 6 units of input exceed pipe and buffer by one.
* *`Horizon` 12*: beyond the largest timeout plus a body and a sleep; bodies of 3
  ticks are longer and shorter than the intervals.

The workers of `Servers` are symmetric in `waits`, which checks no liveness.  The other runs declare no
symmetry: with liveness properties it would not be sound.

### Fairness

* `Shelves`, `HeatStack`, `ResourceFixture`: weak fairness of `Step(w)` of every worker.
  Workers are processes of the operating system and are scheduled while they can
  run.  No strong fairness is claimed for locks: `interworker_synched` polls,
  and a worker could be overtaken; in bounded runs the others come to an end
  and leave the lock free.  No fairness makes a test begin a call (`Call`,
  `CleanUp` are choices), and none makes a worker crash.
* `HeatStack`: weak fairness of `HeatStep`, since Heat goes on with what it began.
  It may complete it or fail, and a wait may time out before.
* `SSHClients`: weak fairness of the call in progress (`CallStep`), one thread.  Nothing is asked of
  the network: connections may get lost, and hosts stay down.
* `ShellProcess`: weak fairness of tobiko's thread, of the command (unless it hangs,
  which it then does for ever) and of the clock.
* The other modules state no liveness.  That `Retry` ends follows from `Deadline` and
  `AttemptsAsLimited`, as every attempt takes a tick at least.  The set-up of an image waits without
  limit, so nothing of the kind is claimed of it; a wait for a server, a reboot or a load balancer
  is the loop of `Retry`.

## Where the code and its words disagree

Seven runs end in a counterexample: each shows a behaviour of the code that its own
messages, comments or tests exclude.

1. **A set-up deletes a stack it has not looked at** (`heat_forgets`, `_stack.py:200`).  The last
   attempt raises without forgetting `self.stack`; a second failure also skips
   `cleanup_fixture`.  The next set-up of that worker starts from the remembered failure
   and deletes by name the stack another worker has completed since.
   `test_setup_when_create_complete` asserts that a complete stack is not deleted.
2. **A stack in use is deleted** (`heat_cleanup`, `_stack.py:314`).  `cleanup_fixture` counts
   the users, then deletes, under no lock; another worker finds the stack and
   registers in between.  The message of line 318 is about exactly that.
3. **A security group without its rules** (`resource_rules`, `_neutron.py:634`).  It is created
   before its rules; when one of these fails the group stays and the next
   set-up takes it as it is, while line 581 says it allows SSH and ICMP.
4. **A timeout that does not end the command** (`process_timeout`, `_process.py:385`).  The
   streams are buffered, so a read that was found ready waits for a full buffer or the end
   of the stream.  A command that writes a line and hangs is never timed
   out, against the `:raises ShellTimeoutExpired:` of `_execute.py:139`.
5. **The log of an http ping in a pod is never read** (`monitors_unread`, `_openshift.py:776`).  It is
   copied, but `check_http_ping_results` is called without the address of the server and looks
   for `http_ping_None.log`; no run fails for an outage.  Lines 550-551 say that the results file
   is gone over "in any case".
6. **A proxy that was lost stays lost** (`ssh_connect`, `_client.py:723`).  The client of the proxy is
   taken as `connect()` returns it, which takes a client that is set up for one that is connected; an
   error closes the client of the target and never that of the proxy.  The comment of
   line 383 says that the retry is there to reestablish lost connections.
7. **Proxies that are not used** (`topology_proxies`, `_client.py:550`).  Clients are remembered by host,
   port, user and `proxy_jump`, not by the `proxy_client` through which they go.  After a
   direct attempt the attempts through other nodes are given the same, direct client.
   `_topology.py:680` says that a proxy node is tried.

## The proofs

All of the following are checked by TLAPS, for every value of the constants that
satisfies the named assumptions: any number of workers, tests, shelves, fixtures, hosts, images,
attempts, crashes and losses, any sizes of pipes and buffers.  Most assumptions only give constants
their types and keep values that stand for "none" apart from the others.  Those that say more:

* `SingleAssumption` (`Shelves`): without xdist, when no run has a uid, there is one process.
* `SSHClientsAssumption`: no host is reached through itself: every non-empty set of hosts has one
  whose proxy is outside it.  `connect()` connects the proxy first, so a cycle of proxies has no
  connection to begin with.
* `TopologyAssumption`: each node of the plan is one machine, as the controllers
  and computes that `discover_nodes` lists are, and there is one.
* `RestAssumption` (`MCFixtures`): the resource that is left alone while other machines run is
  one of those that the constants allow.

### ShelvesProofs

| Theorem | States |
|---|---|
| `InitialisesAlone` | `TypeOK`, and whoever deletes the old shelves is alone past the start |
| `SweptTestsAreReleased` | `ExclusiveOpen => (Spec => []SweptTestsReleased)` |
| `OnlyOwnersChange` | `OnlyOwnerChanges`, under `ExclusiveOpen`: registrations change only by a call of their owner, so nobody overwrites what was stored since it read |
| `NoStaleUsersRemain` | `NoStaleUsers`, under `ExclusiveOpen` |
| `ShelvesImplementSharedResources` | `ImplementsAbs`, under `ExclusiveOpen` |

That a test stays released is not inductive: one has to know that no worker is about to
store an old set.  The argument has four layers.  `InitInv`: the bare lock makes
initialisation exclusive, so no shelf is deleted under a running call.  `Handles`,
`OneHandle`, `FreshCopy`: a file is open in one worker at a time, so the copy in a
worker's hands is what the file holds.  `OwnTest`, `SweepControl`,
`FilesHold`: a test has one worker, and a shelf without a file holds
nothing, so that the listing of the directory misses nothing.  `SweepsAll`: wherever a test
that is being swept is still registered, its sweep has still to go (`Ahead`).
`SweepInv` is their conjunction.  `FreshCopy` also carries the other
three: a `Write` changes one identifier exactly because the copy is fresh.  The locks
of `addme`, `removeme` and the sweep occur nowhere in the argument; what saves
the registrations is the dbm.

### HeatStackProofs

`NothingIsRemembered` holds locked or not, by `RememberInv` (`Shapes`, the part of `TypeOK`
it needs, and `Remembers`: nothing is remembered either when the wait after a creation
begins).  `CreationSparesTheComplete` assumes `Locked`: by
`LockHeld` only one worker is setting up, so between its look and its deletion only Heat
and clean-ups act, and these never revive a stack (`Calm`); `Relies` says what
each point of the attempt may then rely on, if the attempt began by asking Heat.

`HeatTyped` (`TypeOK`) is not about types only: `Create` takes an id that nobody remembers, and
there has to be one.  Every worker remembers two ids at most, Heat one, and `Ids` has one more than that;
the lemmas on cardinalities say so.

### ResourceFixtureProofs

`TypeCorrect`; `OnlyOneOfTheName` from `Alone` (whoever is about to create under the lock
still sees none); `RulesAreThere` from `Knows` (without failing calls, a fixture past
its set-up knows its resource) and `Filling` (a live group has its rules or
someone is filling it, and nobody knows it yet, so nobody deletes it).

### ShellProcessProofs

`TypeCorrect`; `NothingIsLeftRunning`; `ResultHasTheOutput` from `OutputInv`, a conservation
law: what the command wrote or will write is with it, in the pipe, in the buffer or read
(`Conserved`), streams are closed at their end only (`ClosedAtEnd`), the loop attends to all
open ones (`Attends`); `ResultHasTheInput` from `InputInv`, the same for the
input.  Both laws hold as long as nothing is raised.

### TestRunsProofs

`OperationRuns` (`OperationRunsOnce`); `FlagsAreTrue` (`FlagsTellTheTruth`) and `TestsCleanUp`
(`EndedTestsCleanUp`) from `Inv`, the conjunction of `FlagsInv` and `CasesInv`, for any
fixtures that require one another, tests nested to any depth and any sequence of calls.
`FlagsInv` says how the set-ups in progress lie within one another (`Nested`) and that a fixture
that is there in part, and not excused, is in one of them (`Truthful`); `CasesInv` that a test will clean
up whatever it has used, and, once it ends, that what it will not clean up any more is not set up
or could not be cleaned up.  The stack of set-ups and the list of clean-ups are sequences: the lemmas at the
beginning say what is left of one without its last element.

`TestRunsTyped` (`TypeOK`) adds who may raise an error (`Raises`: the set-up of a fixture in
progress) and the bounds of the stacks.

### WaitsProofs

`Retry`: `RetryTyped`, `LastAttemptIsNear` (`Deadline`), `ReadyIsSeen` (`ReadyInTimeIsSeen`) and
`AttemptsAreCounted` (`AttemptsAsLimited`), from invariants that say how clock, `elapsed`, the number
of the attempt and its due time are related at each point (`RetryInv`, `Counted`).

`Reboot`: `RebootTyped`, and `RebootedIsTrue` from `RebootInv`: until the host boots, the time of its
last boot is the one it had when the command was sent, and its answer is at most one step old; so the
uptime of a host that has not booted is never less than the time since the command.

`Monitors`: `MonitorsTyped`, `OutagesFailOneRun` (`OutagesReportedOnce`), `MonitorsAreNotDoubled`
(`OneMonitor`) and `PassedLeavesOneRunning` (`PassedMeansRunning`), all from `MonInv`.  None of the
three is inductive: between two runs nothing says that the log is still what a run will read, or that the
monitor found is the one that goes on.  `StepsInv` says which steps a kind of monitor
goes through, with what in hand; `FreshInv` that a run starts one monitor, which was
never there before; `SingleInv` what still runs at each step before the next one is started;
`LogInv` that an outage nobody was told of is in the log, in the copy of it, or was
logged after it was read.

### CloudProofs

`Servers`: `ServersTyped`; `ServerIsKept` (`KeptWhileUsed`), `CallsSucceed` (`UndisturbedSucceeds`) and
`DoneIsSettled` (`DoneMeansSettled`) from `SrvInv`.  A worker between the look-up of the stack and the end
of its set-up owns the lock of cloud-init set-ups, and one that is about to create the stack finds none
(`LockInv`), so nobody deletes a stack in a set-up but in the ways `KeptWhileUsed` names; those that are
registered when a clean-up deletes the stack have registered since it counted them (`LateInv`).  For
the undisturbed calls: what Nova shows while it works (`NovaShows`), what a call may have asked for at
each point (`Requested`), that what Nova does is done for this call (`Lone`), and that it finds or builds
a server that is fit for it, asks only for what Nova takes, waits for what that leads to, and never comes
to a clean-up (`Calm`).

`Images`: `ImagesTyped`; `ImagesWhole` (`ImagesAreWholeOrOnTheirWay`) from `ImInv`.  An image is still its
creator's, or active, or was given up for a reason (`Cared`); one that is active is whole
(`WholeIfActive`), because a file that is uploaded was downloaded as a whole before it was given its
name (`Held`), whichever worker downloaded it.

`LoadBalancers`: `LoadBalancersTyped`; `DeploymentsDo` (`DeploymentsWork`) from `LBInv`: one worker deploys at a
time, the parts before its own are there (`Deployed`), and a load balancer that is not active is
waited for by that worker, or there was trouble, or a health monitor is on its way
(`ReadyOrReason`), so that no change meets one that is being changed.

`EachIsItself`: a behaviour of `MCWaits` satisfies the specification of each of its six machines, since
those that are at rest stutter.  So each of these theorems is one about the run `waits` too; `WaitsTyped`
(`WaitsTypeOK`) follows.

### ConnectionsProofs

`SSHClients`: `SSHTyped`; `ChannelsDoNotLeak` (`NoChannelLeaks`) and `CommandsFailOnlyInTrouble`
(`FailsOnlyInTrouble`) from `SSHInv`: each call in progress is for the proxy of the one before
(`Chained`), a host asks for its proxy only while it is not connected, so the channels counted
for it are its own (`Connecting`), and on the way of an undisturbed call nothing fails but the
first attempt of a client that was dead before (`Smooth`).  The way of a host is the least set with the host in it and the
proxy of each of its members; the lemmas on `Chain` at the beginning say that it is the way of the
proxy and the host itself, and that a host is not on the way of its proxy.

`Topology`: `TopologyTyped`, `IndexesDoAgree` (`IndexesAgree`), `GivenUpForAReason` (`UnreachableIsReal`) and
`NothingIsMissing` (`NothingMissing`) from `TopoInv`: names, addresses and groups refer to nodes that are there
and to their owners (`RegistryInv`), what comes before the next entry of the plan is in place, or optional
(`ProgressInv`), and a connection that is kept as failed had no route, or its machine was down
(`RoutesInv`).

`FixturesTyped` (`FixturesTypeOK`): the four machines of `MCFixtures` together.

### Only model-checked

* Liveness (`AllTestsEnd`, `EndsIfSimple`, `CallsEnd`): out of the prover's reach, like all that needs
  fairness or `ENABLED`.
* The seven counterexamples, each found on a small instance, where one is enough.

No induction over data is needed: no module declares a `RECURSIVE` operator or
a recursive function.

## What is left out

In the modelled components:

* `Shelves`: that `shelve` pickles sets, the directory's creation, the timeouts of the retries
  (a number of attempts stands for them), a file that is damaged.  A stored set is
  read and written in one piece.  What happens after a worker died in the
  middle of deleting is modelled, but no property is claimed of it.  That the dbm excludes other
  processes is assumed (`ExclusiveOpen`): with one that does not, such as `dbm.sqlite3`, the
  default of Python 3.13 as the comment of `_shelves.py:32` says, a sweep and a `removeme`, whose locks
  differ, can overwrite each other, and the ended test stays registered.
* `HeatStack`: template, parameters and outputs; the quota arithmetic (it passes or
  raises); `TOBIKO_PREVENT_CREATE`; two stacks at a time.  A wait may time out at
  any look but the first.
* `ResourceFixture`: the quota arithmetic and `TOBIKO_PREVENT_CREATE`.  A group's rules are one step,
  though the code creates them one by one.
* `TestRuns`: names of fixtures and their look-up, `reset_fixture`, details, results of tests,
  `before_operation` on a whole class.  Outside a test `use_fixture` adds the clean-up to a
  `DummyTestCase` that is thrown away; the model has clean-ups in tests only.
* `Servers`: hypervisors, flavors, quotas, the text of the console and what cloud-init reports (a guest
  boots, is stuck, or does not answer in time), scheduler hints (`validate_scheduler_hints`),
  `TOBIKO_PREVENT_CREATE`.  Heat deletes at once, so that no deletion fails (`HeatStack` has those).  The
  fixture is set up by calls and cleaned up by failures only; no test registers its clean-up.
  What Nova accepts in which status, and shows meanwhile, is external.
* `Images`: the fixture that only waits for an image, queries by other attributes.  Glance lists
  images in any order; the model lets the newest be found.  Three behaviours the model has, or would
  have with a third worker, are claimed by no property: an image that cannot be used (a deactivated one) is
  deleted, but the wait after it begins with the status remembered, so that the first set-up fails; an
  image that a dead worker left queued makes later set-ups wait for ever; and a worker that is slow may
  have an image deleted that a third one was given.  A set-up that fails cleans up whatever has the name.
* `LoadBalancers`: one load balancer, dual-stack or not, since different ones are independent; amphorae,
  traffic, and tests that are skipped for lack of a network.  Members are found by index, so one of a
  server that was created again keeps the old address.  `deploy_hm` looks a monitor up by one
  name and creates it by another, so one that is there may be missed; Octavia refuses the second.
* `Topology`: resolution of names, the order in which addresses are tried, agents and services of the nodes.  The
  fixture that `cleanup_fixture` cleans up is another `SSHConnectionManager` than the one
  in use, so that connections outlive the topology; the model keeps them.
* `SSHClients`: configuration and keys, the manager of the clients (its key is in `Topology`), the forwarding of
  ports.  One command is executed at a time in a worker.
* `Reboot`: the other methods that reset a host (`crash`, `hard`) differ in the command; one that
  never reaches the host is a host that does not go down.
* `Monitors`: what ping, iperf3, curl and the scripts print, and how it is parsed: a line records a success or an
  outage.  DNS and DHCP pings are scripts of the kind that is modelled.
* `Retry`: the clock only moves forward, whereas the code reads the wall clock; the merge
  of limits by `or` (`_retry.py:239`) happens before the loop begins.
* `ShellProcess`: the composition of the command line, decoding; the process over SSH, of which
  `SSHClients` has the connection.  What sudo runs cannot be killed: `NothingLeftRunning` exempts it.
* Between the components: a fixture's registrations are taken to be atomic (as
  `Shelves` is shown to make them), and a registration made outside a test, under the
  shared `Dummy`, occurs in `Shelves` only.

Other components are open in the plan or not worth a model: clients of
services that pass calls on, parsers of command output and tables, configuration,
assertions composed from the above, test cases.  `PROJECT.json` gives the reason for each.  Of the
deployment tools, the checks of containers have a hazard of their own, that the list they compare
is remembered (`lru_cache`, `tripleo/containers.py:76`, `podified/containers.py:54`) while containers
stop; it is 13 in the plan.

## How to run it

    tlc -workers 2 -config shelves.cfg MCShelves.tla   # a run: see PROJECT.json
    tlapm ShelvesProofs.tla                            # the proofs of a module

The longest runs (`shelves`, `heat_setups`, `fixtures`) take two to three minutes on two cores, the
others less; `waits` has 3.6 million distinct states.  The longest proofs take about two minutes.
