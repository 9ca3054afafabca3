----------------------------- MODULE MCFixtures -----------------------------
(***************************************************************************)
(* Shared fixtures: a resource that workers share by name, the fixtures    *)
(* that the tests of a worker set up, the nodes of the topology, and SSH   *)
(* clients.  They share no state: a behaviour is one of the machine that   *)
(* is chosen at first, the others stay at rest.                            *)
(***************************************************************************)
EXTENDS MCResourceFixture, TestRuns, Topology, MCSSH

\* The stack requires the network; the operation requires nothing.
MCRequires == [f \in Fixtures |-> IF f = "stack" THEN {"net"} ELSE {}]

MCOwnerOf ==
  [a \in Addresses |-> CASE a \in {"api0", "in0"} -> "ctl"
                         [] a \in {"in1", "out1", "pub1"} -> "cmp"
                         [] a \in {"in2", "out2"} -> "far"]

\* The inner addresses are reached from the other hosts, the outer ones directly.
MCRoutes ==
  {<<"api0", "no">>, <<"in0", "cmp">>, <<"in1", "ctl">>, <<"out1", "no">>, <<"in2", "cmp">>,
   <<"in2", "ctl">>, <<"pub1", "no">>, <<"out2", "no">>}

MCPlan ==
  <<[hostname |-> <<>>, addresses |-> {"api0"}, group |-> "controller", optional |-> TRUE],
    [hostname |-> <<>>, addresses |-> {"in2"}, group |-> "controller", optional |-> TRUE],
    [hostname |-> <<>>, addresses |-> {"out2"}, group |-> "none", optional |-> TRUE],
    [hostname |-> <<"cmp", "full">>, addresses |-> {"in1", "out1"}, group |-> "compute", optional |-> FALSE],
    [hostname |-> <<"far", "full">>, addresses |-> {}, group |-> "compute", optional |-> FALSE]>>

\* The resource at rest (ResourceAtRest) is a pool of which no call fails: one of
\* those that are modelled.
ASSUME RestAssumption == "pool" \in Kinds /\ FALSE \in Failing

VARIABLE system

fixturesVars == <<system, vars, testRunVars, topologyVars, sshVars>>

\* At rest the workers have run their tests, and the tests have not begun.
ResourceAtRest ==
  /\ kind = "pool" /\ canFail = FALSE
  /\ live = {} /\ whole = {} /\ lastId = 0
  /\ users = {} /\ holder = NoWorker
  /\ pc = [w \in Workers |-> "between"]
  /\ mine = [w \in Workers |-> 0] /\ made = mine
  /\ setupDone = [w \in Workers |-> FALSE] /\ cleanupDone = setupDone /\ failing = setupDone
  /\ tests = [w \in Workers |-> MaxTests]

TestRunsAtRest == isAfter = FALSE /\ runOperations = FALSE /\ preventCreate = FALSE

FixturesInit ==
  /\ system \in {"resource", "tests", "topology", "ssh"}
  /\ IF system = "resource" THEN Init ELSE ResourceAtRest
  /\ system = "tests" \/ TestRunsAtRest
  /\ TestRunsInit /\ TopologyInit /\ SSHInit

OfResource(A) ==
  system = "resource" /\ A /\ UNCHANGED <<system, testRunVars, topologyVars, sshVars>>

OfSSH(A) == system = "ssh" /\ A /\ UNCHANGED <<system, vars, testRunVars, topologyVars>>

\* Tests and the topology may be left as they are for ever.
Rest == system \in {"tests", "topology"} /\ UNCHANGED fixturesVars

FixturesNext ==
  \/ OfResource(Next)
  \/ system = "tests" /\ TestRunsNext /\ UNCHANGED <<system, vars, topologyVars, sshVars>>
  \/ system = "topology" /\ TopologyNext /\ UNCHANGED <<system, vars, testRunVars, sshVars>>
  \/ OfSSH(SSHNext)
  \/ Rest

FixturesTypeOK == TypeOK /\ TestRunsTypeOK /\ TopologyTypeOK /\ SSHTypeOK

FixturesSpec ==
  /\ FixturesInit /\ [][FixturesNext]_fixturesVars
  /\ \A w \in Workers : WF_fixturesVars(OfResource(Step(w)))
  /\ WF_fixturesVars(OfSSH(CallStep))
=============================================================================
