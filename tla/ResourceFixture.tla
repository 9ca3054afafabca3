-------------------------- MODULE ResourceFixture --------------------------
(***************************************************************************)
(* tobiko/openstack/base/_fixture.py: a Neutron resource shared by name    *)
(* between the pytest workers, with the two subclasses of stacks/          *)
(* _neutron.py.  A "group" is a security group, created in one call and    *)
(* filled with its rules in others; a "pool" a subnet pool, created in one.*)
(*                                                                         *)
(* Both decorate try_create_resource, and nothing else, with               *)
(* interworker_synched.  The worker finds the resource or creates it,      *)
(* registers its test as a user of it (the atomic registrations of         *)
(* SharedResources), and deletes it when nobody is registered.             *)
(***************************************************************************)
EXTENDS Integers

CONSTANTS Workers,   \* pytest workers
          NoWorker,  \* the owner of a free lock
          Kinds,     \* of resource: "group", "pool" or both
          Failing,   \* may the calls to Neutron fail? One answer or both
          Cleanups,  \* do tests clean the fixture up (useFixture)?
          MaxTests   \* bound: tests run by a worker

ASSUME ResourceAssumption ==
  /\ NoWorker \notin Workers
  /\ Kinds \subseteq {"group", "pool"}
  /\ Failing \subseteq BOOLEAN /\ Cleanups \in BOOLEAN
  /\ MaxTests \in Nat

VARIABLES
  kind,    \* the kind of resource
  canFail, \* may a call to Neutron fail?
  live,    \* Neutron: ids of the resources of that name
  whole,   \* ids that were given all their rules
  lastId,  \* Neutron: the last id given
  users,   \* workers whose current test is registered
  holder,  \* owner of the inter-worker lock
  pc,      \* control point of a worker
  mine,    \* self._resource, 0 for None
  made,    \* what resource_create has created, 0 before
  setupDone,   \* _setup_executed
  cleanupDone, \* _cleanup_executed
  failing,     \* is the clean-up that of a failed set-up?
  tests        \* tests a worker has begun

setting == <<kind, canFail>>
neutron == <<live, whole, lastId>>
fixture == <<mine, made>>
flags == <<setupDone, cleanupDone, failing>>
vars == <<setting, neutron, users, holder, pc, fixture, flags, tests>>

Synched == {"quota", "look", "create", "fill", "reread", "unlock", "broken"}
Control == {"between", "setup", "verify", "addme", "failed", "using", "clean",
            "id", "delete", "end"} \cup Synched

TypeOK ==
  /\ kind \in Kinds /\ canFail \in Failing
  /\ lastId \in Nat
  /\ live \subseteq 1 .. lastId
  /\ whole \subseteq 1 .. lastId
  /\ users \subseteq Workers
  /\ holder \in Workers \cup {NoWorker}
  /\ pc \in [Workers -> Control]
  /\ \A w \in Workers : pc[w] \in Synched => holder = w
  /\ mine \in [Workers -> 0 .. lastId]
  /\ made \in [Workers -> 0 .. lastId]
  /\ setupDone \in [Workers -> BOOLEAN]
  /\ cleanupDone \in [Workers -> BOOLEAN]
  /\ failing \in [Workers -> BOOLEAN]
  /\ tests \in [Workers -> 0 .. MaxTests]

\* The resource may be there, whole, from an earlier run.
Init ==
  /\ kind \in Kinds /\ canFail \in Failing
  /\ lastId \in {0, 1}
  /\ live = 1 .. lastId
  /\ whole = live
  /\ users = {}
  /\ holder = NoWorker
  /\ pc = [w \in Workers |-> "between"]
  /\ mine = [w \in Workers |-> 0]
  /\ made = [w \in Workers |-> 0]
  /\ setupDone = [w \in Workers |-> FALSE]
  /\ cleanupDone = [w \in Workers |-> FALSE]
  /\ failing = [w \in Workers |-> FALSE]
  /\ tests = [w \in Workers |-> 0]
-----------------------------------------------------------------------------
Goto(w, l) == pc' = [pc EXCEPT ![w] = l]
Set(f, w, x) == [f EXCEPT ![w] = x]

\* What resource_find may return, 0 for None: of several resources a pool
\* takes the first, a group none (sgs.unique raises).
Found ==
  IF live = {} THEN {0}
  ELSE IF kind = "pool" THEN live ELSE {i \in live : live = {i}}

FindFails == canFail \/ Found = {}

BeginTest(w) ==
  /\ pc[w] = "between"
  /\ tests[w] < MaxTests
  /\ tests' = Set(tests, w, tests[w] + 1)
  /\ Goto(w, "setup")
  /\ UNCHANGED <<neutron, users, holder, fixture, flags>>

\* SharedFixture.setUp of a fixture that is set up.
SkipSetUp(w) ==
  /\ pc[w] = "setup"
  /\ setupDone[w]
  /\ Goto(w, "using")
  /\ UNCHANGED <<neutron, users, holder, fixture, flags, tests>>

\* Variant: the lock is taken whoever owns it.
LockAnyway(w) == TRUE

LockFree(w) == holder = NoWorker

SetUp(w) ==
  /\ pc[w] = "setup"
  /\ ~setupDone[w]
  /\ LockFree(w)
  /\ holder' = w
  /\ made' = Set(made, w, 0)
  /\ Goto(w, "quota")
  /\ UNCHANGED <<neutron, users, mine, flags, tests>>
-----------------------------------------------------------------------------
(***************************************************************************)
(* try_create_resource, under the lock.                                    *)
(***************************************************************************)
EnsureQuota(w) ==
  /\ pc[w] = "quota"
  /\ Goto(w, "look") \/ (canFail /\ Goto(w, "broken"))
  /\ UNCHANGED <<neutron, users, holder, fixture, flags, tests>>

Known(w) == mine[w] # 0

LookUp(w) ==
  /\ pc[w] = "look"
  /\ \/ Known(w) /\ Goto(w, "unlock") /\ UNCHANGED mine
     \/ /\ ~Known(w)
        /\ \E i \in Found : /\ mine' = Set(mine, w, i)
                           /\ Goto(w, IF i = 0 THEN "create" ELSE "unlock")
     \/ ~Known(w) /\ FindFails /\ Goto(w, "broken") /\ UNCHANGED mine
  /\ UNCHANGED <<neutron, users, holder, made, flags, tests>>

Create(w) ==
  /\ pc[w] = "create"
  /\ \/ /\ lastId' = lastId + 1
        /\ live' = live \cup {lastId + 1}
        /\ whole' = IF kind = "pool" THEN whole \cup {lastId + 1} ELSE whole
        /\ made' = Set(made, w, lastId + 1)
        /\ IF kind = "pool"
           THEN mine' = Set(mine, w, lastId + 1) /\ Goto(w, "unlock")
           ELSE UNCHANGED mine /\ Goto(w, "fill")
     \/ canFail /\ Goto(w, "broken") /\ UNCHANGED <<neutron, fixture>>
  /\ UNCHANGED <<users, holder, flags, tests>>

\* create_security_group_rule, for each rule; the group may be gone.
Fill(w) ==
  /\ pc[w] = "fill"
  /\ \/ made[w] \in live /\ whole' = whole \cup {made[w]} /\ Goto(w, "reread")
     \/ /\ made[w] \notin live \/ canFail
        /\ Goto(w, "broken")
        /\ UNCHANGED whole
  /\ UNCHANGED <<live, lastId, users, holder, fixture, flags, tests>>

\* resource_create ends with "return self.resource_find()".
Reread(w) ==
  /\ pc[w] = "reread"
  /\ \/ \E i \in Found : mine' = Set(mine, w, i) /\ Goto(w, "unlock")
     \/ FindFails /\ Goto(w, "broken") /\ UNCHANGED mine
  /\ UNCHANGED <<neutron, users, holder, made, flags, tests>>

\* Variant: a creation that fails is tried again without a limit.
UnlockOrRetry(w) ==
  /\ pc[w] \in {"unlock", "broken"}
  /\ holder' = IF pc[w] = "unlock" THEN NoWorker ELSE w
  /\ Goto(w, IF pc[w] = "unlock" THEN "verify" ELSE "quota")
  /\ UNCHANGED <<neutron, users, fixture, flags, tests>>

Unlock(w) ==
  /\ pc[w] \in {"unlock", "broken"}
  /\ holder' = NoWorker
  /\ Goto(w, IF pc[w] = "unlock" THEN "verify" ELSE "failed")
  /\ UNCHANGED <<neutron, users, fixture, flags, tests>>
-----------------------------------------------------------------------------
(***************************************************************************)
(* The rest of setup_fixture, after the lock is released, and the end of   *)
(* SharedFixture.setUp.                                                    *)
(***************************************************************************)
Verify(w) ==
  /\ pc[w] = "verify"
  /\ \/ Known(w) /\ Goto(w, "addme") /\ UNCHANGED mine
     \/ /\ ~Known(w)
        /\ \E i \in Found : /\ mine' = Set(mine, w, i)
                           /\ Goto(w, IF i = 0 THEN "failed" ELSE "addme")
     \/ ~Known(w) /\ FindFails /\ Goto(w, "failed") /\ UNCHANGED mine
  /\ UNCHANGED <<neutron, users, holder, made, flags, tests>>

Addme(w) ==
  /\ pc[w] = "addme"
  /\ users' = users \cup {w}
  /\ setupDone' = Set(setupDone, w, TRUE)
  /\ cleanupDone' = Set(cleanupDone, w, FALSE)
  /\ Goto(w, "using")
  /\ UNCHANGED <<neutron, holder, fixture, failing, tests>>

\* fixtures.Fixture.setUp cleans up after an error, then raises it.
SetUpFails(w) ==
  /\ pc[w] = "failed"
  /\ failing' = Set(failing, w, TRUE)
  /\ Goto(w, "clean")
  /\ UNCHANGED <<neutron, users, holder, fixture, setupDone, cleanupDone, tests>>
-----------------------------------------------------------------------------
(***************************************************************************)
(* SharedFixture.cleanUp and cleanup_fixture, under no lock.               *)
(***************************************************************************)
CleanUp(w) ==
  /\ pc[w] = "using"
  /\ Cleanups
  /\ Goto(w, "clean")
  /\ UNCHANGED <<neutron, users, holder, fixture, flags, tests>>

Removeme(w) ==
  /\ pc[w] = "clean"
  /\ ~cleanupDone[w]
  /\ users' = users \ {w}
  /\ Goto(w, IF users \ {w} = {} THEN "id" ELSE "end")
  /\ UNCHANGED <<neutron, holder, fixture, flags, tests>>

SkipCleanUp(w) ==
  /\ pc[w] = "clean"
  /\ cleanupDone[w]
  /\ Goto(w, "end")
  /\ UNCHANGED <<neutron, users, holder, fixture, flags, tests>>

\* resource_id looks the resource up when it is not known.
GetId(w) ==
  /\ pc[w] = "id"
  /\ \/ Known(w) /\ Goto(w, "delete") /\ UNCHANGED mine
     \/ /\ ~Known(w)
        /\ \E i \in Found : /\ mine' = Set(mine, w, i)
                           /\ Goto(w, IF i = 0 THEN "end" ELSE "delete")
  /\ UNCHANGED <<neutron, users, holder, made, flags, tests>>

Delete(w) ==
  /\ pc[w] = "delete"
  /\ mine[w] \in live \/ kind = "group"
  /\ live' = live \ {mine[w]}
  /\ mine' = Set(mine, w, 0)
  /\ Goto(w, "end")
  /\ UNCHANGED <<whole, lastId, users, holder, made, flags, tests>>

EndCleanUp(w) ==
  /\ pc[w] = "end"
  /\ setupDone' = Set(setupDone, w, FALSE)
  /\ cleanupDone' = Set(cleanupDone, w, TRUE)
  /\ failing' = Set(failing, w, FALSE)
  /\ users' = users \ {w}
  /\ Goto(w, "between")
  /\ UNCHANGED <<neutron, holder, fixture, tests>>

\* The call fails, or the pool is not there any more: the error leaves the
\* flags alone unless the clean-up is that of a failed set-up.
DeleteFails(w) ==
  /\ \/ pc[w] = "id" /\ ~Known(w) /\ FindFails
     \/ pc[w] = "delete" /\ (canFail \/ (mine[w] \notin live /\ kind = "pool"))
  /\ setupDone' = Set(setupDone, w, setupDone[w] /\ ~failing[w])
  /\ cleanupDone' = Set(cleanupDone, w, cleanupDone[w] \/ failing[w])
  /\ failing' = Set(failing, w, FALSE)
  /\ users' = users \ {w}
  /\ Goto(w, "between")
  /\ UNCHANGED <<neutron, holder, fixture, tests>>

\* The test ends and its registration is swept; the fixture stays set up.
EndTest(w) ==
  /\ pc[w] = "using"
  /\ users' = users \ {w}
  /\ Goto(w, "between")
  /\ UNCHANGED <<neutron, holder, fixture, flags, tests>>

Finished ==
  /\ \A w \in Workers : pc[w] = "between" /\ tests[w] = MaxTests
  /\ UNCHANGED vars

Step(w) ==
  /\ UNCHANGED setting
  /\ \/ BeginTest(w) \/ SkipSetUp(w) \/ SetUp(w)
     \/ EnsureQuota(w) \/ LookUp(w) \/ Create(w) \/ Fill(w) \/ Reread(w)
     \/ Unlock(w) \/ Verify(w) \/ Addme(w) \/ SetUpFails(w)
     \/ CleanUp(w) \/ Removeme(w) \/ SkipCleanUp(w) \/ GetId(w) \/ Delete(w)
     \/ EndCleanUp(w) \/ DeleteFails(w) \/ EndTest(w)

Next == Finished \/ \E w \in Workers : Step(w)

Spec == Init /\ [][Next]_vars

\* Workers are processes: each is scheduled as long as it can run.
FairSpec == Spec /\ \A w \in Workers : WF_vars(Step(w))
-----------------------------------------------------------------------------
\* Workers that set the fixture up at the same time create one resource: there
\* are never two of the same name (try_create_resource, resource_find).
OneOfTheName == \A i, j \in live : i = j

\* Every set-up and clean-up ends, and so does every test: the lock is
\* released on every path, the failing ones included.
AllTestsEnd ==
  <>[](\A w \in Workers : pc[w] = "between" /\ tests[w] = MaxTests)

\* "This SG will by default allow SSH and ICMP to the instance": the group a
\* test uses, if it is still there, has its rules (resource_create).
GroupsHaveRules ==
  \A w \in Workers : pc[w] = "using" /\ mine[w] \in live => mine[w] \in whole

\* When no call fails it does: a group is there before its rules are, but it
\* is not used before, and nobody else's clean-up deletes it meanwhile.
RulesUnlessFailure == ~canFail => GroupsHaveRules
=============================================================================
