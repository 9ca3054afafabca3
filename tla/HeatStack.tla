----------------------------- MODULE HeatStack -----------------------------
(***************************************************************************)
(* tobiko/openstack/heat/_stack.py: one Heat stack shared by name between  *)
(* the pytest workers.  Each worker has its own fixture object (a          *)
(* SharedFixture) that finds or creates the stack, registers the running   *)
(* test as a user of it, and deletes it when nobody is registered.         *)
(*                                                                         *)
(* Registrations are the atomic ones of SharedResources.  Some subclasses  *)
(* decorate setup_fixture or setup_stack with interworker_synched          *)
(* (Locked); cleanup_fixture is never decorated.  A timeout may expire at  *)
(* any attempt but the first, whose elapsed time is zero.                  *)
(***************************************************************************)
EXTENDS Integers, FiniteSets

CONSTANTS Workers,    \* pytest workers
          NoWorker,   \* the owner of a free lock
          Locked,     \* is the set-up done under an inter-worker lock?
          CanFail,    \* may the creation of a stack fail?
          Cleanups,   \* do tests clean the fixture up (useFixture)?
          RetryCount, \* retry_count, attempts at creating the stack
          MaxTests    \* bound: tests run by a worker

ASSUME HeatAssumption ==
  /\ NoWorker \notin Workers
  /\ Locked \in BOOLEAN /\ CanFail \in BOOLEAN /\ Cleanups \in BOOLEAN
  /\ RetryCount \in Nat \ {0} /\ MaxTests \in Nat
  /\ IsFiniteSet(Workers)

VARIABLES
  heat,     \* Heat: the stack of that name, or NoStack
  users,    \* workers whose current test is registered
  holder,   \* owner of the inter-worker lock
  pc,       \* control point of a worker
  phase,    \* what wait_for_stack_status is called for
  stack,    \* self.stack: the stack as last seen
  cached,   \* argument "cached" of the wait
  newId,    \* id of the stack this attempt created
  attempt,  \* number of the attempt at creating it
  asked,    \* history: did the attempt begin by asking Heat?
  setupDone,   \* _setup_executed
  cleanupDone, \* _cleanup_executed
  failing,  \* is the clean-up that of a failed set-up?
  tests     \* tests a worker has begun

server == <<heat, users, holder>>
waiting == <<phase, stack, cached, newId, attempt, asked>>
flags == <<setupDone, cleanupDone, failing>>
vars == <<server, pc, waiting, flags, tests>>

Ids == 1 .. (2 * Cardinality(Workers) + 2)
CIP == "CREATE_IN_PROGRESS"
CC == "CREATE_COMPLETE"
CF == "CREATE_FAILED"
DIP == "DELETE_IN_PROGRESS"
DC == "DELETE_COMPLETE"
DF == "DELETE_FAILED"
NoStack == [id |-> 0, status |-> "NONE"]
Stack == [id : Ids, status : {CIP, CC, CF, DIP, DC, DF}] \cup {NoStack}

Creating == {"look", "delete", "prepare", "create", "undo", "duplicate",
             "again", "addme", "unlock", "failed"}
Control == {"between", "setup", "using", "clean", "drop", "end"} \cup Creating

TypeOK ==
  /\ heat \in Stack
  /\ users \in SUBSET Workers
  /\ holder \in Workers \cup {NoWorker}
  /\ pc \in [Workers -> Control]
  /\ phase \in [Workers -> {"first", "existing", "created", "gone", "cleanup"}]
  /\ stack \in [Workers -> Stack]
  /\ cached \in [Workers -> BOOLEAN]
  /\ newId \in [Workers -> Ids \cup {0}]
  /\ attempt \in [Workers -> 0 .. RetryCount]
  /\ asked \in [Workers -> BOOLEAN]
  /\ setupDone \in [Workers -> BOOLEAN]
  /\ cleanupDone \in [Workers -> BOOLEAN]
  /\ failing \in [Workers -> BOOLEAN]
  /\ tests \in [Workers -> 0 .. MaxTests]

\* The stack may be there from an earlier run, in any state.
Init ==
  /\ heat \in {NoStack} \cup {[id |-> 1, status |-> x] : x \in {CIP, CC, CF, DIP, DF}}
  /\ heat # NoStack /\ heat.status \in {CF, DF} => CanFail
  /\ users = {}
  /\ holder = NoWorker
  /\ pc = [w \in Workers |-> "between"]
  /\ phase = [w \in Workers |-> "first"]
  /\ stack = [w \in Workers |-> NoStack]
  /\ cached = [w \in Workers |-> FALSE]
  /\ newId = [w \in Workers |-> 0]
  /\ attempt = [w \in Workers |-> 0]
  /\ asked = [w \in Workers |-> FALSE]
  /\ setupDone = [w \in Workers |-> FALSE]
  /\ cleanupDone = [w \in Workers |-> FALSE]
  /\ failing = [w \in Workers |-> FALSE]
  /\ tests = [w \in Workers |-> 0]
-----------------------------------------------------------------------------
(***************************************************************************)
(* The Heat service.  Lookups by name find the one stack that has not      *)
(* disappeared; ids are not used twice while anyone remembers them.        *)
(***************************************************************************)
Status(s) == IF s = NoStack THEN DC ELSE s.status
InProgress(s) == Status(s) \in {CIP, DIP}
Known == {heat, NoStack} \cup {stack[w] : w \in Workers}
UsedIds == {s.id : s \in Known \ {NoStack}} \cup {newId[w] : w \in Workers}
FreshId == CHOOSE i \in Ids \ UsedIds : \A j \in Ids \ UsedIds : i <= j

DeleteNamed ==
  heat' = IF Status(heat) = DC THEN heat ELSE [heat EXCEPT !.status = DIP]

DeleteId(i) ==
  heat' = IF Status(heat) = DC \/ heat.id # i THEN heat
          ELSE [heat EXCEPT !.status = DIP]

HeatStep ==
  /\ heat # NoStack
  /\ \/ heat.status = CIP /\ \E x \in {CC} \cup (IF CanFail THEN {CF} ELSE {}) :
                               heat' = [heat EXCEPT !.status = x]
     \/ heat.status = DIP /\ \E x \in {DC} \cup (IF CanFail THEN {DF} ELSE {}) :
                               heat' = [heat EXCEPT !.status = x]
     \/ heat.status \in {DIP, DC} /\ heat' = NoStack
  /\ UNCHANGED <<users, holder, pc, waiting, flags, tests>>
-----------------------------------------------------------------------------
(***************************************************************************)
(* Tests and SharedFixture.setUp.                                          *)
(***************************************************************************)
Goto(w, l) == pc' = [pc EXCEPT ![w] = l]
Set(f, w, x) == [f EXCEPT ![w] = x]

BeginTest(w) ==
  /\ pc[w] = "between"
  /\ tests[w] < MaxTests
  /\ tests' = Set(tests, w, tests[w] + 1)
  /\ Goto(w, "setup")
  /\ UNCHANGED <<server, waiting, flags>>

\* The fixture of an earlier test of this worker is used as it is.
SkipSetUp(w) ==
  /\ pc[w] = "setup"
  /\ setupDone[w]
  /\ Goto(w, "using")
  /\ UNCHANGED <<server, waiting, flags, tests>>

\* Variant: the lock is taken whoever owns it.
LockAnyway(w) == TRUE

LockFree(w) == Locked => holder = NoWorker

\* wait_for_stack_status(cached=True) begins.
Wait(w, p) ==
  /\ phase' = Set(phase, w, p)
  /\ cached' = Set(cached, w, TRUE)
  /\ Goto(w, "look")

SetUp(w) ==
  /\ pc[w] = "setup"
  /\ ~setupDone[w]
  /\ LockFree(w)
  /\ holder' = IF Locked THEN w ELSE holder
  /\ attempt' = Set(attempt, w, 1)
  /\ Wait(w, "first")
  /\ UNCHANGED <<heat, users, stack, newId, asked, flags, tests>>
-----------------------------------------------------------------------------
(***************************************************************************)
(* wait_for_stack_status: the first look takes self.stack if there is one, *)
(* the others ask Heat.                                                    *)
(***************************************************************************)
Seen(w) == IF cached[w] /\ stack[w] # NoStack THEN stack[w] ELSE heat

Expected(w) ==
  CASE phase[w] = "first" -> {CC, CF, CIP, DC, DF}
    [] phase[w] \in {"existing", "created"} -> {CIP, CC}
    [] OTHER -> {DC}

\* Variant: get_stack leaves self.stack alone when there is no stack.
StoredFound(w) == IF Seen(w) = NoStack THEN stack[w] ELSE Seen(w)

Stored(w) == Seen(w)

Look(w) ==
  /\ pc[w] = "look"
  /\ stack' = Set(stack, w, Stored(w))
  /\ asked' = IF phase[w] = "first"
              THEN Set(asked, w, ~cached[w] \/ stack[w] = NoStack) ELSE asked
  /\ UNCHANGED <<server, newId, attempt, tests>>

\* The status is not final: the wait goes on, or its timeout expires.  Only a
\* wait for the deletion goes on while a deleted stack is still there.
Pending(w) ==
  /\ Seen(w) # NoStack
  /\ InProgress(Seen(w)) \/ (Status(Seen(w)) = DC /\ phase[w] \in {"gone", "cleanup"})
Over(w) == Pending(w) => ~cached[w]

\* Still in progress, or deleted and still present: look again later.
LookAgain(w) ==
  /\ Look(w)
  /\ UNCHANGED flags
  /\ \/ Status(Seen(w)) \notin Expected(w) /\ InProgress(Seen(w))
     \/ phase[w] \in {"gone", "cleanup"} /\ Seen(w) # NoStack /\ Status(Seen(w)) = DC
  /\ cached' = Set(cached, w, FALSE)
  /\ UNCHANGED <<pc, phase>>

\* try_create_stack, first wait: a stack that is being created or complete
\* is taken, a failed one deleted, a deleted one awaited to disappear.
LookFirst(w) ==
  /\ Look(w)
  /\ UNCHANGED flags
  /\ phase[w] = "first"
  /\ \/ /\ Status(Seen(w)) \in {CIP, CC}
        /\ Goto(w, "addme")
        /\ UNCHANGED <<phase, cached>>
     \/ /\ Status(Seen(w)) \in {CF, DF}
        /\ Goto(w, "delete")
        /\ UNCHANGED <<phase, cached>>
     \/ Seen(w) # NoStack /\ Status(Seen(w)) = DC /\ Wait(w, "gone")
     \/ Seen(w) = NoStack /\ Goto(w, "prepare") /\ UNCHANGED <<phase, cached>>

\* validate_created_stack, after a conflict or a creation; another id than
\* the one created makes the latter a duplicate.
LookCreated(w) ==
  /\ Look(w)
  /\ UNCHANGED flags
  /\ phase[w] \in {"existing", "created"}
  /\ Status(Seen(w)) \in {CIP, CC}
  /\ Goto(w, IF phase[w] = "created" /\ Seen(w).id # newId[w]
             THEN "duplicate" ELSE "addme")
  /\ UNCHANGED <<phase, cached>>

\* wait_until_stack_deleted: the stack has disappeared.
LookGone(w) ==
  /\ Look(w)
  /\ UNCHANGED flags
  /\ phase[w] \in {"gone", "cleanup"}
  /\ Seen(w) = NoStack
  /\ Goto(w, IF phase[w] = "gone" THEN "prepare" ELSE "end")
  /\ UNCHANGED <<phase, cached>>

\* The wait ends, at once or by a timeout, with an unexpected status: an
\* InvalidFixtureError, that create_stack catches.
LookInvalid(w) ==
  /\ Look(w)
  /\ UNCHANGED flags
  /\ phase[w] # "cleanup"
  /\ Seen(w) # NoStack
  /\ Status(Seen(w)) \notin Expected(w)
  /\ Over(w)
  /\ Goto(w, IF phase[w] = "created" THEN "undo" ELSE "again")
  /\ UNCHANGED <<phase, cached>>

\* HeatStackNotFound, or a deleted stack still present at the last attempt:
\* errors create_stack does not catch.
LookBroken(w) ==
  /\ Look(w)
  /\ UNCHANGED flags
  /\ \/ phase[w] \in {"existing", "created"} /\ Seen(w) = NoStack
     \/ phase[w] = "gone" /\ Seen(w) # NoStack /\ Status(Seen(w)) = DC
  /\ Over(w)
  /\ Goto(w, "failed")
  /\ UNCHANGED <<phase, cached>>
-----------------------------------------------------------------------------
(***************************************************************************)
(* try_create_stack and create_stack.  delete_stack forgets self.stack     *)
(* first, so without an id it deletes whatever has the stack's name.       *)
(***************************************************************************)
DeleteFailed(w) ==
  /\ pc[w] = "delete"
  /\ DeleteId(stack[w].id)
  /\ stack' = Set(stack, w, NoStack)
  /\ Wait(w, "gone")
  /\ UNCHANGED <<users, holder, newId, attempt, asked, flags, tests>>

\* ensure_quota_limits may refuse (an InvalidFixtureError).
Prepare(w) ==
  /\ pc[w] = "prepare"
  /\ \/ Goto(w, "create")
     \/ CanFail /\ Goto(w, "again")
  /\ UNCHANGED <<server, waiting, flags, tests>>

Create(w) ==
  /\ pc[w] = "create"
  /\ IF heat = NoStack
     THEN /\ heat' = [id |-> FreshId, status |-> CIP]
          /\ newId' = Set(newId, w, FreshId)
          /\ Wait(w, "created")
     ELSE /\ Wait(w, "existing") \* HTTPConflict
          /\ UNCHANGED <<heat, newId>>
  /\ UNCHANGED <<users, holder, stack, attempt, asked, flags, tests>>

DeleteCreated(w) ==
  /\ pc[w] \in {"undo", "duplicate"}
  /\ DeleteId(newId[w])
  /\ stack' = Set(stack, w, NoStack)
  /\ Goto(w, IF pc[w] = "undo" THEN "again" ELSE "addme")
  /\ UNCHANGED <<users, holder, phase, cached, newId, attempt, asked, flags,
                 tests>>

\* Variant: one attempt too many.
OneMoreAttempt(w) == attempt[w] <= RetryCount

MoreAttempts(w) == attempt[w] < RetryCount

\* Variant: the attempts are not counted.
SameAttempt(w) == attempt[w]

NextAttempt(w) == attempt[w] + 1

Again(w) ==
  /\ pc[w] = "again"
  /\ MoreAttempts(w)
  /\ attempt' = Set(attempt, w, NextAttempt(w))
  /\ DeleteNamed
  /\ stack' = Set(stack, w, NoStack)
  /\ newId' = Set(newId, w, 0)
  /\ Wait(w, "first")
  /\ UNCHANGED <<users, holder, asked, flags, tests>>

\* The last attempt, by number or by retry_timeout.
LastAttempt(w) ==
  /\ pc[w] = "again"
  /\ attempt[w] = RetryCount \/ attempt[w] > 1
  /\ Goto(w, "failed")
  /\ UNCHANGED <<server, waiting, flags, tests>>

\* setup_stack: addme_to_shared_resource once the stack is there.
Addme(w) ==
  /\ pc[w] = "addme"
  /\ users' = users \cup {w}
  /\ Goto(w, "unlock")
  /\ UNCHANGED <<heat, holder, waiting, flags, tests>>

Unlock(w) ==
  /\ pc[w] \in {"unlock", "failed"}
  /\ holder' = IF Locked THEN NoWorker ELSE holder
  /\ attempt' = Set(attempt, w, 0)
  /\ newId' = Set(newId, w, 0)
  /\ IF pc[w] = "unlock"
     THEN /\ setupDone' = Set(setupDone, w, TRUE)
          /\ cleanupDone' = Set(cleanupDone, w, FALSE)
          /\ Goto(w, "using")
          /\ UNCHANGED failing
     ELSE /\ failing' = Set(failing, w, TRUE)
          /\ Goto(w, "clean")
          /\ UNCHANGED <<setupDone, cleanupDone>>
  /\ UNCHANGED <<heat, users, phase, stack, cached, asked, tests>>
-----------------------------------------------------------------------------
(***************************************************************************)
(* SharedFixture.cleanUp, after a test that used the fixture or after a    *)
(* set-up that failed, and cleanup_fixture.                                *)
(***************************************************************************)
CleanUp(w) ==
  /\ pc[w] = "using"
  /\ Cleanups
  /\ Goto(w, "clean")
  /\ UNCHANGED <<server, waiting, flags, tests>>

\* The set of users that is left decides; the stack is deleted later.
Removeme(w) ==
  /\ pc[w] = "clean"
  /\ ~cleanupDone[w]
  /\ users' = users \ {w}
  /\ Goto(w, IF users \ {w} = {} THEN "drop" ELSE "end")
  /\ UNCHANGED <<heat, holder, waiting, flags, tests>>

SkipCleanUp(w) ==
  /\ pc[w] = "clean"
  /\ cleanupDone[w]
  /\ Goto(w, "end")
  /\ UNCHANGED <<server, waiting, flags, tests>>

Drop(w) ==
  /\ pc[w] = "drop"
  /\ DeleteNamed
  /\ stack' = Set(stack, w, NoStack)
  /\ Wait(w, "cleanup")
  /\ UNCHANGED <<users, holder, newId, attempt, asked, flags, tests>>

EndCleanUp(w) ==
  /\ pc[w] = "end"
  /\ setupDone' = Set(setupDone, w, FALSE)
  /\ cleanupDone' = Set(cleanupDone, w, TRUE)
  /\ failing' = Set(failing, w, FALSE)
  /\ users' = users \ {w}
  /\ Goto(w, "between")
  /\ UNCHANGED <<heat, holder, waiting, tests>>

\* cleanup_fixture raises: the flags are set only when the clean-up is that
\* of a failed set-up, which collects the errors instead of raising them.
CleanUpFails(w) ==
  /\ Look(w)
  /\ phase[w] = "cleanup"
  /\ Seen(w) # NoStack
  /\ Over(w)
  /\ setupDone' = Set(setupDone, w, setupDone[w] /\ ~failing[w])
  /\ cleanupDone' = Set(cleanupDone, w, cleanupDone[w] \/ failing[w])
  /\ failing' = Set(failing, w, FALSE)
  /\ Goto(w, "between")
  /\ UNCHANGED <<phase, cached>>

\* The test ends and its registration is swept; the fixture stays set up.
EndTest(w) ==
  /\ pc[w] = "using"
  /\ users' = users \ {w}
  /\ Goto(w, "between")
  /\ UNCHANGED <<heat, holder, waiting, flags, tests>>

Finished ==
  /\ \A w \in Workers : pc[w] = "between" /\ tests[w] = MaxTests
  /\ UNCHANGED vars

Step(w) ==
  \/ BeginTest(w) \/ SkipSetUp(w) \/ SetUp(w)
  \/ LookAgain(w) \/ LookFirst(w) \/ LookCreated(w) \/ LookGone(w)
  \/ LookInvalid(w) \/ LookBroken(w)
  \/ DeleteFailed(w) \/ Prepare(w) \/ Create(w) \/ DeleteCreated(w)
  \/ Again(w) \/ LastAttempt(w) \/ Addme(w) \/ Unlock(w)
  \/ CleanUp(w) \/ Removeme(w) \/ SkipCleanUp(w) \/ Drop(w) \/ EndCleanUp(w)
  \/ CleanUpFails(w) \/ EndTest(w)

Next == HeatStep \/ Finished \/ \E w \in Workers : Step(w)

Spec == Init /\ [][Next]_vars

\* Workers are processes and Heat goes on with what it began.
FairSpec == /\ Spec
            /\ WF_vars(HeatStep)
            /\ \A w \in Workers : WF_vars(Step(w))
-----------------------------------------------------------------------------
\* The assertion at _stack.py:253: when a worker gets to create the stack it
\* remembers none, however its waits ended.
NothingRemembered ==
  \A w \in Workers : pc[w] \in {"prepare", "create"} => stack[w] = NoStack

\* try_create_stack and create_stack delete what they found failed or made
\* themselves, never a stack another worker completed: under the lock a
\* set-up that began by asking Heat does not meet one it did not take.
DeletesComplete(w) ==
  /\ pc[w] \in {"delete", "undo", "duplicate", "again"}
  /\ Status(heat) = CC /\ heat' # heat
  /\ pc'[w] # pc[w]

CreationSparesComplete ==
  [][\A w \in Workers : DeletesComplete(w) /\ holder = w => ~asked[w]]_vars

\* test_setup_when_create_complete: setting up where the stack is complete
\* deletes nothing.
SetUpSparesComplete == [][\A w \in Workers : ~DeletesComplete(w)]_vars

\* "not deleted because %d tests are using it": cleanup_fixture deletes the
\* stack only while no test is registered.
CleanupDeletesUnused ==
  [][\A w \in Workers : pc[w] = "drop" /\ heat' # heat => users = {}]_vars

\* Every set-up and clean-up ends, and so does every test.
AllTestsEnd ==
  <>[](\A w \in Workers : pc[w] = "between")
=============================================================================
