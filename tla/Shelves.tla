------------------------------ MODULE Shelves ------------------------------
(***************************************************************************)
(* tobiko/common/_shelves.py: the registrations of the test cases that use *)
(* a shared resource, kept in one dbm file per shelf and written by every  *)
(* pytest worker, and tobiko/common/_lockutils.py: the inter-process locks *)
(* around each call.                                                       *)
(*                                                                         *)
(* A lock is a POSIX record lock on a file named after the decorator's     *)
(* name and the first positional argument of the call.  The functions      *)
(* below therefore do not share one lock: addme_to_shared_resource and     *)
(* removeme_from_shared_resource lock the shelf, the sweep that ends a     *)
(* test locks the test, and initialize_shelves the bare name.              *)
(***************************************************************************)
EXTENDS Integers

CONSTANTS Workers,       \* pytest (xdist) worker processes
          NoWorker,      \* the owner of a free lock
          Shelves,       \* shelf names, one dbm file each
          Resources,     \* the keys of a shelf
          Tests,         \* test case identifiers, each run at most once
          Dummy,         \* identifier outside any test (DummyTestCase)
          NoTest,        \* a worker that runs no test
          BaseLock,      \* the lock name without an argument
          RunUid,        \* PYTEST_XDIST_TESTRUNUID of this run, or NoUid
          OldUid,        \* that of an earlier run
          NoUid,         \* the variable is unset, or the key absent
          ExclusiveOpen, \* does opening a dbm file exclude others? (gdbm)
          MaxTries,      \* attempts the retry loops make at opening a file
          MaxCalls,      \* bound: addme and removeme calls of a worker
          MaxCrashes     \* bound: crashes of workers

Ids == Tests \cup {Dummy}
Keys == {BaseLock} \cup Shelves \cup Tests

ASSUME NamesAssumption ==
  /\ NoWorker \notin Workers
  /\ Dummy \notin Tests
  /\ NoTest \notin Tests
  /\ BaseLock \notin Shelves \cup Tests
  /\ Shelves \cap Tests = {}
  /\ Shelves # {} /\ Resources # {}
  /\ OldUid # RunUid /\ OldUid # NoUid

ASSUME BoundsAssumption ==
  /\ ExclusiveOpen \in BOOLEAN
  /\ MaxTries \in Nat \ {0}
  /\ MaxCalls \in Nat
  /\ MaxCrashes \in Nat

\* Without xdist there is a single process, which nothing restarts.
ASSUME SingleAssumption ==
  RunUid = NoUid => \A v, w \in Workers : v = w

VARIABLES
  uid,      \* the run recorded in the test_run shelf
  files,    \* shelves whose file exists
  db,       \* content: resource -> set of identifiers
  opened,   \* workers that have a shelf's file open
  holder,   \* owner of each inter-process lock
  pc,       \* control point of a worker
  fn,       \* shelves function the worker is in
  shelf,    \* its shelf argument
  key,      \* resource being updated
  cells,    \* resources still to be updated
  aux,      \* the set read from the file (auxset)
  tries,    \* attempts at opening the file
  todo,     \* shelves still to be swept
  test,     \* test a worker runs
  pending,  \* tests no worker has begun
  unswept,  \* tests that ended without a complete sweep
  torn,     \* has a worker died while deleting the old shelves?
  calls,    \* calls made by a worker
  crashes

data == <<uid, files, db>>
locks == <<opened, holder>>
call == <<fn, shelf, key, cells, aux, tries, todo>>
history == <<pending, unswept, torn, crashes>>
vars == <<data, locks, pc, call, test, calls, history>>

Functions == {"none", "init", "addme", "removeme", "sweep"}
Session == {"get", "put", "read", "write", "close"}
Control == {"start", "init", "unlink", "idle", "running", "acquire", "open",
            "outer", "visit", "release"} \cup Session

TypeOK ==
  /\ uid \in {RunUid, OldUid, NoUid}
  /\ files \in SUBSET Shelves
  /\ db \in [Shelves -> [Resources -> SUBSET Ids]]
  /\ opened \in [Shelves -> SUBSET Workers]
  /\ holder \in [Keys -> Workers \cup {NoWorker}]
  /\ pc \in [Workers -> Control]
  /\ fn \in [Workers -> Functions]
  /\ shelf \in [Workers -> Shelves]
  /\ key \in [Workers -> Resources]
  /\ cells \in [Workers -> SUBSET Resources]
  /\ aux \in [Workers -> SUBSET Ids]
  /\ tries \in [Workers -> 0 .. MaxTries]
  /\ todo \in [Workers -> SUBSET Shelves]
  /\ test \in [Workers -> Tests \cup {NoTest}]
  /\ pending \in SUBSET Tests
  /\ unswept \in SUBSET Tests
  /\ torn \in BOOLEAN
  /\ calls \in [Workers -> 0 .. MaxCalls]
  /\ crashes \in 0 .. MaxCrashes

NoUsers == [r \in Resources |-> {}]

\* What an earlier run left behind: any registrations, of any identifiers.
Init ==
  /\ uid \in {OldUid, NoUid}
  /\ files \in SUBSET Shelves
  /\ db \in [Shelves -> [Resources -> SUBSET Ids]]
  /\ \A s \in Shelves \ files : db[s] = NoUsers
  /\ opened = [s \in Shelves |-> {}]
  /\ holder = [k \in Keys |-> NoWorker]
  /\ pc = [w \in Workers |-> "start"]
  /\ fn = [w \in Workers |-> "none"]
  /\ shelf = [w \in Workers |-> CHOOSE s \in Shelves : TRUE]
  /\ key = [w \in Workers |-> CHOOSE r \in Resources : TRUE]
  /\ cells = [w \in Workers |-> {}]
  /\ aux = [w \in Workers |-> {}]
  /\ tries = [w \in Workers |-> 0]
  /\ todo = [w \in Workers |-> {}]
  /\ test = [w \in Workers |-> NoTest]
  /\ pending = Tests
  /\ unswept = {}
  /\ torn = FALSE
  /\ calls = [w \in Workers |-> 0]
  /\ crashes = 0
-----------------------------------------------------------------------------
(***************************************************************************)
(* interworker_synched: acquiring polls until no other process owns the    *)
(* lock; a process that owns it already succeeds at once, and its first    *)
(* release frees it.                                                       *)
(***************************************************************************)
Goto(w, l) == pc' = [pc EXCEPT ![w] = l]

Id(w) == IF test[w] = NoTest THEN Dummy ELSE test[w]

LockName(w) ==
  CASE fn[w] = "init" -> BaseLock
    [] fn[w] = "sweep" -> test[w]
    [] OTHER -> shelf[w]

\* Variant: the lock is not exclusive between processes.
TakeAnyway(w, k) == holder' = [holder EXCEPT ![k] = w]

Take(w, k) ==
  /\ holder[k] \in {NoWorker, w}
  /\ holder' = [holder EXCEPT ![k] = w]

Drop(k) == holder' = [holder EXCEPT ![k] = NoWorker]
-----------------------------------------------------------------------------
(***************************************************************************)
(* initialize_shelves, called by a session fixture of every worker.        *)
(***************************************************************************)
StartInit(w) ==
  /\ pc[w] = "start"
  /\ Take(w, BaseLock)
  /\ fn' = [fn EXCEPT ![w] = "init"]
  /\ Goto(w, "init")
  /\ UNCHANGED <<data, opened, shelf, key, cells, aux, tries, todo, test,
                 calls, history>>

\* Under xdist the first worker to come records the run and clears the
\* directory; a single process always does.
CheckUid(w) ==
  /\ pc[w] = "init"
  /\ IF RunUid # NoUid /\ uid = RunUid
     THEN Goto(w, "release") /\ UNCHANGED uid
     ELSE /\ uid' = IF RunUid = NoUid THEN uid ELSE RunUid
          /\ Goto(w, "unlink")
  /\ UNCHANGED <<files, db, locks, call, test, calls, history>>

Unlink(w) ==
  /\ pc[w] = "unlink"
  /\ \E s \in files :
       /\ files' = files \ {s}
       /\ db' = [db EXCEPT ![s] = NoUsers]
  /\ UNCHANGED <<uid, locks, pc, call, test, calls, history>>

EndUnlink(w) ==
  /\ pc[w] = "unlink"
  /\ files = {}
  /\ Goto(w, "release")
  /\ UNCHANGED <<data, locks, call, test, calls, history>>
-----------------------------------------------------------------------------
(***************************************************************************)
(* The worker between calls: it begins tests, and fixtures call            *)
(* addme_to_shared_resource and removeme_from_shared_resource inside a     *)
(* test or, from a class level set-up, outside any.                        *)
(***************************************************************************)
BeginTest(w) ==
  /\ pc[w] = "idle"
  /\ \E t \in pending :
       /\ test' = [test EXCEPT ![w] = t]
       /\ pending' = pending \ {t}
  /\ Goto(w, "running")
  /\ UNCHANGED <<data, locks, call, calls, unswept, torn, crashes>>

Call(w) ==
  /\ pc[w] \in {"idle", "running"}
  /\ calls[w] < MaxCalls
  /\ \E f \in {"addme", "removeme"}, s \in Shelves, r \in Resources :
       /\ fn' = [fn EXCEPT ![w] = f]
       /\ shelf' = [shelf EXCEPT ![w] = s]
       /\ key' = [key EXCEPT ![w] = r]
       /\ cells' = [cells EXCEPT ![w] = {r}]
  /\ calls' = [calls EXCEPT ![w] = @ + 1]
  /\ Goto(w, "acquire")
  /\ UNCHANGED <<data, locks, aux, tries, todo, test, history>>

Acquire(w) ==
  /\ pc[w] = "acquire"
  /\ Take(w, LockName(w))
  /\ Goto(w, "open")
  /\ UNCHANGED <<data, opened, call, test, calls, history>>
-----------------------------------------------------------------------------
(***************************************************************************)
(* "with shelve.open(shelf_path) as db", in a retry loop.  A gdbm file is  *)
(* open in one process at a time: opening it fails otherwise.  The last    *)
(* attempt of addme and removeme raises, that of a sweep skips the shelf.  *)
(***************************************************************************)
CanOpen(w) == ExclusiveOpen => opened[shelf[w]] = {}

\* Variant: the retries never come to an end.
NoLastTry(w) == FALSE

LastTry(w) == tries[w] + 1 >= MaxTries

Open(w) ==
  /\ pc[w] = "open"
  /\ CanOpen(w)
  /\ opened' = [opened EXCEPT ![shelf[w]] = @ \cup {w}]
  /\ files' = files \cup {shelf[w]}
  /\ cells' = [cells EXCEPT ![w] = IF fn[w] = "sweep" THEN Resources ELSE @]
  /\ tries' = [tries EXCEPT ![w] = 0]
  /\ Goto(w, IF fn[w] = "removeme" THEN "get" ELSE "read")
  /\ UNCHANGED <<uid, db, holder, fn, shelf, key, aux, todo, test, calls,
                 history>>

OpenFails(w) ==
  /\ pc[w] = "open"
  /\ ~CanOpen(w)
  /\ ~LastTry(w)
  /\ tries' = [tries EXCEPT ![w] = @ + 1]
  /\ UNCHANGED <<data, locks, pc, fn, shelf, key, cells, aux, todo, test,
                 calls, history>>

GiveUp(w) ==
  /\ pc[w] = "open"
  /\ ~CanOpen(w)
  /\ LastTry(w)
  /\ tries' = [tries EXCEPT ![w] = 0]
  /\ cells' = [cells EXCEPT ![w] = {}]
  /\ unswept' = IF fn[w] = "sweep" THEN unswept \cup {test[w]} ELSE unswept
  /\ Goto(w, "release")
  /\ UNCHANGED <<data, locks, fn, shelf, key, aux, todo, test, calls,
                 pending, torn, crashes>>

\* removeme first stores "db.get(resource) or set()".
Get(w) ==
  /\ pc[w] = "get"
  /\ aux' = [aux EXCEPT ![w] = db[shelf[w]][key[w]]]
  /\ Goto(w, "put")
  /\ UNCHANGED <<data, locks, fn, shelf, key, cells, tries, todo, test,
                 calls, history>>

Kept(w) == aux[w]

Put(w) ==
  /\ pc[w] = "put"
  /\ db' = [db EXCEPT ![shelf[w]][key[w]] = Kept(w)]
  /\ Goto(w, "read")
  /\ UNCHANGED <<uid, files, locks, call, test, calls, history>>

\* The set is copied out of the file, changed, and stored: two operations
\* on the file, the second with what the first returned.
Read(w) ==
  /\ pc[w] = "read"
  /\ \E r \in cells[w] :
       /\ key' = [key EXCEPT ![w] = r]
       /\ cells' = [cells EXCEPT ![w] = @ \ {r}]
       /\ aux' = [aux EXCEPT ![w] = db[shelf[w]][r]]
  /\ Goto(w, "write")
  /\ UNCHANGED <<data, locks, fn, shelf, tries, todo, test, calls, history>>

\* Variant: addme stores a new set even where there is one.
NewUsersFresh(w) == IF fn[w] = "addme" THEN {Id(w)} ELSE aux[w] \ {Id(w)}

NewUsers(w) ==
  IF fn[w] = "addme" THEN aux[w] \cup {Id(w)} ELSE aux[w] \ {Id(w)}

Write(w) ==
  /\ pc[w] = "write"
  /\ db' = IF fn[w] # "addme" /\ Id(w) \notin aux[w]
           THEN db
           ELSE [db EXCEPT ![shelf[w]][key[w]] = NewUsers(w)]
  /\ Goto(w, IF cells[w] = {} THEN "close" ELSE "read")
  /\ UNCHANGED <<uid, files, locks, call, test, calls, history>>

Close(w) ==
  /\ pc[w] = "close"
  /\ opened' = [opened EXCEPT ![shelf[w]] = @ \ {w}]
  /\ Goto(w, "release")
  /\ UNCHANGED <<data, holder, call, test, calls, history>>

Release(w) ==
  /\ pc[w] = "release"
  /\ Drop(LockName(w))
  /\ fn' = [fn EXCEPT ![w] = IF @ = "sweep" THEN "sweep" ELSE "none"]
  /\ Goto(w, CASE fn[w] = "sweep" -> "visit"
               [] fn[w] # "sweep" /\ test[w] = NoTest -> "idle"
               [] OTHER -> "running")
  /\ UNCHANGED <<data, opened, shelf, key, cells, aux, tries, todo, test,
                 calls, history>>
-----------------------------------------------------------------------------
(***************************************************************************)
(* remove_test_from_all_shared_resources, called when a test is left: it   *)
(* lists the directory and calls remove_test_from_shelf_resources for each *)
(* shelf, which takes the lock its caller has taken.                       *)
(***************************************************************************)
EndTest(w) ==
  /\ pc[w] = "running"
  /\ fn' = [fn EXCEPT ![w] = "sweep"]
  /\ Goto(w, "outer")
  /\ UNCHANGED <<data, locks, shelf, key, cells, aux, tries, todo, test,
                 calls, history>>

\* Variant: the directory is listed before its shelves exist.
NoShelves == {}

Listing == files

\* Variant: a shelf that was visited stays in the list.
SweepAgain(w, s) == todo[w]

SweepRest(w, s) == todo[w] \ {s}

BeginSweep(w) ==
  /\ pc[w] = "outer"
  /\ Take(w, test[w])
  /\ todo' = [todo EXCEPT ![w] = Listing]
  /\ Goto(w, "visit")
  /\ UNCHANGED <<data, opened, fn, shelf, key, cells, aux, tries, test,
                 calls, history>>

Visit(w) ==
  /\ pc[w] = "visit"
  /\ \E s \in todo[w] :
       /\ shelf' = [shelf EXCEPT ![w] = s]
       /\ todo' = [todo EXCEPT ![w] = SweepRest(w, s)]
  /\ Goto(w, "acquire")
  /\ UNCHANGED <<data, locks, fn, key, cells, aux, tries, test, calls,
                 history>>

EndSweep(w) ==
  /\ pc[w] = "visit"
  /\ todo[w] = {}
  /\ Drop(test[w])
  /\ fn' = [fn EXCEPT ![w] = "none"]
  /\ test' = [test EXCEPT ![w] = NoTest]
  /\ Goto(w, "idle")
  /\ UNCHANGED <<data, opened, shelf, key, cells, aux, tries, todo, calls,
                 history>>
-----------------------------------------------------------------------------
\* A worker process dies: the system closes its files and drops its locks,
\* its test is reported and not run again, and xdist starts a new worker.
Crash(w) ==
  /\ RunUid # NoUid
  /\ crashes < MaxCrashes
  /\ crashes' = crashes + 1
  /\ opened' = [s \in Shelves |-> opened[s] \ {w}]
  /\ holder' = [k \in Keys |-> IF holder[k] = w THEN NoWorker ELSE holder[k]]
  /\ torn' = (torn \/ pc[w] = "unlink")
  /\ unswept' = unswept \cup ({test[w]} \ {NoTest})
  /\ test' = [test EXCEPT ![w] = NoTest]
  /\ fn' = [fn EXCEPT ![w] = "none"]
  /\ cells' = [cells EXCEPT ![w] = {}]
  /\ tries' = [tries EXCEPT ![w] = 0]
  /\ todo' = [todo EXCEPT ![w] = {}]
  /\ Goto(w, "start")
  /\ UNCHANGED <<data, shelf, key, aux, calls, pending>>

\* Every test has been run and every worker is between calls.
Finished ==
  /\ pending = {}
  /\ \A w \in Workers : pc[w] = "idle"
  /\ UNCHANGED vars

Step(w) ==
  \/ StartInit(w) \/ CheckUid(w) \/ Unlink(w) \/ EndUnlink(w)
  \/ BeginTest(w) \/ Call(w) \/ Acquire(w)
  \/ Open(w) \/ OpenFails(w) \/ GiveUp(w)
  \/ Get(w) \/ Put(w) \/ Read(w) \/ Write(w) \/ Close(w) \/ Release(w)
  \/ EndTest(w) \/ BeginSweep(w) \/ Visit(w) \/ EndSweep(w)

Next == Finished \/ \E w \in Workers : Step(w) \/ Crash(w)

Spec == Init /\ [][Next]_vars

\* Workers are processes: each is scheduled as long as it can run.
FairSpec == Spec /\ \A w \in Workers : WF_vars(Step(w))
-----------------------------------------------------------------------------
Past(w) == pc[w] \notin {"start", "init", "unlink"}

\* A test that was left, and whose sweep skipped no shelf, is registered
\* nowhere: no other worker puts back the set it read before the sweep
\* (remove_test_from_all_shared_resources, enter_test_case).
SweptTestsReleased ==
  \A t \in Tests \ (pending \cup unswept) :
    (\A w \in Workers : test[w] # t) =>
      \A s \in Shelves, r \in Resources : t \notin db[s][r]

\* Unless a worker died deleting the old shelves, no test is registered
\* before it begins, whatever an earlier run left (initialize_shelves).
NoStaleUsers ==
  ~torn /\ (\E w \in Workers : Past(w)) =>
    \A s \in Shelves, r \in Resources : db[s][r] \cap pending = {}

\* Once the run has begun, a registration appears only by a call to addme
\* made under its own identifier and disappears only by a removal made
\* under it: no worker overwrites what another stored since it read.
OwnChange ==
  \A s \in Shelves, r \in Resources, t \in Ids :
    (t \in db[s][r]) # (t \in db'[s][r]) =>
      \E w \in Workers :
        \/ pc[w] = "unlink"
        \/ pc[w] = "write" /\ Id(w) = t /\ (fn[w] = "addme" <=> t \in db'[s][r])

OnlyOwnerChanges == [][OwnChange]_vars

\* Every test is begun and left and every worker comes to rest: no lock is
\* kept, no retry and no sweep goes on for ever.
AllTestsEnd == <>[](pending = {} /\ \A w \in Workers : pc[w] = "idle")
-----------------------------------------------------------------------------
\* The registrations are the abstract ones; the run starts when the old
\* shelves are deleted (or the worker deleting them is dead).
Started ==
  IF RunUid = NoUid
  THEN \E w \in Workers : Past(w)
  ELSE uid = RunUid /\ \A w \in Workers : pc[w] # "unlink"

Abs == INSTANCE SharedResources WITH users <- db, started <- Started

\* Each step registers or unregisters one test for one resource, forgets a
\* shelf before the run starts, or changes no registration.
ImplementsAbs == Abs!AbsSpec
=============================================================================
